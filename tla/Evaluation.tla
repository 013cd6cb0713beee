----------------------------- MODULE Evaluation -----------------------------
(***************************************************************************)
(* Evaluation of a flag for a context, as the server and the Go SDK do it   *)
(* (internal/eval, internal/model).  A snapshot and a context are a record: *)
(*                                                                         *)
(*   flags     flag key -> its variations and its FlagConfig                *)
(*   segments  segment key -> segment                                       *)
(*   ctx       the context: key, kind, anonymous, attributes                *)
(*   hash      hash input -> bucket: the SHA-1 of the input, as a fraction  *)
(*                                                                         *)
(* An attribute or clause value is a record whose only field is named after *)
(* its type: [string |-> "free"], [number |-> 50], [null |-> None].  The    *)
(* number n stands for n/10, so that there are fractions.  Texts are        *)
(* opaque: what the parsers and the string functions make of them is given  *)
(* by constants.  A weight and a bucket are numbers in 0..FullWeight        *)
(* (100000 and 1.0 in the code): sums are exact here.  A bucket of          *)
(* FullWeight is possible, because the largest hashes round to 1.0.         *)
(***************************************************************************)
EXTENDS Integers, FiniteSets, FiniteSetsExt, SequencesExt

CONSTANTS
  None,                  \* nil: no index, no rollout, no seed, no attribute
  MaxPrerequisiteDepth,  \* 20 in the code
  FullWeight,            \* 100000 in the code
  BigNumber,             \* 1e15 in the code
  Relates,               \* <<operator, text, text>> that hold, but for "matches"
  Matches,               \* pattern -> the texts that it matches (regexp)
  ParseFloat,            \* text -> number, or None   (strconv.ParseFloat)
  RFC3339,               \* text -> time, or None     (time.Parse)
  SemVer,                \* text -> rank of the version, or None
  Decimal                \* number -> text            (strconv.FormatInt)

String(text) == [string |-> text]
Is(x, type)  == type \in DOMAIN x

\* The first of some positions of a list, or None.
First(positions) == IF positions = {} THEN None ELSE Min(positions)

-----------------------------------------------------------------------------
(***************************************************************************)
(* Operators on values.                                                     *)
(***************************************************************************)
StringOps  == {"startsWith", "endsWith", "contains", "matches"}
NumberOps  == {"lessThan", "lessThanOrEqual", "greaterThan", "greaterThanOrEqual"}
TimeOps    == {"before", "after"}
SemVerOps  == {"semVerEqual", "semVerLessThan", "semVerGreaterThan"}

Compare(op, a, b) ==
  CASE op \in {"lessThan", "before", "semVerLessThan"}      -> a < b
    [] op = "lessThanOrEqual"                               -> a <= b
    [] op \in {"greaterThan", "after", "semVerGreaterThan"} -> a > b
    [] op = "greaterThanOrEqual"                            -> a >= b
    [] op = "semVerEqual"                                   -> a = b

BothCompare(op, a, b) == a # None /\ b # None /\ Compare(op, a, b)

\* matchIn, on the decoded clause value.  A Go int is no JSON type: it equals
\* nothing.
jsonValuesEqual(a, b) == ~Is(a, "int") /\ ~Is(a, "array") /\ a = b

\* Decoding the JSON null into a string or a number succeeds and leaves the
\* zero value.
AsString(c) ==
  CASE Is(c, "string") -> c.string [] Is(c, "null") -> "" [] OTHER -> None
AsNumber(c) ==
  CASE Is(c, "number") -> c.number [] Is(c, "null") -> 0 [] OTHER -> None

\* Every text has the empty text in it and at both ends.  A pattern that does
\* not compile matches nothing.
Holds(op, x, y) ==
  IF op = "matches" THEN x \in Matches[y] ELSE y = "" \/ <<op, x, y>> \in Relates

matchStringOp(op, a, c) ==
  Is(a, "string") /\ AsString(c) # None /\ Holds(op, a.string, AsString(c))

toFloat64(a) ==
  CASE Is(a, "number") -> a.number
    [] Is(a, "int")    -> a.int
    [] Is(a, "string") -> ParseFloat[a.string]
    [] OTHER           -> None

matchNumeric(op, a, c) == BothCompare(op, toFloat64(a), AsNumber(c))

\* int64(t) and math.Trunc: toward zero.
Trunc(n) == IF n >= 0 THEN n - (n % 10) ELSE n + ((-n) % 10)

parseTime(a) ==
  CASE Is(a, "string") -> RFC3339[a.string]
    [] Is(a, "number") -> Trunc(a.number)
    [] OTHER           -> None

parseTimeFromJSON(c) ==
  CASE Is(c, "string") -> RFC3339[c.string]
    [] Is(c, "number") \/ Is(c, "null") -> Trunc(AsNumber(c))
    [] OTHER           -> None

matchDatetime(op, a, c) == BothCompare(op, parseTime(a), parseTimeFromJSON(c))

matchSemVer(op, a, c) ==
  /\ Is(a, "string") /\ AsString(c) # None
  /\ BothCompare(op, SemVer[a.string], SemVer[AsString(c)])

matchOperator(op, a, c) ==
  CASE op = "in"          -> jsonValuesEqual(a, c)
    [] op \in StringOps   -> matchStringOp(op, a, c)
    [] op \in NumberOps   -> matchNumeric(op, a, c)
    [] op \in TimeOps     -> matchDatetime(op, a, c)
    [] op \in SemVerOps   -> matchSemVer(op, a, c)
    [] OTHER              -> FALSE

-----------------------------------------------------------------------------
(***************************************************************************)
(* Attributes and buckets.                                                  *)
(***************************************************************************)
\* Decoding a context without a kind leaves the empty text.
GetAttribute(ctx, name) ==
  CASE name = "key"       -> String(ctx.key)
    [] name = "kind"      -> String(IF ctx.kind = None THEN "" ELSE ctx.kind)
    [] name = "anonymous" -> [bool |-> ctx.anonymous]
    [] OTHER -> IF name \in DOMAIN ctx.attributes THEN ctx.attributes[name] ELSE None

\* A whole number that is exact in both languages.
IsWhole(n) == n = Trunc(n) /\ -BigNumber < n /\ n < BigNumber

stringifyBucketValue(x) ==
  CASE Is(x, "string") -> x.string
    [] Is(x, "int")    -> Decimal[x.int]
    [] Is(x, "number") /\ IsWhole(x.number) -> Decimal[x.number]
    [] OTHER           -> None

OrKey(bucketBy) == IF bucketBy = "" THEN "key" ELSE bucketBy

\* What of the context is hashed, or None.
BucketId(w, bucketBy) ==
  LET x == GetAttribute(w.ctx, OrKey(bucketBy))
  IN  IF x = None THEN None ELSE stringifyBucketValue(x)

HashInput(id, key, salt, seed) == IF seed # None THEN <<seed, id>> ELSE <<key, salt, id>>

ComputeBucket(w, bucketBy, key, salt, seed) ==
  LET id == BucketId(w, bucketBy)
  IN  IF id = None THEN 0 ELSE w.hash[HashInput(id, key, salt, seed)]

-----------------------------------------------------------------------------
(***************************************************************************)
(* Clauses, rules and segments.  Segments may refer to each other: in says  *)
(* of every segment whether the context is in it.                           *)
(***************************************************************************)
clauseMatchesIn(w, c, in) ==
  LET attr     == GetAttribute(w.ctx, c.attribute)
      operands == IF Is(attr, "array") THEN Range(attr.array) ELSE {attr}
      segments == {AsString(v) : v \in Range(c.values)} \cap DOMAIN w.segments
  IN  IF c.op = "segmentMatch"
        THEN (\E s \in segments : in[s]) # c.negate
        ELSE /\ attr # None
             /\ (\E a \in operands, v \in Range(c.values) :
                    matchOperator(c.op, a, v)) # c.negate

segmentMatchesIn(w, s, in) ==
  LET seg   == w.segments[s]
      first == First({i \in DOMAIN seg.rules :
                        \A j \in DOMAIN seg.rules[i].clauses :
                          clauseMatchesIn(w, seg.rules[i].clauses[j], in)})
  IN  /\ w.ctx.key \notin seg.excluded
      /\ \/ w.ctx.key \in seg.included
         \/ /\ first # None
            /\ LET r == seg.rules[first]
               IN  \/ r.weight = None
                   \/ ComputeBucket(w, r.bucketBy, s, seg.salt, None) < r.weight

segmentMatches(w) ==
  LET in[s \in DOMAIN w.segments] == segmentMatchesIn(w, s, in) IN in

clauseMatches(w, c) == clauseMatchesIn(w, c, segmentMatches(w))

ruleMatches(w, rule) ==
  /\ rule.clauses # <<>>
  /\ \A i \in DOMAIN rule.clauses : clauseMatches(w, rule.clauses[i])

-----------------------------------------------------------------------------
(***************************************************************************)
(* Results: the index of a variation, or None, and a reason.                *)
(***************************************************************************)
Reason(kind) ==
  [kind |-> kind, rule |-> None, prereq |-> None, error |-> None, exp |-> FALSE]
Error(error) == [Reason("ERROR") EXCEPT !.error = error]
Malformed == [idx |-> None, reason |-> Error("MALFORMED_FLAG")]

\* Mutant: a negative index is not looked at.
variationResult_Negative(flag, idx, reason) ==
  IF idx < flag.variations THEN [idx |-> idx, reason |-> reason] ELSE Malformed

variationResult(flag, idx, reason) ==
  IF idx \in 0 .. flag.variations - 1 THEN [idx |-> idx, reason |-> reason]
                                      ELSE Malformed

offResult(flag, reason) ==
  IF flag.off = None THEN [idx |-> None, reason |-> reason]
                     ELSE variationResult(flag, flag.off, reason)

\* The weights of the first i variations of a rollout.
WeightUpTo(variations, i) ==
  LET sum[k \in 0 .. Len(variations)] ==
        IF k = 0 THEN 0 ELSE sum[k - 1] + variations[k].weight
  IN  sum[i]

\* Mutant: the weight is compared by itself, not added to those before it.
RolloutChoice_NoSum(variations, bucket) ==
  LET i == First({k \in DOMAIN variations : bucket < variations[k].weight})
  IN  variations[IF i = None THEN Len(variations) ELSE i].variation

\* Mutant: the heavier variations come first.
RolloutChoice_Sorted(variations, bucket) ==
  LET sorted == SortSeq(variations, LAMBDA a, b : a.weight > b.weight)
      i == First({k \in DOMAIN sorted : bucket < WeightUpTo(sorted, k)})
  IN  sorted[IF i = None THEN Len(sorted) ELSE i].variation

\* The first variation whose sum is above the bucket, and otherwise the last.
RolloutChoice(variations, bucket) ==
  LET i == First({k \in DOMAIN variations : bucket < WeightUpTo(variations, k)})
  IN  variations[IF i = None THEN Len(variations) ELSE i].variation

resolveVariationOrRollout(w, f, vr, reason) ==
  LET flag == w.flags[f]
      ro   == vr.rollout
  IN  CASE vr.variation # None -> variationResult(flag, vr.variation, reason)
        [] vr.variation = None /\ (ro = None \/ ro.variations = <<>>) -> Malformed
        [] OTHER ->
             variationResult(flag,
               RolloutChoice(ro.variations,
                             ComputeBucket(w, ro.bucketBy, f, flag.salt, ro.seed)),
               [reason EXCEPT !.exp = ro.exp])

-----------------------------------------------------------------------------
(***************************************************************************)
(* Evaluate.                                                                *)
(***************************************************************************)
FirstTarget(w, flag) ==
  First({i \in DOMAIN flag.targets : w.ctx.key \in flag.targets[i].keys})

\* Steps 3 to 5: targets, rules in stored order, fallthrough.
Outcome(w, f) ==
  LET flag   == w.flags[f]
      target == FirstTarget(w, flag)
      rule   == First({i \in DOMAIN flag.rules : ruleMatches(w, flag.rules[i])})
  IN  CASE target # None ->
             variationResult(flag, flag.targets[target].variation, Reason("TARGET_MATCH"))
        [] target = None /\ rule # None ->
             resolveVariationOrRollout(w, f, flag.rules[rule],
                                       [Reason("RULE_MATCH") EXCEPT !.rule = rule])
        [] OTHER ->
             resolveVariationOrRollout(w, f, flag.fallthrough, Reason("FALLTHROUGH"))

PrerequisiteFailed(w, f, p) ==
  offResult(w.flags[f], [Reason("PREREQUISITE_FAILED") EXCEPT !.prereq = p.flag])

IsOn(w, f) == f \in DOMAIN w.flags /\ w.flags[f].on

\* Mutant: the depth limit is one less.
evaluateAt_Shallow(w, depth, deeper) ==
  [f \in DOMAIN w.flags |-> [visited \in SUBSET DOMAIN w.flags |->
     LET flag   == w.flags[f]
         failed == First({i \in DOMAIN flag.prereqs :
                            LET p == flag.prereqs[i]
                            IN  \/ ~IsOn(w, p.flag)
                                \/ deeper[p.flag][visited \cup {f}].idx # p.variation})
     IN  CASE ~flag.on -> offResult(flag, Reason("OFF"))
           [] flag.on /\ (depth >= MaxPrerequisiteDepth \/ f \in visited) ->
                offResult(flag, Error("PREREQUISITE_CYCLE"))
           [] OTHER -> IF failed = None THEN Outcome(w, f)
                       ELSE PrerequisiteFailed(w, f, flag.prereqs[failed])]]

\* One call of evaluateWithDepth, for any flag and any set of visited flags;
\* deeper is what the calls for the prerequisites answer.  Each prerequisite
\* gets a copy of the visited set.
evaluateAt(w, depth, deeper) ==
  [f \in DOMAIN w.flags |-> [visited \in SUBSET DOMAIN w.flags |->
     LET flag   == w.flags[f]
         failed == First({i \in DOMAIN flag.prereqs :
                            LET p == flag.prereqs[i]
                            IN  \/ ~IsOn(w, p.flag)
                                \/ deeper[p.flag][visited \cup {f}].idx # p.variation})
     IN  CASE ~flag.on -> offResult(flag, Reason("OFF"))
           [] flag.on /\ (depth > MaxPrerequisiteDepth \/ f \in visited) ->
                offResult(flag, Error("PREREQUISITE_CYCLE"))
           [] OTHER -> IF failed = None THEN Outcome(w, f)
                       ELSE PrerequisiteFailed(w, f, flag.prereqs[failed])]]

\* Below the limit no call goes deeper.
evaluateWithDepth(w) ==
  LET calls[depth \in 0 .. MaxPrerequisiteDepth + 1] ==
        evaluateAt(w, depth, IF depth > MaxPrerequisiteDepth THEN <<>> ELSE calls[depth + 1])
  IN  calls

Evaluate(w, f) == evaluateWithDepth(w)[0][f][{}]

-----------------------------------------------------------------------------
(***************************************************************************)
(* Explain: the same decision with the steps that led to it.  Every rule up *)
(* to the one that matches is a step, and so is every prerequisite up to    *)
(* the one that fails ("matched" is then TRUE).                             *)
(***************************************************************************)
IsMet(w, p) == IsOn(w, p.flag) /\ Evaluate(w, p.flag).idx = p.variation

Step(kind, matched) == [kind |-> kind, matched |-> matched]

Trace(steps, result) == [steps |-> steps, result |-> result]

\* n steps of a kind, of which only the last may be matched.
Steps(kind, n, lastMatched) == [i \in 1 .. n |-> Step(kind, lastMatched /\ i = n)]

ExplainOutcome(w, f, steps) ==
  LET flag   == w.flags[f]
      target == FirstTarget(w, flag)
      rule   == First({i \in DOMAIN flag.rules :
                         \A j \in DOMAIN flag.rules[i].clauses :
                           clauseMatches(w, flag.rules[i].clauses[j])})
      toRules == Append(steps, Step("target", FALSE))
  IN  CASE target # None ->
             Trace(Append(steps, Step("target", TRUE)),
                   variationResult(flag, flag.targets[target].variation,
                                   Reason("TARGET_MATCH")))
        [] target = None /\ rule # None ->
             Trace(toRules \o Steps("rule", rule, TRUE),
                   resolveVariationOrRollout(w, f, flag.rules[rule],
                     [Reason("RULE_MATCH") EXCEPT !.rule = rule]))
        [] OTHER ->
             Trace(Append(toRules \o Steps("rule", Len(flag.rules), FALSE),
                          Step("fallthrough", TRUE)),
                   resolveVariationOrRollout(w, f, flag.fallthrough, Reason("FALLTHROUGH")))

\* Mutant: a prerequisite that is off is not looked at before it is evaluated.
Explain_OffPrerequisite(w, f) ==
  LET flag == w.flags[f]
      failed == First({i \in DOMAIN flag.prereqs :
                         LET p == flag.prereqs[i]
                         IN  \/ p.flag \notin DOMAIN w.flags
                             \/ Evaluate(w, p.flag).idx # p.variation})
      isOn   == <<Step("off_check", FALSE)>>
  IN  CASE ~flag.on -> Trace(<<Step("off_check", TRUE)>>, offResult(flag, Reason("OFF")))
        [] flag.on /\ failed # None ->
             Trace(isOn \o Steps("prerequisite", failed, TRUE),
                   PrerequisiteFailed(w, f, flag.prereqs[failed]))
        [] OTHER ->
             ExplainOutcome(w, f, isOn \o Steps("prerequisite", Len(flag.prereqs), FALSE))

\* Prerequisites are evaluated afresh, from depth 0.
Explain(w, f) ==
  LET flag == w.flags[f]
      failed == First({i \in DOMAIN flag.prereqs : ~IsMet(w, flag.prereqs[i])})
      isOn   == <<Step("off_check", FALSE)>>
  IN  CASE ~flag.on -> Trace(<<Step("off_check", TRUE)>>, offResult(flag, Reason("OFF")))
        [] flag.on /\ failed # None ->
             Trace(isOn \o Steps("prerequisite", failed, TRUE),
                   PrerequisiteFailed(w, f, flag.prereqs[failed]))
        [] OTHER ->
             ExplainOutcome(w, f, isOn \o Steps("prerequisite", Len(flag.prereqs), FALSE))

-----------------------------------------------------------------------------
(***************************************************************************)
(* What createFlag and updateFlag accept.                                   *)
(***************************************************************************)
InRange(flag, idx) == idx \in 0 .. flag.variations - 1

\* Mutant: the indices of a rollout are not looked at.
validateRollout_WeightsOnly(flag, ro) ==
  WeightUpTo(ro.variations, Len(ro.variations)) = FullWeight

validateRollout(flag, ro) ==
  /\ \A i \in DOMAIN ro.variations : InRange(flag, ro.variations[i].variation)
  /\ WeightUpTo(ro.variations, Len(ro.variations)) = FullWeight

validateFlagConfig(flag) ==
  /\ flag.off # None => InRange(flag, flag.off)
  /\ \A i \in DOMAIN flag.rules :
       LET r == flag.rules[i]
       IN  /\ r.id # ""
           /\ \A j \in 1 .. i - 1 : flag.rules[j].id # r.id
           /\ r.variation # None => InRange(flag, r.variation)
           /\ r.rollout # None => validateRollout(flag, r.rollout)
  /\ flag.fallthrough.rollout # None => validateRollout(flag, flag.fallthrough.rollout)

Validate(flag) == flag.variations >= 2 /\ validateFlagConfig(flag)
=============================================================================
