---------------------------- MODULE MCEvaluation ----------------------------
(***************************************************************************)
(* Instances of FlagEvaluation for TLC: five families of worlds.            *)
(***************************************************************************)
EXTENDS FlagEvaluation

\* Texts, and what the two languages make of them.
Texts == {"", "5", "5px", "free", "1.2.3", "1.2.3-rc", "1.2", "2024", "2024T",
          "2025T", "(?i)FREE"}

\* Every text to d, except for the given ones.
Table(given, d) == [x \in Texts |-> IF x \in DOMAIN given THEN given[x] ELSE d]

GoFloats == Table("5" :> 50 @@ "1.2" :> 12 @@ "2024" :> 20240, None)
JsFloats == Table("5" :> 50 @@ "1.2" :> 12 @@ "2024" :> 20240 @@ "5px" :> 50
                  @@ "1.2.3" :> 12 @@ "1.2.3-rc" :> 12 @@ "2024T" :> 20240
                  @@ "2025T" :> 20250, None)
GoTimes  == Table("2024T" :> 70 @@ "2025T" :> 80, None)
JsTimes  == Table("2024T" :> 70 @@ "2025T" :> 80 @@ "2024" :> 70 @@ "5" :> 60, None)
GoVersions == Table("1.2.3" :> 5 @@ "1.2.3-rc" :> 4 @@ "1.2" :> 3 @@ "5" :> 6
                    @@ "2024" :> 7, None)
JsVersions == Table("1.2.3" :> 5 @@ "1.2.3-rc" :> 5, None)
Decimals == [n \in {50, 20240} |-> IF n = 50 THEN "5" ELSE "2024"]
TextRelation == {<<"startsWith", "5px", "5">>, <<"contains", "5px", "5">>,
                 <<"endsWith", "1.2.3-rc", "free">>}
\* JavaScript has no flags inside a pattern.
JsPatterns ==
  [Table("5" :> {"5", "5px", "2025T"} @@ "5px" :> {"5px"} @@ "free" :> {"free"}
         @@ "1.2" :> {"1.2", "1.2.3", "1.2.3-rc"} @@ "1.2.3" :> {"1.2.3", "1.2.3-rc"}
         @@ "1.2.3-rc" :> {"1.2.3-rc"} @@ "2024" :> {"2024", "2024T"}
         @@ "2024T" :> {"2024T"} @@ "2025T" :> {"2025T"}, {}) EXCEPT ![""] = Texts]
GoPatterns == [JsPatterns EXCEPT !["(?i)FREE"] = {"free", "(?i)FREE"}]

-----------------------------------------------------------------------------
\* The context has key "free".
Ctx(kind, attributes) ==
  [key |-> "free", kind |-> kind, anonymous |-> FALSE, attributes |-> attributes]
NoAttributes == [a \in {} |-> None]

Fixed(v) == [variation |-> v, rollout |-> None]
Rolled(ro) == [variation |-> None, rollout |-> ro]

\* A flag that is on and serves its fallthrough.
Flag(vr) ==
  [on |-> TRUE, variations |-> 2, off |-> 0, prereqs |-> <<>>, targets |-> <<>>,
   rules |-> <<>>, fallthrough |-> vr, salt |-> "salt"]

Rule(id, clauses, vr) == [id |-> id, clauses |-> clauses,
                          variation |-> vr.variation, rollout |-> vr.rollout]

World(flags, segments, ctx, hash) ==
  [flags |-> flags, segments |-> segments, ctx |-> ctx, hash |-> hash]
NoSegments == [s \in {} |-> None]

\* Buckets with a seed and without, for the ids that can be hashed.
Hashes(seeded, plain, segment) ==
  [i \in ({7} \X {"free", "5"}) \cup ({"f1", "seg"} \X {"salt"} \X {"free", "5"}) |->
     IF Len(i) = 2 THEN seeded ELSE IF i[1] = "f1" THEN plain ELSE segment]

-----------------------------------------------------------------------------
\* Prerequisites: any three flags, each off, or on with at most two of some
\* prerequisites; and four flags in chains and diamonds.
Needs(f, v) == [flag |-> f, variation |-> v]
PrereqLists ==
  {<<>>, <<Needs("f1", 1)>>, <<Needs("f2", 1)>>, <<Needs("f3", 1)>>, <<Needs("f3", 0)>>,
   <<Needs("f1", 0)>>, <<Needs("none", 0)>>, <<Needs("f2", 1), Needs("f3", 1)>>,
   <<Needs("f2", 0), Needs("f3", 1)>>, <<Needs("f3", 1), Needs("f1", 0)>>}
GraphFlags ==
  {[Flag(Fixed(v)) EXCEPT !.prereqs = ps] : v \in {0, 1}, ps \in PrereqLists}
    \cup {[Flag(Fixed(1)) EXCEPT !.on = FALSE, !.off = o] : o \in {1, None}}

Diamond(a, b, c, d) ==
  "f1" :> [Flag(Fixed(1)) EXCEPT !.prereqs = <<Needs("f2", a), Needs("f3", b)>>]
    @@ "f2" :> [Flag(Fixed(1)) EXCEPT !.prereqs = <<Needs("f4", c)>>]
    @@ "f3" :> [Flag(Fixed(1)) EXCEPT !.prereqs = d]
    @@ "f4" :> Flag(Fixed(1))

PrereqInit ==
  LET Start(flags) ==
        InitWith(World(flags, NoSegments, Ctx("user", NoAttributes), Hashes(0, 0, 0)))
  IN  \/ \E flags \in [{"f1", "f2", "f3"} -> GraphFlags] : Start(flags)
      \/ \E a, b, c \in {0, 1}, d \in {<<>>, <<Needs("f4", 1)>>, <<Needs("f2", 1)>>} :
           Start(Diamond(a, b, c, d))

-----------------------------------------------------------------------------
\* Clauses: one rule with one clause on the attribute "plan".
Scalars == {String(x) : x \in Texts \ {""}}
             \cup {[number |-> 50], [number |-> 12], [number |-> 10],
                   [bool |-> TRUE], [null |-> None]}
PlanValues ==
  Scalars \cup {[int |-> 50],
                [array |-> <<>>],
                [array |-> <<String("free"), [number |-> 50]>>],
                [array |-> <<[null |-> None], String("1.2.3")>>]}
Operators == {"in", "unknown"} \cup StringOps \cup NumberOps \cup TimeOps \cup SemVerOps
JsStrings == [v \in Scalars |-> IF Is(v, "null") THEN "null" ELSE "5"]
ValueLists == {<<c>> : c \in Scalars} \cup {<<>>, <<String("5"), String("free")>>}

Clause(attribute, op, values, negate) ==
  [attribute |-> attribute, op |-> op, values |-> values, negate |-> negate]

Plan(x) == IF x = None THEN NoAttributes ELSE "plan" :> x

ClauseInit ==
  LET Start(clause, ctx) ==
        InitWith(World("f1" :> [Flag(Fixed(0)) EXCEPT
                                  !.rules = <<Rule("r1", <<clause>>, Fixed(1))>>],
                       NoSegments, ctx, Hashes(0, 0, 0)))
  IN  \/ \E op \in Operators, values \in ValueLists, negate \in BOOLEAN,
            x \in PlanValues \cup {None} :
           Start(Clause("plan", op, values, negate), Ctx("user", Plan(x)))
      \/ \E a \in {"key", "kind", "anonymous"}, negate \in BOOLEAN,
            kind \in {"user", "free", None} :
           Start(Clause(a, "in", <<String("free")>>, negate), Ctx(kind, NoAttributes))

-----------------------------------------------------------------------------
\* Outcomes: rollouts of every weight, and flags that are malformed.
Weights(a, b, c, last) ==
  <<[variation |-> 0, weight |-> a], [variation |-> 1, weight |-> b],
    [variation |-> last, weight |-> c]>>
Rollout(variations, bucketBy, seed) ==
  [variations |-> variations, bucketBy |-> bucketBy, seed |-> seed, exp |-> seed # None]

RolloutInit ==
  \E a, b \in 0 .. FullWeight, last \in {0, 2}, by \in {"", "plan"}, seed \in {None, 7},
    x \in {None, String("5"), [number |-> 50], [number |-> 12], [int |-> 50],
           [number |-> 20240], [number |-> -20240], [null |-> None]},
    s \in 0 .. FullWeight, p \in {0, FullWeight} :
      /\ a + b <= FullWeight
      /\ InitWith(World(
           "f1" :> [Flag(Rolled(Rollout(Weights(a, b, FullWeight - a - b, last), by, seed)))
                      EXCEPT !.variations = 3],
           NoSegments, Ctx("user", Plan(x)), Hashes(s, p, 0)))

Outcomes ==
  {Fixed(v) : v \in {-1, 0, 1, 2, None}}
    \cup {Rolled(Rollout(vs, "", None)) :
            vs \in {<<>>, Weights(1, 1, 0, 0), Weights(1, FullWeight - 1, 0, 0),
                    Weights(FullWeight, 1, -1, 0),
                    <<[variation |-> 2, weight |-> FullWeight]>>,
                    <<[variation |-> 1, weight |-> FullWeight]>>}}

RuleLists ==
  {<<>>} \cup {<<Rule(i, c, vr)>> : i \in {"", "r1"},
                 c \in {<<>>, <<Clause("key", "in", <<String("free")>>, FALSE)>>},
                 vr \in Outcomes}
         \cup {<<Rule("r1", <<Clause("key", "in", <<String("5")>>, FALSE)>>, Fixed(0)),
                 Rule(i, <<Clause("key", "in", <<String("free")>>, FALSE)>>, Fixed(1))>> :
                 i \in {"r1", "r2"}}

OutcomeInit ==
  \E vr \in Outcomes, n \in {1, 2}, o \in {None, 1, 2}, rs \in RuleLists, on \in BOOLEAN,
    ts \in {<<>>, <<[variation |-> 1, keys |-> {"5"}], [variation |-> 2, keys |-> {"free"}]>>} :
      InitWith(World("f1" :> [Flag(vr) EXCEPT !.variations = n, !.off = o, !.targets = ts,
                                              !.rules = rs, !.on = on],
                     NoSegments, Ctx("user", NoAttributes), Hashes(0, FullWeight, 0)))

-----------------------------------------------------------------------------
\* Segments: "seg" may refer to "other", which has the context.
PlanIs(text) == Clause("plan", "in", <<String(text)>>, FALSE)
SegRule(clauses, weight, by) == [clauses |-> clauses, weight |-> weight, bucketBy |-> by]
Segment(included, excluded, rules) ==
  [included |-> included, excluded |-> excluded, rules |-> rules, salt |-> "salt"]

SegmentRules ==
  {SegRule(<<PlanIs("5")>>, wt, "") : wt \in {None, 0, 2}}
    \cup {SegRule(<<PlanIs("free")>>, None, ""), SegRule(<<>>, None, ""),
          SegRule(<<PlanIs("5")>>, 2, "plan"),
          SegRule(<<Clause("", "segmentMatch", <<String("other")>>, TRUE)>>, None, ""),
          SegRule(<<PlanIs("5"), Clause("", "segmentMatch", <<String("other")>>, FALSE)>>, None, "")}

SegmentWorld(in, out, rules, negate, bucket) ==
  World("f1" :> [Flag(Fixed(0)) EXCEPT
                   !.rules = <<Rule("r1",
                     <<Clause("", "segmentMatch",
                              <<[null |-> None], [number |-> 50],
                                String("gone"), String("seg")>>, negate)>>, Fixed(1))>>],
        "seg" :> Segment(in, out, rules) @@ "other" :> Segment({"free"}, {}, <<>>),
        Ctx("user", Plan(String("5"))),
        [Hashes(0, 0, bucket) EXCEPT ![<<"seg", "salt", "5">>] = 0])

SegmentInit ==
  \E in, out \in SUBSET {"free"}, negate \in BOOLEAN, bucket \in 0 .. FullWeight,
    rules \in {<<>>} \cup {<<r>> : r \in SegmentRules} \cup (SegmentRules \X SegmentRules) :
      \/ InitWith(SegmentWorld(in, out, rules, negate, bucket))
      \/ /\ rules = <<>>
         /\ InitWith([SegmentWorld(in, out, rules, negate, bucket) EXCEPT
                        !.segments = @ @@ "null" :> Segment({"free"}, {}, <<>>)])

MCInit == PrereqInit \/ ClauseInit \/ RolloutInit \/ OutcomeInit \/ SegmentInit

MCSpec == MCInit /\ [][Next]_vars

-----------------------------------------------------------------------------
\* A segment of two rules that have clauses, the first with a weight.
WeightedInit ==
  \E bucket \in 0 .. FullWeight :
    InitWith(SegmentWorld({}, {}, <<SegRule(<<PlanIs("5")>>, 2, ""),
                                    SegRule(<<PlanIs("5")>>, None, "")>>, FALSE, bucket))

WeightedSpec == WeightedInit /\ [][Next]_vars
=============================================================================
