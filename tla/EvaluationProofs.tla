-------------------------- MODULE EvaluationProofs --------------------------
(***************************************************************************)
(* The evaluators, for any snapshot and context: what prerequisites,        *)
(* targets, rules and rollouts come to, that Explain tells what Evaluate    *)
(* does, and that the two languages agree on the common ground.             *)
(***************************************************************************)
EXTENDS FlagEvaluation, UpToInduction, FiniteSetTheorems, TLAPS

-----------------------------------------------------------------------------
(***************************************************************************)
(* Lists: the first of some positions.                                      *)
(***************************************************************************)
LEMMA NoneIs == None \notin Int /\ None \notin Nat /\ None \notin STRING /\ None \notin Rollouts
<1>1. None \notin Int \cup STRING \cup Rollouts
  BY EvaluationAssumption, Zenon
<1>2. None \notin Int /\ None \notin STRING /\ None \notin Rollouts
  BY <1>1, Zenon
<1> QED
  BY <1>2

LEMMA FirstIs ==
  ASSUME NEW T, T \subseteq Nat
  PROVE  /\ T = {} => First(T) = None
         /\ T # {} => First(T) \in T /\ First(T) # None /\ \A i \in T : First(T) <= i
<1>1. ASSUME T # {} PROVE Min(T) \in T /\ \A i \in T : Min(T) <= i
  <2>1. \E x \in T : \A y \in T : x <= y
    BY <1>1, LeastNumber
  <2> QED
    BY <2>1 DEF Min
<1> QED
  BY <1>1, NoneIs DEF First

LEMMA ElementType ==
  ASSUME NEW S, NEW s \in Seq(S), NEW i \in 1 .. Len(s)
  PROVE  s[i] \in S
OBVIOUS

\* No position, or one of them.
LEMMA FirstOf ==
  ASSUME NEW S, NEW s \in Seq(S), NEW T \in SUBSET DOMAIN s
  PROVE  \/ First(T) = None
         \/ First(T) \in T /\ First(T) \in 1 .. Len(s) /\ s[First(T)] \in S
<1>1. T \subseteq 1 .. Len(s) /\ 1 .. Len(s) \subseteq Nat
  OBVIOUS
<1> QED
  BY <1>1, FirstIs

-----------------------------------------------------------------------------
(***************************************************************************)
(* Types of results.                                                        *)
(***************************************************************************)
Kinds == {"OFF", "PREREQUISITE_FAILED", "TARGET_MATCH", "RULE_MATCH", "FALLTHROUGH", "ERROR"}
Reasons ==
  [kind : Kinds, rule : Nat \cup {None}, prereq : STRING \cup {None},
   error : {"MALFORMED_FLAG", "PREREQUISITE_CYCLE", None}, exp : BOOLEAN]
Results == [idx : Indices, reason : Reasons]

\* What the evaluation of a flag may answer.
Answers(flag) == {r \in Results : r.idx \in {None} \cup 0 .. flag.variations - 1}

LEMMA ReasonType ==
  ASSUME NEW kind \in Kinds
  PROVE  /\ Reason(kind) \in Reasons /\ Reason(kind).kind = kind /\ Reason(kind).exp = FALSE
         /\ \A rule \in Nat : /\ [Reason(kind) EXCEPT !.rule = rule] \in Reasons
                              /\ [Reason(kind) EXCEPT !.rule = rule].kind = kind
         /\ \A p \in STRING : /\ [Reason(kind) EXCEPT !.prereq = p] \in Reasons
                              /\ [Reason(kind) EXCEPT !.prereq = p].kind = kind
BY DEF Reason, Reasons

LEMMA ErrorType ==
  ASSUME NEW error \in {"MALFORMED_FLAG", "PREREQUISITE_CYCLE"}
  PROVE  Error(error) \in Reasons /\ Error(error).kind = "ERROR"
<1>1. PICK r : r = Reason("ERROR")
  OBVIOUS
<1>2. r \in Reasons /\ r.kind = "ERROR"
  BY <1>1, ReasonType DEF Kinds
<1>3. Error(error) = [r EXCEPT !.error = error]
  BY <1>1 DEF Error
<1> QED
  BY <1>2, <1>3 DEF Reasons

LEMMA MalformedType ==
  ASSUME NEW flag
  PROVE  Malformed \in Answers(flag) /\ Malformed.reason.kind = "ERROR" /\ Malformed.idx = None
<1>1. PICK r : r = Error("MALFORMED_FLAG")
  OBVIOUS
<1>2. r \in Reasons /\ r.kind = "ERROR"
  BY <1>1, ErrorType
<1> QED
  BY <1>1, <1>2 DEF Malformed, Answers, Results, Indices

LEMMA VariationResultType ==
  ASSUME NEW flag \in Flags, NEW idx \in Int, NEW reason \in Reasons
  PROVE  variationResult(flag, idx, reason) \in Answers(flag)
BY MalformedType DEF variationResult, Answers, Results, Indices, Flags

LEMMA OffResultType ==
  ASSUME NEW flag \in Flags, NEW reason \in Reasons
  PROVE  offResult(flag, reason) \in Answers(flag)
<1>1. flag.off \in Int \cup {None}
  BY DEF Flags, Indices
<1>2. CASE flag.off = None
  BY <1>2 DEF offResult, Answers, Results, Indices
<1>3. CASE flag.off \in Int
  BY <1>3, NoneIs, VariationResultType DEF offResult
<1> QED
  BY <1>1, <1>2, <1>3

\* Rollouts serve an index of the list.
LEMMA ChoiceType ==
  ASSUME NEW S, NEW variations \in Seq([variation : S, weight : Int]),
         variations # <<>>, NEW bucket
  PROVE  RolloutChoice(variations, bucket) \in S
<1>1. PICK T : T = {k \in DOMAIN variations : bucket < WeightUpTo(variations, k)}
  OBVIOUS
<1>2. T \in SUBSET DOMAIN variations
  BY <1>1
<1>3. PICK i : i = First(T)
  OBVIOUS
<1>4. i = None \/ i \in 1 .. Len(variations)
  BY <1>2, <1>3, FirstOf
<1>5. RolloutChoice(variations, bucket) =
        variations[IF i = None THEN Len(variations) ELSE i].variation
  BY <1>1, <1>3 DEF RolloutChoice
<1>6. Len(variations) \in 1 .. Len(variations)
  OBVIOUS
<1>7. PICK k : k = IF i = None THEN Len(variations) ELSE i
  OBVIOUS
<1>8. k \in 1 .. Len(variations)
  BY <1>4, <1>6, <1>7
<1>9. variations[k] \in [variation : S, weight : Int]
  BY <1>8, ElementType, Zenon
<1> QED
  BY <1>5, <1>7, <1>9

LEMMA ResolveType ==
  ASSUME NEW w, NEW f, w.flags[f] \in Flags, NEW vr, NEW reason \in Reasons,
         vr.variation \in Indices, vr.rollout \in Rollouts \cup {None}
  PROVE  resolveVariationOrRollout(w, f, vr, reason) \in Answers(w.flags[f])
<1>1. CASE vr.variation # None
  <2>1. vr.variation \in Int
    BY <1>1 DEF Indices
  <2> QED
    BY <1>1, <2>1, VariationResultType DEF resolveVariationOrRollout
<1>2. CASE vr.variation = None /\ (vr.rollout = None \/ vr.rollout.variations = <<>>)
  BY <1>2, MalformedType DEF resolveVariationOrRollout
<1>3. CASE vr.variation = None /\ vr.rollout # None /\ vr.rollout.variations # <<>>
  <2>1. PICK ro : ro = vr.rollout
    OBVIOUS
  <2>2. ro \in Rollouts
    BY <1>3, <2>1
  <2>3. PICK b : b = ComputeBucket(w, ro.bucketBy, f, w.flags[f].salt, ro.seed)
    OBVIOUS
  <2>4. RolloutChoice(ro.variations, b) \in Int
    BY <1>3, <2>1, <2>2, ChoiceType DEF Rollouts
  <2>5. [reason EXCEPT !.exp = ro.exp] \in Reasons
    BY <2>2 DEF Rollouts, Reasons
  <2>6. resolveVariationOrRollout(w, f, vr, reason)
          = variationResult(w.flags[f], RolloutChoice(ro.variations, b), [reason EXCEPT !.exp = ro.exp])
    BY <1>3, <2>1, <2>3 DEF resolveVariationOrRollout
  <2> QED
    BY <2>4, <2>5, <2>6, VariationResultType
<1> QED
  BY <1>1, <1>2, <1>3

\* The three parts of Outcome.
LEMMA OutcomeParts ==
  ASSUME NEW w, NEW f, w.flags[f] \in Flags
  PROVE  LET flag   == w.flags[f]
             target == FirstTarget(w, flag)
             rule   == First({i \in DOMAIN flag.rules : ruleMatches(w, flag.rules[i])})
         IN  /\ \/ /\ target # None /\ target \in 1 .. Len(flag.targets)
                   /\ flag.targets[target].variation \in Int
                   /\ Outcome(w, f) = variationResult(flag, flag.targets[target].variation,
                                                      Reason("TARGET_MATCH"))
                \/ /\ target = None /\ rule # None /\ rule \in 1 .. Len(flag.rules)
                   /\ flag.rules[rule].variation \in Indices
                   /\ flag.rules[rule].rollout \in Rollouts \cup {None}
                   /\ Outcome(w, f) = resolveVariationOrRollout(w, f, flag.rules[rule],
                                        [Reason("RULE_MATCH") EXCEPT !.rule = rule])
                \/ /\ target = None /\ rule = None
                   /\ flag.fallthrough.variation \in Indices
                   /\ flag.fallthrough.rollout \in Rollouts \cup {None}
                   /\ Outcome(w, f) = resolveVariationOrRollout(w, f, flag.fallthrough,
                                                                Reason("FALLTHROUGH"))
<1> DEFINE flag   == w.flags[f]
           target == FirstTarget(w, flag)
           rule   == First({i \in DOMAIN flag.rules : ruleMatches(w, flag.rules[i])})
<1>1. target = None \/ (target \in 1 .. Len(flag.targets) /\ flag.targets[target].variation \in Int)
  <2>1. PICK T : T = {i \in DOMAIN flag.targets : w.ctx.key \in flag.targets[i].keys}
    OBVIOUS
  <2>2. T \in SUBSET DOMAIN flag.targets
    BY <2>1
  <2>3. flag.targets \in Seq([variation : Int, keys : SUBSET STRING])
    BY DEF Flags
  <2>4. target = First(T)
    BY <2>1 DEF FirstTarget
  <2>5. \/ First(T) = None
        \/ /\ First(T) \in 1 .. Len(flag.targets)
           /\ flag.targets[First(T)] \in [variation : Int, keys : SUBSET STRING]
    BY <2>2, <2>3, FirstOf
  <2> HIDE DEF flag, target
  <2> QED
    BY <2>4, <2>5
<1>2. \/ rule = None
      \/ /\ rule \in 1 .. Len(flag.rules) /\ flag.rules[rule].variation \in Indices
         /\ flag.rules[rule].rollout \in Rollouts \cup {None}
  <2>1. PICK T : T = {i \in DOMAIN flag.rules : ruleMatches(w, flag.rules[i])}
    OBVIOUS
  <2>2. T \in SUBSET DOMAIN flag.rules
    BY <2>1
  <2>3. PICK R : R = [id : STRING, clauses : Seq(Clauses), variation : Indices,
                      rollout : Rollouts \cup {None}]
    OBVIOUS
  <2>4. flag.rules \in Seq(R)
    BY <2>3 DEF Flags
  <2>5. First(T) = None \/ (First(T) \in 1 .. Len(flag.rules) /\ flag.rules[First(T)] \in R)
    BY <2>2, <2>4, FirstOf
  <2>6. rule = First(T)
    BY <2>1
  <2> HIDE DEF flag, rule
  <2> QED
    BY <2>3, <2>5, <2>6
<1>3. /\ flag.fallthrough.variation \in Indices
      /\ flag.fallthrough.rollout \in Rollouts \cup {None}
  BY DEF Flags
<1>4. Outcome(w, f) =
        CASE target # None ->
               variationResult(flag, flag.targets[target].variation, Reason("TARGET_MATCH"))
          [] target = None /\ rule # None ->
               resolveVariationOrRollout(w, f, flag.rules[rule],
                                         [Reason("RULE_MATCH") EXCEPT !.rule = rule])
          [] OTHER ->
               resolveVariationOrRollout(w, f, flag.fallthrough, Reason("FALLTHROUGH"))
  BY DEF Outcome
<1> HIDE DEF flag, target, rule
<1>5. \/ /\ target # None /\ target \in 1 .. Len(flag.targets)
         /\ flag.targets[target].variation \in Int
         /\ Outcome(w, f) = variationResult(flag, flag.targets[target].variation,
                                            Reason("TARGET_MATCH"))
      \/ /\ target = None /\ rule # None /\ rule \in 1 .. Len(flag.rules)
         /\ flag.rules[rule].variation \in Indices
         /\ flag.rules[rule].rollout \in Rollouts \cup {None}
         /\ Outcome(w, f) = resolveVariationOrRollout(w, f, flag.rules[rule],
                              [Reason("RULE_MATCH") EXCEPT !.rule = rule])
      \/ /\ target = None /\ rule = None
         /\ flag.fallthrough.variation \in Indices
         /\ flag.fallthrough.rollout \in Rollouts \cup {None}
         /\ Outcome(w, f) = resolveVariationOrRollout(w, f, flag.fallthrough,
                                                      Reason("FALLTHROUGH"))
  BY <1>1, <1>2, <1>3, <1>4, Zenon
<1> QED
  BY <1>5 DEF flag, target, rule

LEMMA OutcomeType ==
  ASSUME NEW w, NEW f, w.flags[f] \in Flags
  PROVE  Outcome(w, f) \in Answers(w.flags[f])
<1> DEFINE flag   == w.flags[f]
           target == FirstTarget(w, flag)
           rule   == First({i \in DOMAIN flag.rules : ruleMatches(w, flag.rules[i])})
<1>1. /\ Reason("TARGET_MATCH") \in Reasons /\ Reason("FALLTHROUGH") \in Reasons
      /\ \A i \in Nat : [Reason("RULE_MATCH") EXCEPT !.rule = i] \in Reasons
  BY ReasonType DEF Kinds
<1>2. 1 .. Len(flag.rules) \subseteq Nat
  OBVIOUS
<1> HIDE DEF flag, target, rule
<1> QED
  BY <1>1, <1>2, OutcomeParts, VariationResultType, ResolveType, ZenonT(40) DEF flag, target, rule

-----------------------------------------------------------------------------
(***************************************************************************)
(* One call, and the calls that it makes.                                   *)
(***************************************************************************)
\* The prerequisites that fail a call, and what the call answers if they do not
\* begin with one.
Failing(w, deeper, f, visited) ==
  {i \in DOMAIN w.flags[f].prereqs :
     LET p == w.flags[f].prereqs[i]
     IN  \/ ~IsOn(w, p.flag)
         \/ deeper[p.flag][visited \cup {f}].idx # p.variation}

AfterPrereqs(w, f, failed, outcome) ==
  IF failed = None THEN outcome ELSE PrerequisiteFailed(w, f, w.flags[f].prereqs[failed])

LEMMA CallIs ==
  ASSUME NEW w, NEW depth, NEW deeper, NEW f \in DOMAIN w.flags,
         NEW visited \in SUBSET DOMAIN w.flags
  PROVE  evaluateAt(w, depth, deeper)[f][visited] =
           CASE ~w.flags[f].on -> offResult(w.flags[f], Reason("OFF"))
             [] w.flags[f].on /\ (depth > MaxPrerequisiteDepth \/ f \in visited) ->
                  offResult(w.flags[f], Error("PREREQUISITE_CYCLE"))
             [] OTHER -> AfterPrereqs(w, f, First(Failing(w, deeper, f, visited)), Outcome(w, f))
BY DEF evaluateAt, Failing, AfterPrereqs

LEMMA PrerequisiteFailedType ==
  ASSUME NEW w, NEW f, w.flags[f] \in Flags, NEW T \in SUBSET DOMAIN w.flags[f].prereqs,
         NEW outcome \in Answers(w.flags[f])
  PROVE  AfterPrereqs(w, f, First(T), outcome) \in Answers(w.flags[f])
<1>1. w.flags[f].prereqs \in Seq([flag : STRING, variation : Int])
  BY DEF Flags
<1>2. First(T) = None \/ w.flags[f].prereqs[First(T)] \in [flag : STRING, variation : Int]
  BY <1>1, FirstOf
<1>3. ASSUME NEW p \in [flag : STRING, variation : Int]
      PROVE  PrerequisiteFailed(w, f, p) \in Answers(w.flags[f])
  <2>1. p.flag \in STRING
    OBVIOUS
  <2>2. [Reason("PREREQUISITE_FAILED") EXCEPT !.prereq = p.flag] \in Reasons
    BY <2>1, ReasonType DEF Kinds
  <2> QED
    BY <2>2, OffResultType DEF PrerequisiteFailed
<1> QED
  BY <1>2, <1>3 DEF AfterPrereqs

\* The calls of a depth, for all flags and visited sets.
Calls(w) == [DOMAIN w.flags -> [SUBSET DOMAIN w.flags -> Results]]

LEMMA CallType ==
  ASSUME NEW w, IsWorld(w), NEW depth, NEW deeper
  PROVE  /\ evaluateAt(w, depth, deeper) \in Calls(w)
         /\ \A f \in DOMAIN w.flags, visited \in SUBSET DOMAIN w.flags :
              evaluateAt(w, depth, deeper)[f][visited] \in Answers(w.flags[f])
<1>1. ASSUME NEW f \in DOMAIN w.flags, NEW visited \in SUBSET DOMAIN w.flags
      PROVE  evaluateAt(w, depth, deeper)[f][visited] \in Answers(w.flags[f])
  <2>1. w.flags[f] \in Flags
    BY DEF IsWorld
  <2>2. Reason("OFF") \in Reasons /\ Error("PREREQUISITE_CYCLE") \in Reasons
    BY ReasonType, ErrorType DEF Kinds
  <2>3. offResult(w.flags[f], Reason("OFF")) \in Answers(w.flags[f])
    BY <2>1, <2>2, OffResultType
  <2>4. offResult(w.flags[f], Error("PREREQUISITE_CYCLE")) \in Answers(w.flags[f])
    BY <2>1, <2>2, OffResultType
  <2>5. PICK T : T = Failing(w, deeper, f, visited)
    OBVIOUS
  <2>6. AfterPrereqs(w, f, First(T), Outcome(w, f)) \in Answers(w.flags[f])
    <3>1. T \in SUBSET DOMAIN w.flags[f].prereqs
      BY <2>5 DEF Failing
    <3> QED
      BY <2>1, <3>1, OutcomeType, PrerequisiteFailedType
  <2> QED
    BY <2>3, <2>4, <2>5, <2>6, CallIs
<1>2. \A f \in DOMAIN w.flags : Answers(w.flags[f]) \subseteq Results
  BY SMTT(30) DEF Answers
<1>3. evaluateAt(w, depth, deeper) =
        [f \in DOMAIN w.flags |-> [visited \in SUBSET DOMAIN w.flags |->
           evaluateAt(w, depth, deeper)[f][visited]]]
  BY ZenonT(40) DEF evaluateAt
<1> QED
  BY <1>1, <1>2, <1>3 DEF Calls

\* A recursion that goes down to a limit is defined.
Descents(m, A, b, d) ==
  {f \in [0 .. m + 1 -> A] : f[m + 1] = b /\ \A i \in 0 .. m : f[i] = d[<<f[i + 1], i>>]}

LEMMA DefinedDownFrom ==
  ASSUME NEW m \in Nat, NEW A, NEW b \in A, NEW d \in [A \X (0 .. m) -> A]
  PROVE  \E f : f \in Descents(m, A, b, d)
<1>1. PICK e : e = [x \in A \X (1 .. m + 1) |-> d[<<x[1], (m + 1) - x[2]>>]]
  OBVIOUS
<1>2. \A i \in 1 .. m + 1 : (m + 1) - i \in 0 .. m
  OBVIOUS
<1>3. e \in Bodies(m + 1, A)
  BY <1>1, <1>2 DEF Bodies
<1>4. m + 1 \in Nat
  OBVIOUS
<1>5. PICK g : g \in Runs(m + 1, A, b, e)
  BY <1>3, <1>4, DefinedUpTo
<1>6. PICK f : f = [i \in 0 .. m + 1 |-> g[(m + 1) - i]]
  OBVIOUS
<1>7. g \in [0 .. m + 1 -> A] /\ g[0] = b /\ \A i \in 1 .. m + 1 : g[i] = e[<<g[i - 1], i>>]
  BY <1>5 DEF Runs
<1>8. f \in [0 .. m + 1 -> A]
  <2>1. \A i \in 0 .. m + 1 : (m + 1) - i \in 0 .. m + 1
    OBVIOUS
  <2> QED
    BY <1>6, <1>7, <2>1
<1>9. f[m + 1] = b
  BY <1>6, <1>7
<1>10. ASSUME NEW i \in 0 .. m PROVE f[i] = d[<<f[i + 1], i>>]
  <2>1. PICK k : k = (m + 1) - i
    OBVIOUS
  <2>2. /\ k \in 1 .. m + 1 /\ i \in 0 .. m + 1 /\ i + 1 \in 0 .. m + 1
        /\ (m + 1) - (i + 1) = k - 1 /\ (m + 1) - k = i /\ k - 1 \in 0 .. m + 1
    BY <2>1
  <2>3. f[i] = g[k] /\ f[i + 1] = g[k - 1]
    BY <1>6, <2>1, <2>2
  <2>4. g[k] = e[<<g[k - 1], k>>]
    BY <1>7, <2>2
  <2>5. PICK x : x = <<g[k - 1], k>>
    OBVIOUS
  <2>6. x \in A \X (1 .. m + 1) /\ x[1] = g[k - 1] /\ x[2] = k
    BY <1>7, <2>2, <2>5
  <2>7. e[x] = d[<<x[1], (m + 1) - x[2]>>]
    BY <1>1, <2>6
  <2> QED
    BY <2>2, <2>3, <2>4, <2>5, <2>6, <2>7
<1> QED
  BY <1>8, <1>9, <1>10 DEF Descents

LEMMA Depths ==
  /\ MaxPrerequisiteDepth \in Nat /\ 0 \in 0 .. MaxPrerequisiteDepth + 1
  /\ \A depth \in 0 .. MaxPrerequisiteDepth :
       depth \in 0 .. MaxPrerequisiteDepth + 1 /\ depth + 1 \in 0 .. MaxPrerequisiteDepth + 1
<1>1. MaxPrerequisiteDepth \in Nat
  BY EvaluationAssumption, Zenon
<1> QED
  BY <1>1

\* evaluateWithDepth is what its definition says.
LEMMA EvaluateIs ==
  ASSUME NEW w, IsWorld(w)
  PROVE  \A depth \in 0 .. MaxPrerequisiteDepth + 1 :
           evaluateWithDepth(w)[depth] =
             evaluateAt(w, depth, IF depth > MaxPrerequisiteDepth THEN <<>>
                                  ELSE evaluateWithDepth(w)[depth + 1])
<1> DEFINE m == MaxPrerequisiteDepth
           step(g, i) == evaluateAt(w, i, IF i > MaxPrerequisiteDepth THEN <<>> ELSE g[i + 1])
           calls == CHOOSE g : g = [i \in 0 .. m + 1 |-> step(g, i)]
<1>0. m \in Nat
  BY Depths
<1>1. PICK d : d = [x \in Calls(w) \X (0 .. m) |-> evaluateAt(w, x[2], x[1])]
  OBVIOUS
<1>2. d \in [Calls(w) \X (0 .. m) -> Calls(w)]
  BY <1>1, CallType
<1>3. evaluateAt(w, m + 1, <<>>) \in Calls(w)
  BY CallType
<1>4. PICK f \in [0 .. m + 1 -> Calls(w)] :
        f[m + 1] = evaluateAt(w, m + 1, <<>>) /\ \A i \in 0 .. m : f[i] = d[<<f[i + 1], i>>]
  <2>1. PICK f : f \in Descents(m, Calls(w), evaluateAt(w, m + 1, <<>>), d)
    BY <1>0, <1>2, <1>3, DefinedDownFrom
  <2> QED
    BY <2>1 DEF Descents
<1>5. ASSUME NEW i \in 0 .. m + 1 PROVE f[i] = step(f, i)
  <2>1. CASE i = m + 1
    BY <1>0, <1>4, <2>1
  <2>2. CASE i \in 0 .. m
    <3>1. i + 1 \in 0 .. m + 1 /\ ~(i > m)
      BY <1>0, <2>2
    <3>2. PICK x : x = <<f[i + 1], i>>
      OBVIOUS
    <3>3. x \in Calls(w) \X (0 .. m) /\ x[1] = f[i + 1] /\ x[2] = i
      BY <1>4, <2>2, <3>1, <3>2
    <3>4. d[x] = evaluateAt(w, x[2], x[1])
      BY <1>1, <3>3
    <3> QED
      BY <1>4, <2>2, <3>1, <3>2, <3>3, <3>4
  <2> QED
    BY <1>0, <2>1, <2>2
<1>6. f = [i \in 0 .. m + 1 |-> step(f, i)]
  <2> HIDE DEF step, m
  <2> QED
    BY <1>4, <1>5
<1>7. calls = [i \in 0 .. m + 1 |-> step(calls, i)]
  <2> HIDE DEF step, m
  <2> QED
    BY <1>6, Zenon
<1>8. evaluateWithDepth(w) = calls
  BY DEF evaluateWithDepth
<1> HIDE DEF calls
<1>9. \A i \in 0 .. m + 1 : calls[i] = step(calls, i)
  <2> HIDE DEF step, m
  <2> QED
    BY <1>7
<1> QED
  BY <1>8, <1>9

LEMMA EvaluateType ==
  ASSUME NEW w, IsWorld(w), NEW f \in DOMAIN w.flags
  PROVE  Evaluate(w, f) \in Answers(w.flags[f])
<1>1. PICK x : evaluateWithDepth(w)[0] = evaluateAt(w, 0, x)
  BY Depths, EvaluateIs
<1>2. {} \in SUBSET DOMAIN w.flags
  OBVIOUS
<1> QED
  BY <1>1, <1>2, CallType DEF Evaluate

-----------------------------------------------------------------------------
(***************************************************************************)
(* The invariant: an answer is that of the three evaluators, on the world   *)
(* and on what the SDKs have.                                               *)
(***************************************************************************)
Answered(f) ==
  [flag |-> f, server |-> sdkEvaluate(f), go |-> GoEvaluate(f), ts |-> evaluateDetail(f),
   trace |-> IF f \in DOMAIN world.flags THEN Explain(world, f) ELSE None]

EvaluationInv ==
  /\ IsWorld(world) /\ snap \in {None, world}
  /\ answer = None \/ \E f \in Asked : answer = Answered(f)

LEMMA InvHolds == Spec => []EvaluationInv
<1>1. Init => EvaluationInv
  BY DEF Init, InitWith, EvaluationInv
<1>2. EvaluationInv /\ [Next]_vars => EvaluationInv'
  <2> SUFFICES ASSUME EvaluationInv, [Next]_vars PROVE EvaluationInv'
    OBVIOUS
  <2>1. CASE Receive
    BY <2>1 DEF Receive, EvaluationInv
  <2>2. ASSUME NEW f \in Asked, Ask(f) PROVE EvaluationInv'
    <3>1. world' = world /\ snap' = snap
      BY <2>2 DEF Ask
    <3>2. Answered(f)' = Answered(f)
      BY <3>1 DEF Answered, sdkEvaluate, GoEvaluate, evaluateDetail
    <3>3. answer' = Answered(f)
      BY <2>2 DEF Ask, Answered
    <3> QED
      BY <3>1, <3>2, <3>3 DEF EvaluationInv
  <2>3. CASE UNCHANGED vars
    <3>1. world' = world /\ snap' = snap /\ answer' = answer
      BY <2>3 DEF vars
    <3>2. \A f \in Asked : Answered(f)' = Answered(f)
      BY <3>1 DEF Answered, sdkEvaluate, GoEvaluate, evaluateDetail
    <3> QED
      BY <3>1, <3>2 DEF EvaluationInv
  <2> QED
    BY <2>1, <2>2, <2>3 DEF Next
<1> QED
  BY <1>1, <1>2, PTL DEF Spec

LEMMA EvaluatedIs ==
  ASSUME EvaluationInv, Evaluated
  PROVE  /\ answer.flag \in Asked /\ answer.flag \in DOMAIN world.flags
         /\ world.flags[answer.flag] \in Flags
         /\ answer.server = Evaluate(world, answer.flag)
         /\ answer.trace = Explain(world, answer.flag)
         /\ answer.server \in Answers(world.flags[answer.flag])
<1>1. PICK f \in Asked : answer = Answered(f)
  BY DEF EvaluationInv, Evaluated
<1>2. /\ answer.flag = f /\ answer.server = sdkEvaluate(f)
      /\ answer.trace = IF f \in DOMAIN world.flags THEN Explain(world, f) ELSE None
  BY <1>1 DEF Answered
<1>3. f \in DOMAIN world.flags
  BY <1>2 DEF Evaluated, sdkEvaluate
<1>4. IsWorld(world)
  BY DEF EvaluationInv
<1> QED
  BY <1>2, <1>3, <1>4, EvaluateType DEF sdkEvaluate, IsWorld

\* An answer is that of an asked flag, and its index is one of a variation of
\* the flag, whatever the snapshot has (internal/eval/evaluate.go:101-110).
THEOREM TypeCorrect == Spec => []TypeOK
<1>1. EvaluationInv => TypeOK
  <2> SUFFICES ASSUME EvaluationInv PROVE TypeOK
    OBVIOUS
  <2>1. answer # None => answer.flag \in Asked
    BY DEF EvaluationInv, Answered
  <2>2. ASSUME Evaluated PROVE answer.server.idx \in Served(answer.flag)
    BY <2>2, EvaluatedIs DEF Answers, Served
  <2> QED
    BY <2>1, <2>2 DEF TypeOK, EvaluationInv
<1> QED
  BY <1>1, InvHolds, PTL

-----------------------------------------------------------------------------
(***************************************************************************)
(* The weights of a rollout.                                                *)
(***************************************************************************)
Weights == [variation : Int, weight : Nat]
AnyWeights == [variation : Int, weight : Int]

\* A sum over a list is defined.
Sums(n, h) == {s \in [0 .. n -> Nat] : s[0] = 0 /\ \A k \in 1 .. n : s[k] = s[k - 1] + h[k]}

LEMMA SumDefined ==
  ASSUME NEW n \in Nat, NEW h \in [1 .. n -> Nat]
  PROVE  \E s : s \in Sums(n, h)
<1>1. PICK d : d = [x \in Nat \X (1 .. n) |-> x[1] + h[x[2]]]
  OBVIOUS
<1>2. d \in Bodies(n, Nat)
  BY <1>1 DEF Bodies
<1>3. 0 \in Nat
  OBVIOUS
<1>4. PICK s : s \in Runs(n, Nat, 0, d)
  BY <1>2, <1>3, DefinedUpTo
<1>5. s \in [0 .. n -> Nat] /\ s[0] = 0 /\ \A k \in 1 .. n : s[k] = d[<<s[k - 1], k>>]
  BY <1>4 DEF Runs
<1>6. ASSUME NEW k \in 1 .. n PROVE s[k] = s[k - 1] + h[k]
  <2>1. k - 1 \in 0 .. n
    OBVIOUS
  <2>2. PICK x : x = <<s[k - 1], k>>
    OBVIOUS
  <2>3. x \in Nat \X (1 .. n) /\ x[1] = s[k - 1] /\ x[2] = k
    BY <1>5, <2>1, <2>2
  <2>4. d[x] = x[1] + h[x[2]]
    BY <1>1, <2>3
  <2> QED
    BY <1>5, <2>2, <2>3, <2>4
<1> QED
  BY <1>5, <1>6 DEF Sums

LEMMA WeightUpToIs ==
  ASSUME NEW v \in Seq(Weights)
  PROVE  /\ WeightUpTo(v, 0) = 0
         /\ \A k \in 0 .. Len(v) : WeightUpTo(v, k) \in Nat
         /\ \A k \in 1 .. Len(v) : WeightUpTo(v, k) = WeightUpTo(v, k - 1) + v[k].weight
<1> DEFINE n == Len(v)
           step(g, k) == IF k = 0 THEN 0 ELSE g[k - 1] + v[k].weight
           sum == CHOOSE g : g = [k \in 0 .. n |-> step(g, k)]
<1>0. n \in Nat
  OBVIOUS
<1>1. PICK h : h = [k \in 1 .. n |-> v[k].weight]
  OBVIOUS
<1>2. h \in [1 .. n -> Nat]
  <2>1. \A k \in 1 .. n : v[k] \in Weights
    OBVIOUS
  <2> QED
    BY <1>1, <2>1 DEF Weights
<1>3. PICK s : s \in Sums(n, h)
  BY <1>0, <1>2, SumDefined
<1>4. s \in [0 .. n -> Nat] /\ s[0] = 0 /\ \A k \in 1 .. n : s[k] = s[k - 1] + h[k]
  BY <1>3 DEF Sums
<1>5. s = [k \in 0 .. n |-> step(s, k)]
  <2>1. ASSUME NEW k \in 0 .. n PROVE s[k] = step(s, k)
    <3>1. k = 0 \/ k \in 1 .. n
      BY <1>0
    <3> QED
      BY <1>1, <1>4, <3>1
  <2> HIDE DEF step, n
  <2> QED
    BY <1>4, <2>1
<1>6. sum = [k \in 0 .. n |-> step(sum, k)]
  <2> HIDE DEF step, n
  <2> QED
    BY <1>5, Zenon
<1>7. \A k \in 0 .. n : WeightUpTo(v, k) = sum[k]
  BY DEF WeightUpTo
<1> HIDE DEF sum
<1>8. sum = s
  <2> HIDE DEF n
  <2>1. sum = [k \in 0 .. n |-> sum[k]] /\ s = [k \in 0 .. n |-> s[k]] /\ sum[0] = s[0]
    BY <1>0, <1>4, <1>6
  <2>2. ASSUME NEW k \in 1 .. n, sum[k - 1] = s[k - 1] PROVE sum[k] = s[k]
    <3>1. k \in 0 .. n /\ k # 0
      BY <1>0
    <3>2. sum[k] = step(sum, k) /\ s[k] = step(s, k)
      BY <1>5, <1>6, <3>1
    <3> QED
      BY <2>2, <3>1, <3>2
  <2>3. Alike(n, sum, s)
    BY <2>1, <2>2 DEF Alike
  <2> QED
    BY <1>0, <2>3, SameUpTo
<1>9. ASSUME NEW k \in 1 .. n PROVE k \in 0 .. n /\ k - 1 \in 0 .. n /\ h[k] = v[k].weight
  BY <1>0, <1>1
<1>10. 0 \in 0 .. n
  BY <1>0
<1> QED
  BY <1>4, <1>7, <1>8, <1>9, <1>10

-----------------------------------------------------------------------------
(***************************************************************************)
(* Flags that Validate accepts.                                             *)
(***************************************************************************)
LEMMA InRangeServes ==
  ASSUME NEW flag, NEW idx, NEW reason, InRange(flag, idx)
  PROVE  variationResult(flag, idx, reason) = [idx |-> idx, reason |-> reason]
BY DEF InRange, variationResult

LEMMA OffServes ==
  ASSUME NEW flag, NEW reason, flag.off # None => InRange(flag, flag.off)
  PROVE  offResult(flag, reason).reason = reason
BY InRangeServes DEF offResult

\* A rollout that is accepted is not empty, and what it chooses is in range.
LEMMA RolloutServes ==
  ASSUME NEW flag \in Flags, NEW ro \in Rollouts, validateRollout(flag, ro), NEW bucket
  PROVE  ro.variations # <<>> /\ InRange(flag, RolloutChoice(ro.variations, bucket))
<1>1. PICK v : v = ro.variations
  OBVIOUS
<1>2. v \in Seq(AnyWeights)
  BY <1>1 DEF Rollouts, AnyWeights
<1>3. FullWeight # 0
  <2>1. FullWeight \in Nat \ {0}
    BY EvaluationAssumption, Zenon
  <2> QED
    BY <2>1
<1>4. v # <<>>
  <2> SUFFICES ASSUME v = <<>> PROVE FALSE
    OBVIOUS
  <2>1. Len(v) = 0 /\ v \in Seq(Weights)
    OBVIOUS
  <2>2. WeightUpTo(v, 0) = 0 /\ WeightUpTo(v, Len(v)) = FullWeight
    BY <1>1, <2>1, WeightUpToIs DEF validateRollout
  <2> QED
    BY <1>3, <2>1, <2>2
<1>5. PICK S : S = 0 .. flag.variations - 1
  OBVIOUS
<1>6. v \in Seq([variation : S, weight : Int])
  <2>1. \A i \in 1 .. Len(v) : v[i] \in AnyWeights /\ v[i].variation \in S
    BY <1>1, <1>2, <1>5 DEF validateRollout, InRange
  <2>2. \A i \in 1 .. Len(v) : v[i] \in [variation : S, weight : Int]
    BY <2>1 DEF AnyWeights
  <2>3. PICK R : R = [variation : S, weight : Int]
    OBVIOUS
  <2>4. v = [i \in 1 .. Len(v) |-> v[i]] /\ Len(v) \in Nat
    BY <1>2
  <2>5. v \in [1 .. Len(v) -> R]
    BY <2>2, <2>3, <2>4
  <2>6. v \in Seq(R)
    BY <2>4, <2>5
  <2> QED
    BY <2>3, <2>6
<1>7. RolloutChoice(v, bucket) \in S
  BY <1>4, <1>6, ChoiceType
<1> QED
  BY <1>1, <1>4, <1>5, <1>7 DEF InRange

LEMMA ResolveServes ==
  ASSUME NEW w, NEW f, w.flags[f] \in Flags, NEW vr, NEW reason \in Reasons,
         vr.variation \in Indices, vr.rollout \in Rollouts \cup {None},
         Decides(w.flags[f], vr), vr.rollout # None => validateRollout(w.flags[f], vr.rollout)
  PROVE  resolveVariationOrRollout(w, f, vr, reason).reason.kind = reason.kind
<1>1. CASE vr.variation # None
  BY <1>1, InRangeServes DEF Decides, resolveVariationOrRollout
<1>2. CASE vr.variation = None
  <2>1. PICK ro : ro = vr.rollout
    OBVIOUS
  <2>2. ro \in Rollouts /\ ro # None
    BY <1>2, <2>1 DEF Decides
  <2>3. PICK b : b = ComputeBucket(w, ro.bucketBy, f, w.flags[f].salt, ro.seed)
    OBVIOUS
  <2>4. ro.variations # <<>> /\ InRange(w.flags[f], RolloutChoice(ro.variations, b))
    BY <2>1, <2>2, RolloutServes
  <2>5. resolveVariationOrRollout(w, f, vr, reason)
          = variationResult(w.flags[f], RolloutChoice(ro.variations, b), [reason EXCEPT !.exp = ro.exp])
    BY <1>2, <2>1, <2>2, <2>3, <2>4 DEF resolveVariationOrRollout
  <2>6. resolveVariationOrRollout(w, f, vr, reason).reason = [reason EXCEPT !.exp = ro.exp]
    BY <2>4, <2>5, InRangeServes
  <2> QED
    BY <2>6 DEF Reasons
<1> QED
  BY <1>1, <1>2

\* What createFlag and updateFlag accept is malformed in no evaluation, if what
\* Validate does not look at is in order too (internal/model/flag.go:85-143).
THEOREM ValidFlagsNeverFail == Spec => []ValidFlagsServe
<1>1. EvaluationInv => ValidFlagsServe
  <2> DEFINE f    == answer.flag
             flag == world.flags[f]
             rule == First({i \in DOMAIN flag.rules : ruleMatches(world, flag.rules[i])})
             target == FirstTarget(world, flag)
  <2> SUFFICES ASSUME EvaluationInv, Evaluated, Validate(flag),
                      \A i \in DOMAIN flag.targets : InRange(flag, flag.targets[i].variation),
                      \A i \in DOMAIN flag.rules : Decides(flag, flag.rules[i]),
                      Decides(flag, flag.fallthrough)
               PROVE  answer.server.reason.kind # "ERROR"
    BY DEF ValidFlagsServe
  <2>1. f \in DOMAIN world.flags /\ flag \in Flags /\ answer.server = Evaluate(world, f)
    BY EvaluatedIs
  <2>2. PICK x : evaluateWithDepth(world)[0] = evaluateAt(world, 0, x)
    BY Depths, EvaluateIs DEF EvaluationInv
  <2>3. ~(0 > MaxPrerequisiteDepth)
    BY Depths
  <2>4. answer.server =
          IF ~flag.on THEN offResult(flag, Reason("OFF"))
          ELSE AfterPrereqs(world, f, First(Failing(world, x, f, {})), Outcome(world, f))
    <3>1. {} \in SUBSET DOMAIN world.flags /\ f \notin {}
      OBVIOUS
    <3>2. answer.server = evaluateAt(world, 0, x)[f][{}]
      BY <2>1, <2>2 DEF Evaluate
    <3> HIDE DEF f, flag
    <3> QED
      BY <2>1, <2>3, <3>1, <3>2, CallIs DEF flag
  <2>5. flag.off # None => InRange(flag, flag.off)
    BY DEF Validate, validateFlagConfig
  <2>6. CASE ~flag.on
    BY <2>4, <2>5, <2>6, OffServes, ReasonType DEF Kinds
  <2>7. ASSUME NEW p \in [flag : STRING, variation : Int]
        PROVE  PrerequisiteFailed(world, f, p).reason.kind = "PREREQUISITE_FAILED"
    <3>1. p.flag \in STRING
      OBVIOUS
    <3>2. [Reason("PREREQUISITE_FAILED") EXCEPT !.prereq = p.flag].kind = "PREREQUISITE_FAILED"
      BY <3>1, ReasonType, SMTT(30) DEF Kinds
    <3> QED
      BY <2>5, <3>2, OffServes DEF PrerequisiteFailed
  <2>8. Outcome(world, f).reason.kind # "ERROR"
    <3>1. CASE /\ target # None /\ target \in 1 .. Len(flag.targets)
               /\ Outcome(world, f) = variationResult(flag, flag.targets[target].variation,
                                                      Reason("TARGET_MATCH"))
      <4>1. target \in DOMAIN flag.targets
        BY <2>1, <3>1 DEF Flags
      <4>2. Outcome(world, f).reason = Reason("TARGET_MATCH")
        BY <3>1, <4>1, InRangeServes
      <4> QED
        BY <4>2, ReasonType DEF Kinds
    <3>2. CASE /\ rule # None /\ rule \in 1 .. Len(flag.rules)
               /\ flag.rules[rule].variation \in Indices
               /\ flag.rules[rule].rollout \in Rollouts \cup {None}
               /\ Outcome(world, f) = resolveVariationOrRollout(world, f, flag.rules[rule],
                                        [Reason("RULE_MATCH") EXCEPT !.rule = rule])
      <4>1. PICK i : i = rule
        OBVIOUS
      <4>2. i \in DOMAIN flag.rules /\ i \in Nat
        <5>1. PICK n : n = Len(flag.rules)
          OBVIOUS
        <5>2. DOMAIN flag.rules = 1 .. n /\ n \in Nat
          BY <2>1, <5>1, SMTT(30) DEF Flags
        <5>3. i \in 1 .. n
          BY <3>2, <4>1, <5>1
        <5> QED
          BY <5>2, <5>3
      <4>3. /\ Decides(flag, flag.rules[i])
            /\ flag.rules[i].rollout # None => validateRollout(flag, flag.rules[i].rollout)
        BY <4>2 DEF Validate, validateFlagConfig
      <4>4. PICK r : r = [Reason("RULE_MATCH") EXCEPT !.rule = i]
        OBVIOUS
      <4>5. r \in Reasons /\ r.kind = "RULE_MATCH"
        BY <4>2, <4>4, ReasonType DEF Kinds
      <4>6. Outcome(world, f) = resolveVariationOrRollout(world, f, flag.rules[i], r)
        BY <3>2, <4>1, <4>4, ZenonT(40)
      <4>7. flag.rules[i].variation \in Indices /\ flag.rules[i].rollout \in Rollouts \cup {None}
        BY <3>2, <4>1
      <4>8. Outcome(world, f).reason.kind = r.kind
        BY <2>1, <4>3, <4>5, <4>6, <4>7, ResolveServes
      <4> QED
        BY <4>5, <4>8
    <3>3. CASE /\ flag.fallthrough.variation \in Indices
               /\ flag.fallthrough.rollout \in Rollouts \cup {None}
               /\ Outcome(world, f) = resolveVariationOrRollout(world, f, flag.fallthrough,
                                                                Reason("FALLTHROUGH"))
      <4>1. flag.fallthrough.rollout # None => validateRollout(flag, flag.fallthrough.rollout)
        BY DEF Validate, validateFlagConfig
      <4>2. Reason("FALLTHROUGH") \in Reasons /\ Reason("FALLTHROUGH").kind = "FALLTHROUGH"
        BY ReasonType, SMTT(30) DEF Kinds
      <4> QED
        BY <2>1, <3>3, <4>1, <4>2, ResolveServes, SMTT(30)
    <3> QED
      BY <2>1, <3>1, <3>2, <3>3, OutcomeParts, ZenonT(40)
  <2>9. CASE flag.on
    <3>1. PICK T : T = Failing(world, x, f, {})
      BY Zenon
    <3>2. T \in SUBSET DOMAIN flag.prereqs
      BY <3>1 DEF Failing
    <3>3. flag.prereqs \in Seq([flag : STRING, variation : Int])
      BY <2>1 DEF Flags
    <3>4. First(T) = None \/ flag.prereqs[First(T)] \in [flag : STRING, variation : Int]
      BY <3>2, <3>3, FirstOf
    <3> QED
      BY <2>4, <2>7, <2>8, <2>9, <3>1, <3>4 DEF AfterPrereqs
  <2> QED
    BY <2>6, <2>9
<1> QED
  BY <1>1, InvHolds, PTL

-----------------------------------------------------------------------------
(***************************************************************************)
(* Prerequisites.                                                           *)
(***************************************************************************)
LEMMA ChainsIs ==
  /\ Chains[0] = DOMAIN world.flags
  /\ \A n \in 1 .. MaxPrerequisiteDepth + 1 :
       Chains[n] = {f \in DOMAIN world.flags :
                      \E i \in DOMAIN Prereqs(f) : Prereqs(f)[i].flag \in Chains[n - 1]}
<1> DEFINE m == MaxPrerequisiteDepth + 1
           D == DOMAIN world.flags
           below(s) == {f \in D : \E i \in DOMAIN Prereqs(f) : Prereqs(f)[i].flag \in s}
           step(g, n) == IF n = 0 THEN D ELSE below(g[n - 1])
           from == CHOOSE g : g = [n \in 0 .. m |-> step(g, n)]
<1>0. m \in Nat
  BY Depths
<1>1. PICK d : d = [x \in (SUBSET D) \X (1 .. m) |-> below(x[1])]
  OBVIOUS
<1>2. d \in Bodies(m, SUBSET D)
  BY <1>1 DEF Bodies
<1>3. D \in SUBSET D
  OBVIOUS
<1> HIDE DEF m, D, below
<1>4. PICK f : f \in Runs(m, SUBSET D, D, d)
  BY <1>0, <1>2, <1>3, DefinedUpTo
<1>5. f \in [0 .. m -> SUBSET D] /\ f[0] = D /\ \A n \in 1 .. m : f[n] = d[<<f[n - 1], n>>]
  BY <1>4 DEF Runs
<1>6. ASSUME NEW n \in 0 .. m PROVE f[n] = step(f, n)
  <2>1. CASE n = 0
    BY <1>5, <2>1
  <2>2. CASE n \in 1 .. m
    <3>1. PICK x : x = <<f[n - 1], n>>
      OBVIOUS
    <3>2. n - 1 \in 0 .. m
      BY <1>0, <2>2
    <3>3. x \in (SUBSET D) \X (1 .. m) /\ x[1] = f[n - 1]
      BY <1>5, <2>2, <3>1, <3>2
    <3>4. d[x] = below(x[1])
      BY <1>1, <3>3
    <3> QED
      BY <1>5, <2>2, <3>1, <3>3, <3>4
  <2> QED
    BY <1>0, <2>1, <2>2
<1>7. f = [n \in 0 .. m |-> step(f, n)]
  <2> HIDE DEF step
  <2> QED
    BY <1>5, <1>6
<1>8. from = [n \in 0 .. m |-> step(from, n)]
  <2> HIDE DEF step
  <2> QED
    BY <1>7, Zenon
<1>9. Chains = from
  BY DEF Chains, m, D, below
<1> HIDE DEF from
<1>10. \A n \in 0 .. m : from[n] = step(from, n)
  <2> HIDE DEF step
  <2> QED
    BY <1>8
<1>11. 0 \in 0 .. m /\ \A n \in 1 .. m : n \in 0 .. m /\ n # 0
  BY <1>0
<1>12. Chains[0] = D /\ \A n \in 1 .. m : Chains[n] = below(Chains[n - 1])
  BY <1>9, <1>10, <1>11
<1> QED
  BY <1>12 DEF m, D, below

\* Where a chain starts, so does every shorter one.
LEMMA ChainsShrink ==
  \A n \in 0 .. MaxPrerequisiteDepth : Chains[n + 1] \subseteq Chains[n]
<1> DEFINE m == MaxPrerequisiteDepth
           T == {n \in 0 .. m : Chains[n + 1] \subseteq Chains[n]}
<1>0. m \in Nat
  BY Depths
<1>1. 0 \in T
  <2>1. 0 + 1 \in 1 .. m + 1 /\ (0 + 1) - 1 = 0
    BY <1>0
  <2>2. Chains[0 + 1] \subseteq DOMAIN world.flags
    BY <2>1, ChainsIs
  <2> QED
    BY <1>0, <2>2, ChainsIs
<1>2. ASSUME NEW n \in 0 .. m, n \in T, n < m PROVE n + 1 \in T
  <2>1. /\ n + 1 \in 1 .. m + 1 /\ (n + 1) + 1 \in 1 .. m + 1 /\ n + 1 \in 0 .. m
        /\ (n + 1) - 1 = n /\ ((n + 1) + 1) - 1 = n + 1
    BY <1>0, <1>2
  <2>2. Chains[n + 1] \subseteq Chains[n]
    BY <1>2
  <2>3. PICK a, b, c : a = Chains[n] /\ b = Chains[n + 1] /\ c = Chains[(n + 1) + 1]
    OBVIOUS
  <2>4. /\ b = {f \in DOMAIN world.flags : \E i \in DOMAIN Prereqs(f) : Prereqs(f)[i].flag \in a}
        /\ c = {f \in DOMAIN world.flags : \E i \in DOMAIN Prereqs(f) : Prereqs(f)[i].flag \in b}
    BY <2>1, <2>3, ChainsIs
  <2>5. c \subseteq b
    BY <2>2, <2>3, <2>4
  <2> QED
    BY <2>1, <2>3, <2>5
<1> HIDE DEF T
<1>3. \A n \in 0 .. m : n \in T
  BY <1>0, <1>1, <1>2, UpTo
<1> QED
  BY <1>3 DEF T

\* Flags above f: longer chains start there.
Above(f, visited) ==
  \A g \in visited, k \in 0 .. MaxPrerequisiteDepth : f \in Chains[k] => g \in Chains[k + 1]

\* What a flag comes to by what its prerequisites do by themselves.
Unmet(f) == {i \in DOMAIN Prereqs(f) : ~IsMet(world, Prereqs(f)[i])}
Settled(f) ==
  IF ~world.flags[f].on THEN offResult(world.flags[f], Reason("OFF"))
  ELSE AfterPrereqs(world, f, First(Unmet(f)), Outcome(world, f))

Calling(depth, f, visited) == evaluateWithDepth(world)[depth][f][visited]

\* At every depth that leaves room for the chains from f, and below flags that
\* are above it, a call for f comes to the same.
Steady(n) ==
  \A f \in DOMAIN world.flags, depth \in 0 .. MaxPrerequisiteDepth,
     visited \in SUBSET DOMAIN world.flags :
    f \notin Chains[n + 1] /\ depth + n <= MaxPrerequisiteDepth /\ Above(f, visited) =>
      Calling(depth, f, visited) = Settled(f)

LEMMA NotAboveItself ==
  ASSUME NEW n \in 0 .. MaxPrerequisiteDepth, NEW f \in DOMAIN world.flags \ Chains[n + 1],
         NEW visited, Above(f, visited)
  PROVE  f \notin visited
<1> SUFFICES ASSUME f \in visited PROVE FALSE
  OBVIOUS
<1> DEFINE T == {k \in 0 .. n + 1 : f \in Chains[k]}
<1>0. MaxPrerequisiteDepth \in Nat /\ n \in Nat /\ n + 1 \in Nat
  BY Depths
<1>1. 0 \in T
  BY <1>0, ChainsIs
<1>2. ASSUME NEW k \in 0 .. n + 1, k \in T, k < n + 1 PROVE k + 1 \in T
  <2>1. k \in 0 .. MaxPrerequisiteDepth /\ k + 1 \in 0 .. n + 1
    BY <1>0, <1>2
  <2> QED
    BY <1>2, <2>1 DEF Above
<1> HIDE DEF T
<1>3. \A k \in 0 .. n + 1 : k \in T
  BY <1>0, <1>1, <1>2, UpTo
<1>4. n + 1 \in 0 .. n + 1
  BY <1>0
<1>5. n + 1 \in T
  BY <1>3, <1>4
<1> QED
  BY <1>5 DEF T

LEMMA AbovePrerequisite ==
  ASSUME Hierarchical, NEW f \in DOMAIN world.flags, NEW visited, Above(f, visited),
         NEW i \in DOMAIN Prereqs(f)
  PROVE  Above(Prereqs(f)[i].flag, visited \cup {f})
<1>0. MaxPrerequisiteDepth \in Nat
  BY Depths
<1>1. PICK p : p = Prereqs(f)[i].flag
  OBVIOUS
<1> SUFFICES ASSUME NEW g \in visited \cup {f}, NEW k \in 0 .. MaxPrerequisiteDepth,
                    p \in Chains[k]
             PROVE  g \in Chains[k + 1]
  BY <1>1 DEF Above
<1>2. k + 1 \in 1 .. MaxPrerequisiteDepth + 1 /\ (k + 1) - 1 = k
  BY <1>0
<1>3. f \in Chains[k + 1]
  BY <1>1, <1>2, ChainsIs
<1>4. k + 1 # MaxPrerequisiteDepth + 1
  BY <1>3 DEF Hierarchical
<1>5. k + 1 \in 0 .. MaxPrerequisiteDepth
  BY <1>0, <1>2, <1>4
<1>6. CASE g \in visited
  <2>1. g \in Chains[(k + 1) + 1]
    BY <1>3, <1>5, <1>6 DEF Above
  <2>2. Chains[(k + 1) + 1] \subseteq Chains[k + 1]
    BY <1>5, ChainsShrink
  <2> QED
    BY <2>1, <2>2
<1> QED
  BY <1>3, <1>6

LEMMA CallingIs ==
  ASSUME IsWorld(world), NEW f \in DOMAIN world.flags,
         NEW depth \in 0 .. MaxPrerequisiteDepth, NEW visited \in SUBSET DOMAIN world.flags,
         f \notin visited
  PROVE  Calling(depth, f, visited) =
           IF ~world.flags[f].on THEN offResult(world.flags[f], Reason("OFF"))
           ELSE AfterPrereqs(world, f,
                  First(Failing(world, evaluateWithDepth(world)[depth + 1], f, visited)),
                  Outcome(world, f))
<1>1. ~(depth > MaxPrerequisiteDepth) /\ depth \in 0 .. MaxPrerequisiteDepth + 1
  BY Depths
<1>2. PICK x : x = evaluateWithDepth(world)[depth + 1]
  OBVIOUS
<1>3. evaluateWithDepth(world)[depth] = evaluateAt(world, depth, x)
  BY <1>1, <1>2, EvaluateIs
<1>4. Calling(depth, f, visited) = evaluateAt(world, depth, x)[f][visited]
  BY <1>3 DEF Calling
<1> QED
  BY <1>1, <1>2, <1>4, CallIs

LEMMA SteadyStep ==
  ASSUME IsWorld(world), Hierarchical, NEW n \in 0 .. MaxPrerequisiteDepth,
         n # 0 => Steady(n - 1)
  PROVE  Steady(n)
<1> SUFFICES ASSUME NEW f \in DOMAIN world.flags, NEW depth \in 0 .. MaxPrerequisiteDepth,
                    NEW visited \in SUBSET DOMAIN world.flags,
                    f \notin Chains[n + 1], depth + n <= MaxPrerequisiteDepth, Above(f, visited)
             PROVE  Calling(depth, f, visited) = Settled(f)
  BY DEF Steady
<1> DEFINE deeper == evaluateWithDepth(world)[depth + 1]
<1>0. MaxPrerequisiteDepth \in Nat
  BY Depths
<1>1. f \notin visited
  BY NotAboveItself
<1>2. ASSUME NEW i \in DOMAIN Prereqs(f)
      PROVE  (\/ ~IsOn(world, Prereqs(f)[i].flag)
              \/ deeper[Prereqs(f)[i].flag][visited \cup {f}].idx # Prereqs(f)[i].variation)
             <=> ~IsMet(world, Prereqs(f)[i])
  <2>1. PICK p : p = Prereqs(f)[i].flag
    OBVIOUS
  <2>2. n + 1 \in 1 .. MaxPrerequisiteDepth + 1 /\ (n + 1) - 1 = n
    BY <1>0
  <2>3. p \notin Chains[n]
    BY <2>1, <2>2, ChainsIs
  <2>4. CASE p \notin DOMAIN world.flags
    BY <2>1, <2>4 DEF IsMet, IsOn
  <2>5. CASE p \in DOMAIN world.flags
    <3>1. n # 0
      BY <2>3, <2>5, ChainsIs
    <3>2. /\ n - 1 \in 0 .. MaxPrerequisiteDepth /\ (n - 1) + 1 = n
          /\ depth + 1 \in 0 .. MaxPrerequisiteDepth
          /\ (depth + 1) + (n - 1) <= MaxPrerequisiteDepth
          /\ 0 \in 0 .. MaxPrerequisiteDepth /\ 0 + (n - 1) <= MaxPrerequisiteDepth
      BY <1>0, <3>1
    <3>3. Above(p, visited \cup {f}) /\ Above(p, {})
      BY <2>1, AbovePrerequisite DEF Above
    <3>4. visited \cup {f} \in SUBSET DOMAIN world.flags /\ {} \in SUBSET DOMAIN world.flags
      OBVIOUS
    <3>5. p \notin Chains[(n - 1) + 1]
      BY <2>3, <3>2
    <3>6. Calling(depth + 1, p, visited \cup {f}) = Settled(p)
      BY <2>5, <3>1, <3>2, <3>3, <3>4, <3>5 DEF Steady
    <3>7. Calling(0, p, {}) = Settled(p)
      BY <2>5, <3>1, <3>2, <3>3, <3>4, <3>5 DEF Steady
    <3>8. deeper[p][visited \cup {f}] = Evaluate(world, p)
      BY <3>6, <3>7 DEF Calling, Evaluate
    <3> HIDE DEF deeper
    <3> QED
      BY <2>1, <3>8 DEF IsMet
  <2> QED
    BY <2>4, <2>5
<1>3. Failing(world, deeper, f, visited) = Unmet(f)
  <2> HIDE DEF deeper
  <2>1. Failing(world, deeper, f, visited) =
          {i \in DOMAIN Prereqs(f) :
             \/ ~IsOn(world, Prereqs(f)[i].flag)
             \/ deeper[Prereqs(f)[i].flag][visited \cup {f}].idx # Prereqs(f)[i].variation}
    BY DEF Failing, Prereqs
  <2> QED
    BY <1>2, <2>1 DEF Unmet
<1> QED
  BY <1>1, <1>3, CallingIs DEF Settled

\* Evaluation comes to what the prerequisites do by themselves.
LEMMA EvaluateSettled ==
  ASSUME IsWorld(world), Hierarchical, NEW f \in DOMAIN world.flags
  PROVE  Evaluate(world, f) = Settled(f)
<1> DEFINE T == {n \in 0 .. MaxPrerequisiteDepth : Steady(n)}
<1>0. MaxPrerequisiteDepth \in Nat
  BY Depths
<1>1. 0 \in T
  BY <1>0, SteadyStep
<1>2. ASSUME NEW n \in 0 .. MaxPrerequisiteDepth, n \in T, n < MaxPrerequisiteDepth
      PROVE  n + 1 \in T
  <2>1. n + 1 \in 0 .. MaxPrerequisiteDepth /\ (n + 1) - 1 = n
    BY <1>0, <1>2
  <2> QED
    BY <1>2, <2>1, SteadyStep
<1> HIDE DEF T
<1>3. \A n \in 0 .. MaxPrerequisiteDepth : n \in T
  BY <1>0, <1>1, <1>2, UpTo
<1>4. Steady(MaxPrerequisiteDepth)
  BY <1>0, <1>3 DEF T
<1>5. /\ 0 \in 0 .. MaxPrerequisiteDepth /\ 0 + MaxPrerequisiteDepth <= MaxPrerequisiteDepth
      /\ {} \in SUBSET DOMAIN world.flags
  BY <1>0
<1>6. f \notin Chains[MaxPrerequisiteDepth + 1] /\ Above(f, {})
  BY DEF Hierarchical, Above
<1>7. Calling(0, f, {}) = Settled(f)
  BY <1>4, <1>5, <1>6, SMTT(30) DEF Steady
<1> QED
  BY <1>7 DEF Calling, Evaluate

\* Prerequisites count by what they serve by themselves, for any flags whose
\* prerequisites are free of cycles and of over-long chains: neither depth nor
\* the visited set shows (internal/eval/evaluate.go:26-44).
THEOREM PrerequisitesByThemselves == Spec => []PrerequisitesCompose
<1>1. EvaluationInv => PrerequisitesCompose
  <2> SUFFICES ASSUME EvaluationInv, Evaluated, Hierarchical, world.flags[answer.flag].on
               PROVE  answer.server =
                        LET unmet == First({i \in DOMAIN Prereqs(answer.flag) :
                                              ~IsMet(world, Prereqs(answer.flag)[i])})
                        IN  IF unmet = None THEN Outcome(world, answer.flag)
                            ELSE PrerequisiteFailed(world, answer.flag,
                                                    Prereqs(answer.flag)[unmet])
    BY DEF PrerequisitesCompose
  <2>1. answer.server = Settled(answer.flag)
    BY EvaluatedIs, EvaluateSettled DEF EvaluationInv
  <2> QED
    BY <2>1 DEF Settled, Unmet, AfterPrereqs, Prereqs
<1> QED
  BY <1>1, InvHolds, PTL

-----------------------------------------------------------------------------
(***************************************************************************)
(* Explain.                                                                 *)
(***************************************************************************)
StepKinds == {"off_check", "prerequisite", "target", "rule", "fallthrough"}
TraceSteps == [kind : StepKinds, matched : BOOLEAN]

\* Steps none of which decided, and steps of which the last one did.
Undecided(s) == s \in Seq(TraceSteps) /\ \A i \in 1 .. Len(s) : s[i].matched = FALSE
Decided(s, kind) ==
  /\ s \in Seq(TraceSteps) /\ Len(s) # 0 /\ s[Len(s)].kind = kind
  /\ \A i \in 1 .. Len(s) : s[i].matched = (i = Len(s))

LEMMA StepType ==
  ASSUME NEW kind \in StepKinds, NEW matched \in BOOLEAN
  PROVE  /\ Step(kind, matched) \in TraceSteps /\ Step(kind, matched).kind = kind
         /\ Step(kind, matched).matched = matched
BY DEF Step, TraceSteps

LEMMA UndecidedStep ==
  ASSUME NEW s, Undecided(s), NEW kind \in StepKinds
  PROVE  /\ Undecided(Append(s, Step(kind, FALSE)))
         /\ Decided(Append(s, Step(kind, TRUE)), kind)
<1>1. PICK t : t = Step(kind, FALSE)
  OBVIOUS
<1>2. t \in TraceSteps /\ t.matched = FALSE
  BY <1>1, StepType
<1>3. PICK u : u = Step(kind, TRUE)
  OBVIOUS
<1>4. u \in TraceSteps /\ u.matched = TRUE /\ u.kind = kind
  BY <1>3, StepType
<1>5. Undecided(Append(s, t))
  BY <1>2 DEF Undecided
<1>6. Decided(Append(s, u), kind)
  <2>1. PICK r, n : r = Append(s, u) /\ n = Len(s)
    OBVIOUS
  <2>2. /\ r \in Seq(TraceSteps) /\ Len(r) = n + 1 /\ n \in Nat /\ r[n + 1] = u
        /\ \A i \in 1 .. n : r[i] = s[i]
    BY <1>4, <2>1 DEF Undecided
  <2>3. ASSUME NEW i \in 1 .. n + 1 PROVE r[i].matched = (i = n + 1)
    <3>1. CASE i = n + 1
      <4>1. r[i].matched = TRUE
        BY <1>4, <2>2, <3>1
      <4> QED
        BY <3>1, <4>1
    <3>2. CASE i \in 1 .. n
      <4>1. r[i].matched = FALSE
        BY <2>1, <2>2, <3>2 DEF Undecided
      <4>2. i # n + 1
        BY <2>2, <3>2
      <4> QED
        BY <4>1, <4>2
    <3> QED
      BY <2>2, <3>1, <3>2
  <2>4. Len(r) # 0 /\ r[Len(r)].kind = kind
    BY <1>4, <2>2
  <2> QED
    BY <2>1, <2>2, <2>3, <2>4 DEF Decided
<1> QED
  BY <1>1, <1>3, <1>5, <1>6

LEMMA UndecidedSteps ==
  ASSUME NEW s, Undecided(s), NEW kind \in StepKinds, NEW n \in Nat
  PROVE  /\ Undecided(s \o Steps(kind, n, FALSE))
         /\ n # 0 => Decided(s \o Steps(kind, n, TRUE), kind)
<1>1. PICK m : m = Len(s)
  OBVIOUS
<1>2. m \in Nat /\ s \in Seq(TraceSteps)
  BY <1>1 DEF Undecided
<1>3. ASSUME NEW last \in BOOLEAN
      PROVE  /\ s \o Steps(kind, n, last) \in Seq(TraceSteps)
             /\ Len(s \o Steps(kind, n, last)) = m + n
             /\ \A i \in 1 .. m : (s \o Steps(kind, n, last))[i] = s[i]
             /\ \A i \in 1 .. n :
                  (s \o Steps(kind, n, last))[m + i] = Step(kind, last /\ i = n)
  <2>1. PICK t : t = Steps(kind, n, last)
    OBVIOUS
  <2>2. t = [i \in 1 .. n |-> Step(kind, last /\ i = n)]
    BY <2>1 DEF Steps
  <2>3. \A i \in 1 .. n : Step(kind, last /\ i = n) \in TraceSteps
    BY StepType
  <2>4. t \in Seq(TraceSteps) /\ Len(t) = n
    BY <2>2, <2>3
  <2>5. \A i \in 1 .. n : t[i] = Step(kind, last /\ i = n)
    BY <2>2
  <2>6. /\ s \o t \in Seq(TraceSteps) /\ Len(s \o t) = m + n
        /\ \A i \in 1 .. m : (s \o t)[i] = s[i]
        /\ \A i \in 1 .. n : (s \o t)[m + i] = t[i]
    BY <1>1, <1>2, <2>4
  <2> QED
    BY <2>1, <2>5, <2>6
<1>4. ASSUME NEW i \in 1 .. m + n PROVE i \in 1 .. m \/ (i - m \in 1 .. n /\ m + (i - m) = i)
  BY <1>2
<1>5. Undecided(s \o Steps(kind, n, FALSE))
  <2>1. PICK r : r = s \o Steps(kind, n, FALSE)
    OBVIOUS
  <2>2. ASSUME NEW i \in 1 .. n PROVE r[m + i].matched = FALSE
    <3>1. r[m + i] = Step(kind, FALSE /\ i = n)
      BY <1>3, <2>1
    <3>2. (FALSE /\ i = n) = FALSE
      OBVIOUS
    <3> QED
      BY <3>1, <3>2, StepType
  <2>3. \A i \in 1 .. m : r[i].matched = FALSE
    BY <1>1, <1>3, <2>1 DEF Undecided
  <2>4. r \in Seq(TraceSteps) /\ Len(r) = m + n
    BY <1>3, <2>1
  <2>5. \A i \in 1 .. m + n : r[i].matched = FALSE
    BY <1>4, <2>2, <2>3
  <2> QED
    BY <2>1, <2>4, <2>5 DEF Undecided
<1>6. ASSUME n # 0 PROVE Decided(s \o Steps(kind, n, TRUE), kind)
  <2>1. PICK r : r = s \o Steps(kind, n, TRUE)
    OBVIOUS
  <2>2. ASSUME NEW i \in 1 .. n
        PROVE  r[m + i].matched = (i = n) /\ r[m + i].kind = kind
    <3>1. r[m + i] = Step(kind, TRUE /\ i = n)
      BY <1>3, <2>1
    <3>2. (TRUE /\ i = n) \in BOOLEAN /\ (TRUE /\ i = n) = (i = n)
      OBVIOUS
    <3> QED
      BY <3>1, <3>2, StepType
  <2>3. r \in Seq(TraceSteps) /\ Len(r) = m + n
    BY <1>3, <2>1
  <2>4. ASSUME NEW i \in 1 .. m + n PROVE r[i].matched = (i = m + n)
    <3>1. CASE i \in 1 .. m
      <4>1. r[i].matched = FALSE
        BY <1>1, <1>3, <2>1, <3>1 DEF Undecided
      <4>2. i # m + n
        BY <1>2, <1>6, <3>1
      <4> QED
        BY <4>1, <4>2
    <3>2. CASE i - m \in 1 .. n /\ m + (i - m) = i
      <4>1. r[i].matched = (i - m = n)
        BY <2>2, <3>2
      <4>2. (i - m = n) = (i = m + n)
        BY <1>2, <3>2
      <4> QED
        BY <4>1, <4>2
    <3> QED
      BY <1>4, <3>1, <3>2
  <2>5. r[m + n].kind = kind /\ m + n # 0
    BY <1>2, <1>6, <2>2
  <2> QED
    BY <2>1, <2>3, <2>4, <2>5 DEF Decided
<1> QED
  BY <1>5, <1>6

\* A result names its reason, or an error.
LEMMA ResultKind ==
  ASSUME NEW flag, NEW idx, NEW reason
  PROVE  /\ variationResult(flag, idx, reason).reason.kind \in {reason.kind, "ERROR"}
         /\ offResult(flag, reason).reason.kind \in {reason.kind, "ERROR"}
<1>1. ASSUME NEW i PROVE variationResult(flag, i, reason).reason.kind \in {reason.kind, "ERROR"}
  BY MalformedType DEF variationResult
<1> QED
  BY <1>1 DEF offResult

LEMMA ResolveKind ==
  ASSUME NEW w, NEW f, NEW vr, NEW reason \in Reasons
  PROVE  resolveVariationOrRollout(w, f, vr, reason).reason.kind \in {reason.kind, "ERROR"}
<1>1. PICK ro : ro = vr.rollout
  OBVIOUS
<1>2. PICK i : i = RolloutChoice(ro.variations, ComputeBucket(w, ro.bucketBy, f, w.flags[f].salt, ro.seed))
  OBVIOUS
<1>3. PICK r : r = [reason EXCEPT !.exp = ro.exp]
  OBVIOUS
<1>4. r.kind = reason.kind
  BY <1>3 DEF Reasons
<1>5. resolveVariationOrRollout(w, f, vr, reason) \in
        {variationResult(w.flags[f], vr.variation, reason), Malformed,
         variationResult(w.flags[f], i, r)}
  BY <1>1, <1>2, <1>3 DEF resolveVariationOrRollout
<1> QED
  BY <1>4, <1>5, ResultKind, MalformedType

\* The step that a reason names.
StepOf(kind) ==
  CASE kind = "OFF"                 -> "off_check"
    [] kind = "PREREQUISITE_FAILED" -> "prerequisite"
    [] kind = "TARGET_MATCH"        -> "target"
    [] kind = "RULE_MATCH"          -> "rule"
    [] kind = "FALLTHROUGH"         -> "fallthrough"

\* A trace that decides as the result says.
Explains(trace, result) ==
  /\ trace.result = result
  /\ \E kind \in Kinds \ {"ERROR"} : /\ result.reason.kind \in {kind, "ERROR"}
                                     /\ Decided(trace.steps, StepOf(kind))

LEMMA ExplainOutcomeAgrees ==
  ASSUME NEW f \in DOMAIN world.flags, world.flags[f] \in Flags, NoEmptyRule(f),
         NEW steps, Undecided(steps)
  PROVE  Explains(ExplainOutcome(world, f, steps), Outcome(world, f))
<1> DEFINE flag    == world.flags[f]
           target  == FirstTarget(world, flag)
           rules   == {i \in DOMAIN flag.rules :
                         \A j \in DOMAIN flag.rules[i].clauses :
                           clauseMatches(world, flag.rules[i].clauses[j])}
           matched == {i \in DOMAIN flag.rules : ruleMatches(world, flag.rules[i])}
           toRules == Append(steps, Step("target", FALSE))
<1>1. rules = matched
  BY DEF NoEmptyRule, ruleMatches
<1>2. Undecided(toRules)
  BY UndecidedStep DEF StepKinds
<1>3. ExplainOutcome(world, f, steps) =
        CASE target # None ->
               Trace(Append(steps, Step("target", TRUE)),
                     variationResult(flag, flag.targets[target].variation,
                                     Reason("TARGET_MATCH")))
          [] target = None /\ First(rules) # None ->
               Trace(toRules \o Steps("rule", First(rules), TRUE),
                     resolveVariationOrRollout(world, f, flag.rules[First(rules)],
                       [Reason("RULE_MATCH") EXCEPT !.rule = First(rules)]))
          [] OTHER ->
               Trace(Append(toRules \o Steps("rule", Len(flag.rules), FALSE),
                            Step("fallthrough", TRUE)),
                     resolveVariationOrRollout(world, f, flag.fallthrough, Reason("FALLTHROUGH")))
  BY DEF ExplainOutcome
<1>4. \/ /\ target # None
         /\ Outcome(world, f) = variationResult(flag, flag.targets[target].variation,
                                                Reason("TARGET_MATCH"))
      \/ /\ target = None /\ First(matched) # None /\ First(matched) \in 1 .. Len(flag.rules)
         /\ Outcome(world, f) = resolveVariationOrRollout(world, f, flag.rules[First(matched)],
                                  [Reason("RULE_MATCH") EXCEPT !.rule = First(matched)])
      \/ /\ target = None /\ First(matched) = None
         /\ Outcome(world, f) = resolveVariationOrRollout(world, f, flag.fallthrough,
                                                          Reason("FALLTHROUGH"))
  BY OutcomeParts
<1>5. PICK n : n = Len(flag.rules)
  OBVIOUS
<1>6. n \in Nat
  BY <1>5 DEF Flags
<1> HIDE DEF flag, target, rules, matched, toRules
<1>7. ASSUME NEW s, NEW r, NEW kind \in Kinds \ {"ERROR"}, r.reason.kind \in {kind, "ERROR"},
             Decided(s, StepOf(kind))
      PROVE  Explains(Trace(s, r), r)
  BY <1>7 DEF Explains, Trace
<1>8. CASE target # None
  <2>1. Decided(Append(steps, Step("target", TRUE)), StepOf("TARGET_MATCH"))
    BY UndecidedStep DEF StepKinds, StepOf
  <2>2. Outcome(world, f).reason.kind \in {"TARGET_MATCH", "ERROR"}
    BY <1>4, <1>8, ResultKind, ReasonType DEF Kinds
  <2>3. ExplainOutcome(world, f, steps)
          = Trace(Append(steps, Step("target", TRUE)), Outcome(world, f))
    BY <1>3, <1>4, <1>8
  <2> QED
    BY <1>7, <2>1, <2>2, <2>3 DEF Kinds
<1>9. CASE target = None /\ First(matched) # None
  <2>1. PICK i : i = First(matched)
    OBVIOUS
  <2>2. i \in Nat /\ i # 0
    BY <1>4, <1>5, <1>6, <1>9, <2>1
  <2>3. Decided(toRules \o Steps("rule", i, TRUE), StepOf("RULE_MATCH"))
    BY <1>2, <2>2, UndecidedSteps DEF StepKinds, StepOf
  <2>4. PICK r : r = [Reason("RULE_MATCH") EXCEPT !.rule = i]
    OBVIOUS
  <2>5. r \in Reasons /\ r.kind = "RULE_MATCH"
    BY <2>2, <2>4, ReasonType DEF Kinds
  <2>6. Outcome(world, f) = resolveVariationOrRollout(world, f, flag.rules[i], r)
    BY <1>4, <1>9, <2>1, <2>4
  <2>7. Outcome(world, f).reason.kind \in {"RULE_MATCH", "ERROR"}
    BY <2>5, <2>6, ResolveKind
  <2>8. ExplainOutcome(world, f, steps)
          = Trace(toRules \o Steps("rule", i, TRUE), Outcome(world, f))
    BY <1>1, <1>3, <1>9, <2>1, <2>4, <2>6
  <2> QED
    BY <1>7, <2>3, <2>7, <2>8 DEF Kinds
<1>10. CASE target = None /\ First(matched) = None
  <2>1. PICK s : s = toRules \o Steps("rule", n, FALSE)
    OBVIOUS
  <2>2. Undecided(s)
    BY <1>2, <1>6, <2>1, UndecidedSteps DEF StepKinds
  <2>3. Decided(Append(s, Step("fallthrough", TRUE)), StepOf("FALLTHROUGH"))
    BY <2>2, UndecidedStep DEF StepKinds, StepOf
  <2>4. Reason("FALLTHROUGH") \in Reasons /\ Reason("FALLTHROUGH").kind = "FALLTHROUGH"
    BY ReasonType DEF Kinds
  <2>5. Outcome(world, f).reason.kind \in {"FALLTHROUGH", "ERROR"}
    BY <1>4, <1>10, <2>4, ResolveKind
  <2>6. ExplainOutcome(world, f, steps)
          = Trace(Append(s, Step("fallthrough", TRUE)), Outcome(world, f))
    BY <1>1, <1>3, <1>4, <1>5, <1>10, <2>1
  <2> QED
    BY <1>7, <2>3, <2>5, <2>6 DEF Kinds
<1> QED
  BY <1>8, <1>9, <1>10

LEMMA ExplainExplains ==
  ASSUME IsWorld(world), Hierarchical, NEW f \in DOMAIN world.flags, NoEmptyRule(f)
  PROVE  Explains(Explain(world, f), Evaluate(world, f))
<1> DEFINE flag   == world.flags[f]
           failed == First(Unmet(f))
           isOn   == <<Step("off_check", FALSE)>>
<1>1. flag \in Flags
  BY DEF IsWorld
<1>2. Undecided(<<>>)
  BY DEF Undecided
<1>3. Undecided(isOn) /\ Decided(<<Step("off_check", TRUE)>>, StepOf("OFF"))
  <2>1. /\ Append(<<>>, Step("off_check", FALSE)) = isOn
        /\ Append(<<>>, Step("off_check", TRUE)) = <<Step("off_check", TRUE)>>
    OBVIOUS
  <2> QED
    BY <1>2, <2>1, UndecidedStep DEF StepKinds, StepOf
<1>4. Evaluate(world, f) =
        IF ~flag.on THEN offResult(flag, Reason("OFF"))
        ELSE AfterPrereqs(world, f, failed, Outcome(world, f))
  BY EvaluateSettled DEF Settled
<1>5. Explain(world, f) =
        CASE ~flag.on -> Trace(<<Step("off_check", TRUE)>>, offResult(flag, Reason("OFF")))
          [] flag.on /\ failed # None ->
               Trace(isOn \o Steps("prerequisite", failed, TRUE),
                     PrerequisiteFailed(world, f, flag.prereqs[failed]))
          [] OTHER -> ExplainOutcome(world, f,
                                     isOn \o Steps("prerequisite", Len(flag.prereqs), FALSE))
  BY DEF Explain, Unmet, Prereqs
<1>6. failed = None \/ (failed \in 1 .. Len(flag.prereqs)
                        /\ flag.prereqs[failed] \in [flag : STRING, variation : Int])
  <2>1. flag.prereqs \in Seq([flag : STRING, variation : Int])
    BY <1>1 DEF Flags
  <2>2. Unmet(f) \in SUBSET DOMAIN flag.prereqs
    BY DEF Unmet, Prereqs
  <2> QED
    BY <2>1, <2>2, FirstOf
<1>7. PICK n : n = Len(flag.prereqs)
  OBVIOUS
<1>8. n \in Nat
  BY <1>1, <1>7 DEF Flags
<1> HIDE DEF flag, failed, isOn
<1>9. ASSUME NEW s, NEW r, NEW kind \in Kinds \ {"ERROR"}, r.reason.kind \in {kind, "ERROR"},
             Decided(s, StepOf(kind))
      PROVE  Explains(Trace(s, r), r)
  BY <1>9 DEF Explains, Trace
<1>10. CASE ~flag.on
  <2>1. Evaluate(world, f).reason.kind \in {"OFF", "ERROR"}
    <3>1. Reason("OFF").kind = "OFF"
      BY ReasonType DEF Kinds
    <3> QED
      BY <1>4, <1>10, <3>1, ResultKind
  <2>2. Explain(world, f) = Trace(<<Step("off_check", TRUE)>>, Evaluate(world, f))
    BY <1>4, <1>5, <1>10
  <2> QED
    BY <1>3, <1>9, <2>1, <2>2 DEF Kinds
<1>11. CASE flag.on /\ failed # None
  <2>1. PICK p : p = flag.prereqs[failed]
    OBVIOUS
  <2>2. PICK r : r = [Reason("PREREQUISITE_FAILED") EXCEPT !.prereq = p.flag]
    OBVIOUS
  <2>3. p \in [flag : STRING, variation : Int] /\ failed \in Nat /\ failed # 0
    BY <1>6, <1>7, <1>8, <1>11, <2>1
  <2>4. p.flag \in STRING
    BY <2>3
  <2>5. r.kind = "PREREQUISITE_FAILED"
    BY <2>2, <2>4, ReasonType DEF Kinds
  <2>6. PrerequisiteFailed(world, f, p).reason.kind \in {"PREREQUISITE_FAILED", "ERROR"}
    BY <2>2, <2>5, ResultKind DEF PrerequisiteFailed
  <2>7. Evaluate(world, f) = PrerequisiteFailed(world, f, p)
    BY <1>4, <1>11, <2>1 DEF AfterPrereqs, flag
  <2>8. Decided(isOn \o Steps("prerequisite", failed, TRUE), StepOf("PREREQUISITE_FAILED"))
    BY <1>3, <2>3, UndecidedSteps DEF StepKinds, StepOf
  <2>9. Explain(world, f) = Trace(isOn \o Steps("prerequisite", failed, TRUE), Evaluate(world, f))
    BY <1>5, <1>11, <2>1, <2>7
  <2> QED
    BY <1>9, <2>6, <2>7, <2>8, <2>9 DEF Kinds
<1>12. CASE flag.on /\ failed = None
  <2>1. PICK s : s = isOn \o Steps("prerequisite", n, FALSE)
    OBVIOUS
  <2>2. Undecided(s)
    BY <1>3, <1>8, <2>1, UndecidedSteps DEF StepKinds
  <2>3. Explain(world, f) = ExplainOutcome(world, f, s)
    BY <1>5, <1>7, <1>12, <2>1
  <2>4. Evaluate(world, f) = Outcome(world, f)
    BY <1>4, <1>12 DEF AfterPrereqs
  <2> QED
    BY <1>1, <2>2, <2>3, <2>4, ExplainOutcomeAgrees DEF flag
<1> QED
  BY <1>10, <1>11, <1>12

\* The trace of Explain is the story of the answer: it ends with the answer, at
\* the step that decided, which no step before it did
\* (internal/eval/explain.go against evaluate.go).
THEOREM ExplainTellsEvaluate == Spec => []ExplainAgrees
<1>1. EvaluationInv => ExplainAgrees
  <2> DEFINE steps == answer.trace.steps
             kind  == answer.server.reason.kind
  <2> SUFFICES ASSUME EvaluationInv, Evaluated, Hierarchical, NoEmptyRule(answer.flag)
               PROVE  /\ answer.trace.result = answer.server
                      /\ \A i \in DOMAIN steps : steps[i].matched <=> i = Len(steps)
                      /\ Last(steps).kind =
                           CASE kind = "OFF"                 -> "off_check"
                             [] kind = "PREREQUISITE_FAILED" -> "prerequisite"
                             [] kind = "TARGET_MATCH"        -> "target"
                             [] kind = "RULE_MATCH"          -> "rule"
                             [] kind = "FALLTHROUGH"         -> "fallthrough"
                             [] OTHER                        -> Last(steps).kind
    BY DEF ExplainAgrees
  <2>1. Explains(answer.trace, answer.server)
    BY EvaluatedIs, ExplainExplains DEF EvaluationInv
  <2>2. answer.trace.result = answer.server
    BY <2>1 DEF Explains
  <2>3. PICK k \in Kinds \ {"ERROR"} : kind \in {k, "ERROR"} /\ Decided(steps, StepOf(k))
    BY <2>1 DEF Explains
  <2> HIDE DEF steps, kind
  <2>4. DOMAIN steps = 1 .. Len(steps)
    BY <2>3, SMTT(30) DEF Decided
  <2>5. \A i \in DOMAIN steps : steps[i].matched = (i = Len(steps))
    BY <2>3, <2>4 DEF Decided
  <2>6. Last(steps).kind = StepOf(k)
    BY <2>3 DEF Decided, Last
  <2>7. Last(steps).kind =
          CASE kind = "OFF"                 -> "off_check"
            [] kind = "PREREQUISITE_FAILED" -> "prerequisite"
            [] kind = "TARGET_MATCH"        -> "target"
            [] kind = "RULE_MATCH"          -> "rule"
            [] kind = "FALLTHROUGH"         -> "fallthrough"
            [] OTHER                        -> Last(steps).kind
    BY <2>3, <2>6 DEF StepOf, Kinds
  <2> QED
    BY <2>2, <2>5, <2>7 DEF steps, kind
<1> QED
  BY <1>1, InvHolds, PTL

-----------------------------------------------------------------------------
(***************************************************************************)
(* Rollouts: shares and growth.                                             *)
(***************************************************************************)
\* A rollout that answered has something to choose from.
LEMMA RolledOutIs ==
  ASSUME EvaluationInv, RolledOut, NoNegativeWeight
  PROVE  LET vr == world.flags[answer.flag].fallthrough
         IN  /\ answer.flag \in DOMAIN world.flags /\ world.flags[answer.flag] \in Flags
             /\ vr \in [variation : Indices, rollout : Rollouts \cup {None}]
             /\ vr.variation = None /\ vr.rollout \in Rollouts /\ vr.rollout # None
             /\ Weighted \in Seq(Weights) /\ Weighted # <<>>
             /\ BucketId(world, vr.rollout.bucketBy) # None
<1> DEFINE f    == answer.flag
           flag == world.flags[f]
           vr   == flag.fallthrough
<1>1. Evaluated /\ answer.server.reason.kind = "FALLTHROUGH" /\ vr.variation = None
      /\ BucketId(world, vr.rollout.bucketBy) # None
  BY DEF RolledOut
<1>2. f \in DOMAIN world.flags /\ flag \in Flags /\ answer.server = Evaluate(world, f)
  BY <1>1, EvaluatedIs
<1>3. PICK x : evaluateWithDepth(world)[0] = evaluateAt(world, 0, x)
  BY Depths, EvaluateIs DEF EvaluationInv
<1>4. PICK T : T = Failing(world, x, f, {})
  OBVIOUS
<1>5. answer.server \in
        {offResult(flag, Reason("OFF")), offResult(flag, Error("PREREQUISITE_CYCLE")),
         AfterPrereqs(world, f, First(T), Outcome(world, f))}
  <2>1. {} \in SUBSET DOMAIN world.flags
    OBVIOUS
  <2>2. answer.server = evaluateAt(world, 0, x)[f][{}]
    BY <1>2, <1>3 DEF Evaluate
  <2> HIDE DEF f, flag
  <2> QED
    BY <1>2, <1>4, <2>1, <2>2, CallIs DEF flag
<1>6. Reason("OFF").kind = "OFF" /\ Error("PREREQUISITE_CYCLE").kind = "ERROR"
  BY ReasonType, ErrorType DEF Kinds
<1>7. /\ offResult(flag, Reason("OFF")).reason.kind \in {"OFF", "ERROR"}
      /\ offResult(flag, Error("PREREQUISITE_CYCLE")).reason.kind = "ERROR"
  BY <1>6, ResultKind
<1>8. answer.server = AfterPrereqs(world, f, First(T), Outcome(world, f))
  BY <1>1, <1>5, <1>7
<1>9. First(T) = None
  <2> SUFFICES ASSUME First(T) # None PROVE FALSE
    OBVIOUS
  <2>1. flag.prereqs \in Seq([flag : STRING, variation : Int])
    BY <1>2, SMTT(30) DEF Flags
  <2>2. T \in SUBSET DOMAIN flag.prereqs
    BY <1>4 DEF Failing
  <2>3. PICK p : p = flag.prereqs[First(T)]
    OBVIOUS
  <2>4. p \in [flag : STRING, variation : Int]
    BY <2>1, <2>2, <2>3, FirstOf
  <2>5. p.flag \in STRING
    BY <2>4
  <2>6. PICK r : r = [Reason("PREREQUISITE_FAILED") EXCEPT !.prereq = p.flag]
    OBVIOUS
  <2>7. r.kind = "PREREQUISITE_FAILED"
    BY <2>5, <2>6, ReasonType DEF Kinds
  <2>8. answer.server = offResult(flag, r)
    BY <1>8, <2>3, <2>6 DEF AfterPrereqs, PrerequisiteFailed
  <2>9. answer.server.reason.kind \in {r.kind, "ERROR"}
    BY <2>8, ResultKind
  <2> QED
    BY <1>1, <2>7, <2>9
<1>10. answer.server = Outcome(world, f)
  BY <1>8, <1>9 DEF AfterPrereqs
<1>11. Outcome(world, f) = resolveVariationOrRollout(world, f, vr, Reason("FALLTHROUGH"))
  <2> DEFINE target == FirstTarget(world, flag)
             rule == First({i \in DOMAIN flag.rules : ruleMatches(world, flag.rules[i])})
  <2>1. Outcome(world, f) # variationResult(flag, flag.targets[target].variation,
                                            Reason("TARGET_MATCH"))
    <3>1. Reason("TARGET_MATCH").kind = "TARGET_MATCH"
      BY ReasonType DEF Kinds
    <3> QED
      BY <1>1, <1>10, <3>1, ResultKind
  <2>2. rule \in Nat =>
          Outcome(world, f) # resolveVariationOrRollout(world, f, flag.rules[rule],
                                [Reason("RULE_MATCH") EXCEPT !.rule = rule])
    <3> SUFFICES ASSUME rule \in Nat
                 PROVE  Outcome(world, f) # resolveVariationOrRollout(world, f, flag.rules[rule],
                                              [Reason("RULE_MATCH") EXCEPT !.rule = rule])
      OBVIOUS
    <3> HIDE DEF rule, flag
    <3>1. PICK r : r = [Reason("RULE_MATCH") EXCEPT !.rule = rule]
      OBVIOUS
    <3>2. r \in Reasons /\ r.kind = "RULE_MATCH"
      BY <3>1, ReasonType DEF Kinds
    <3>3. PICK v : v = flag.rules[rule]
      OBVIOUS
    <3>4. resolveVariationOrRollout(world, f, v, r).reason.kind \in {r.kind, "ERROR"}
      BY <3>2, ResolveKind
    <3> QED
      BY <1>1, <1>10, <3>1, <3>2, <3>3, <3>4, SMTT(30)
  <2>3. 1 .. Len(flag.rules) \subseteq Nat
    OBVIOUS
  <2> QED
    BY <1>2, <2>1, <2>2, <2>3, OutcomeParts
<1>12. vr \in [variation : Indices, rollout : Rollouts \cup {None}]
  BY <1>2, SMTT(30) DEF Flags
<1>13. vr.rollout # None /\ vr.rollout.variations # <<>>
  BY <1>1, <1>10, <1>11, MalformedType DEF resolveVariationOrRollout
<1>14. vr.rollout \in Rollouts
  BY <1>12, <1>13
<1>15. Weighted \in Seq(Weights) /\ Weighted # <<>>
  <2>1. PICK v : v = Weighted
    OBVIOUS
  <2>2. v \in Seq(AnyWeights) /\ v # <<>>
    BY <1>13, <1>14, <2>1 DEF Weighted, Rollouts, AnyWeights
  <2>3. \A i \in 1 .. Len(v) : v[i] \in Weights
    <3> SUFFICES ASSUME NEW i \in 1 .. Len(v)
                 PROVE  v[i] \in Weights
      OBVIOUS
    <3>1. DOMAIN v = 1 .. Len(v)
      BY <2>2
    <3>2. v[i].weight >= 0
      BY <2>1, <3>1 DEF NoNegativeWeight
    <3>3. v[i] \in AnyWeights
      BY <2>2
    <3> QED
      BY <3>2, <3>3 DEF AnyWeights, Weights
  <2>4. v = [i \in 1 .. Len(v) |-> v[i]] /\ Len(v) \in Nat
    BY <2>2
  <2>5. v \in Seq(Weights)
    BY <2>3, <2>4
  <2> QED
    BY <2>1, <2>2, <2>5
<1> QED
  BY <1>1, <1>2, <1>12, <1>13, <1>14, <1>15

\* A hash that is the same everywhere is the bucket.
LEMMA ServedWithIs ==
  ASSUME EvaluationInv, RolledOut, NoNegativeWeight, NEW b, NEW v \in Seq(Weights), v # <<>>
  PROVE  ServedWith(b, v) = IF InRange(world.flags[answer.flag], RolloutChoice(v, b))
                            THEN RolloutChoice(v, b) ELSE None
<1> DEFINE f    == answer.flag
           flag == world.flags[f]
           vr   == flag.fallthrough
           ro   == vr.rollout
<1>1. PICK w : w = [world EXCEPT !.hash = [i \in DOMAIN world.hash |-> b]]
  OBVIOUS
<1>2. PICK u : u = [vr EXCEPT !.rollout.variations = v]
  OBVIOUS
<1>3. IsWorld(world)
  BY DEF EvaluationInv
<1>4. /\ w.flags = world.flags /\ w.ctx = world.ctx
      /\ w.hash = [i \in DOMAIN world.hash |-> b]
  <2>1. DOMAIN world = {"flags", "segments", "ctx", "hash"}
    BY <1>3 DEF IsWorld
  <2> QED
    BY <1>1, <2>1
<1>5. /\ f \in DOMAIN world.flags /\ flag \in Flags
      /\ vr \in [variation : Indices, rollout : Rollouts \cup {None}]
      /\ vr.variation = None /\ ro \in Rollouts /\ ro # None
      /\ BucketId(world, ro.bucketBy) # None
  BY RolledOutIs
<1>6. PICK so : so = [ro EXCEPT !.variations = v]
  OBVIOUS
<1>7. u.variation = None /\ u.rollout = so
  BY <1>2, <1>5, <1>6
<1>8. so.variations = v /\ so.bucketBy = ro.bucketBy /\ so.seed = ro.seed /\ so.exp = ro.exp
  BY <1>5, <1>6 DEF Rollouts
<1>9. BucketId(w, ro.bucketBy) = BucketId(world, ro.bucketBy)
  BY <1>4 DEF BucketId
<1>10. PICK id : id = BucketId(world, ro.bucketBy)
  OBVIOUS
<1>11. HashInput(id, f, flag.salt, ro.seed) \in DOMAIN world.hash
  BY <1>3, <1>5, <1>10 DEF IsWorld
<1>12. ComputeBucket(w, so.bucketBy, f, flag.salt, so.seed) = b
  <2>1. ComputeBucket(w, so.bucketBy, f, flag.salt, so.seed)
          = w.hash[HashInput(id, f, flag.salt, ro.seed)]
    BY <1>5, <1>8, <1>9, <1>10 DEF ComputeBucket
  <2>2. PICK h : h = HashInput(id, f, flag.salt, ro.seed)
    OBVIOUS
  <2> QED
    BY <1>4, <1>11, <2>1, <2>2, SMTT(30)
<1>13. so # None
  <2>1. so \in Rollouts
    <3>1. \A x : x \in Weights => x \in AnyWeights
      BY DEF Weights, AnyWeights
    <3>2. \A i \in 1 .. Len(v) : v[i] \in AnyWeights
      BY <3>1
    <3>3. v = [i \in 1 .. Len(v) |-> v[i]] /\ Len(v) \in Nat
      OBVIOUS
    <3>4. v \in Seq(AnyWeights)
      BY <3>2, <3>3
    <3> QED
      BY <1>5, <1>6, <3>4 DEF Rollouts, AnyWeights
  <2> QED
    BY <2>1, NoneIs, Zenon
<1>14. PICK r : r = [Reason("FALLTHROUGH") EXCEPT !.exp = so.exp]
  OBVIOUS
<1>15. PICK c : c = RolloutChoice(v, b)
  OBVIOUS
<1>16. resolveVariationOrRollout(w, f, u, Reason("FALLTHROUGH")) = variationResult(flag, c, r)
  <2>1. w.flags[f] = flag
    BY <1>4
  <2> HIDE DEF f, flag, ro
  <2> QED
    BY <1>7, <1>8, <1>12, <1>13, <1>14, <1>15, <2>1 DEF resolveVariationOrRollout
<1>17. ServedWith(b, v) = variationResult(flag, c, r).idx
  BY <1>1, <1>2, <1>16 DEF ServedWith
<1> QED
  BY <1>15, <1>17, MalformedType DEF variationResult, InRange

\* The position that a bucket falls into.
Falls(v, b, i) ==
  /\ i \in 1 .. Len(v)
  /\ \A k \in 1 .. i - 1 : ~(b < WeightUpTo(v, k))
  /\ b < WeightUpTo(v, i) \/ i = Len(v)

LEMMA ChoiceIs ==
  ASSUME NEW v \in Seq(Weights), v # <<>>, NEW b
  PROVE  /\ \E i : Falls(v, b, i)
         /\ \A i : Falls(v, b, i) => RolloutChoice(v, b) = v[i].variation
<1>1. PICK T : T = {k \in DOMAIN v : b < WeightUpTo(v, k)}
  OBVIOUS
<1>2. PICK n : n = Len(v)
  OBVIOUS
<1>3. DOMAIN v = 1 .. n /\ n \in Nat /\ n # 0
  BY <1>2
<1>4. T \subseteq Nat /\ T \subseteq 1 .. n
  BY <1>1, <1>3
<1>5. PICK j : j = First(T)
  OBVIOUS
<1>6. /\ T = {} => j = None
      /\ T # {} => j \in T /\ j # None /\ \A k \in T : j <= k
  BY <1>4, <1>5, FirstIs
<1>7. RolloutChoice(v, b) = v[IF j = None THEN n ELSE j].variation
  BY <1>1, <1>2, <1>5 DEF RolloutChoice
<1>8. PICK m : m = IF j = None THEN n ELSE j
  OBVIOUS
<1>9. m \in 1 .. n
  BY <1>3, <1>4, <1>6, <1>8
<1>10. Falls(v, b, m)
  <2>1. ASSUME NEW k \in 1 .. m - 1 PROVE ~(b < WeightUpTo(v, k))
    <3>1. k \in 1 .. n /\ k < m
      BY <1>3, <1>9
    <3>2. k \notin T
      <4>1. CASE T = {}
        BY <4>1
      <4>2. CASE T # {}
        <5>1. m = j /\ \A l \in T : j <= l
          BY <1>6, <1>8, <4>2
        <5> QED
          BY <1>3, <1>9, <3>1, <5>1
      <4> QED
        BY <4>1, <4>2
    <3> QED
      BY <1>1, <1>3, <3>1, <3>2
  <2>2. b < WeightUpTo(v, m) \/ m = n
    BY <1>1, <1>6, <1>8
  <2> QED
    BY <1>2, <1>9, <2>1, <2>2 DEF Falls
<1>11. ASSUME NEW i, Falls(v, b, i) PROVE i = m
  <2>1. /\ i \in 1 .. n /\ m \in 1 .. n
        /\ \A k \in 1 .. i - 1 : ~(b < WeightUpTo(v, k))
        /\ \A k \in 1 .. m - 1 : ~(b < WeightUpTo(v, k))
        /\ b < WeightUpTo(v, i) \/ i = n
        /\ b < WeightUpTo(v, m) \/ m = n
    BY <1>2, <1>10, <1>11 DEF Falls
  <2>2. ~(i < m)
    <3> SUFFICES ASSUME i < m PROVE FALSE
      OBVIOUS
    <3>1. i \in 1 .. m - 1 /\ i # n
      BY <1>3, <2>1
    <3> QED
      BY <2>1, <3>1
  <2>3. ~(m < i)
    <3> SUFFICES ASSUME m < i PROVE FALSE
      OBVIOUS
    <3>1. m \in 1 .. i - 1 /\ m # n
      BY <1>3, <2>1
    <3> QED
      BY <2>1, <3>1
  <2> QED
    BY <1>3, <2>1, <2>2, <2>3
<1> QED
  BY <1>7, <1>8, <1>10, <1>11

LEMMA WeightChanged ==
  ASSUME NEW a \in Weights, NEW c \in Nat
  PROVE  /\ [a EXCEPT !.weight = c] \in Weights
         /\ [a EXCEPT !.weight = c].variation = a.variation
         /\ [a EXCEPT !.weight = c].weight = c
BY DEF Weights

\* Weight that moves from position j to position i.
Grown(v, i, j, d) == [v EXCEPT ![i].weight = @ + d, ![j].weight = @ - d]

IsGrown(g, v, i, j, d) ==
  /\ g \in Seq(Weights) /\ Len(g) = Len(v)
  /\ \A k \in 1 .. Len(v) :
       /\ g[k].variation = v[k].variation
       /\ g[k].weight = (v[k].weight + (IF k = i THEN d ELSE 0)) - (IF k = j THEN d ELSE 0)

LEMMA GrownIs ==
  ASSUME NEW v \in Seq(Weights), NEW i \in DOMAIN v, NEW j \in DOMAIN v, i # j,
         NEW d \in 1 .. v[j].weight
  PROVE  IsGrown(Grown(v, i, j, d), v, i, j, d)
<1>1. PICK n : n = Len(v)
  OBVIOUS
<1>2. DOMAIN v = 1 .. n /\ n \in Nat /\ v = [k \in 1 .. n |-> v[k]]
  BY <1>1
<1>3. \A k \in 1 .. n : v[k] \in Weights
  BY <1>1
<1>4. d \in Nat /\ v[j].weight \in Nat /\ v[i].weight \in Nat /\ d <= v[j].weight
  BY <1>2, <1>3 DEF Weights
<1>5. PICK x : x = [v[i] EXCEPT !.weight = v[i].weight + d]
  OBVIOUS
<1>6. PICK y : y = [v[j] EXCEPT !.weight = v[j].weight - d]
  OBVIOUS
<1>7. x \in Weights /\ x.variation = v[i].variation /\ x.weight = v[i].weight + d
  <2>1. v[i] \in Weights /\ v[i].weight + d \in Nat
    BY <1>2, <1>3, <1>4
  <2> QED
    BY <1>5, <2>1, WeightChanged
<1>8. y \in Weights /\ y.variation = v[j].variation /\ y.weight = v[j].weight - d
  <2>1. v[j] \in Weights /\ v[j].weight - d \in Nat
    BY <1>2, <1>3, <1>4
  <2> QED
    BY <1>6, <2>1, WeightChanged
<1>9. PICK g : g = Grown(v, i, j, d)
  OBVIOUS
<1>10. g = [k \in 1 .. n |-> IF k = j THEN y ELSE IF k = i THEN x ELSE v[k]]
  <2>1. PICK u : u = [v EXCEPT ![i].weight = @ + d]
    OBVIOUS
  <2>2. u = [k \in 1 .. n |-> IF k = i THEN x ELSE v[k]]
    BY <1>2, <1>5, <2>1
  <2>3. g = [u EXCEPT ![j].weight = @ - d]
    BY <1>9, <2>1 DEF Grown
  <2>4. u[j] = v[j]
    BY <1>2, <2>2
  <2> QED
    BY <1>2, <1>6, <2>2, <2>3, <2>4
<1>11. \A k \in 1 .. n : g[k] \in Weights
  BY <1>3, <1>7, <1>8, <1>10
<1>12. g \in Seq(Weights) /\ Len(g) = n
  BY <1>2, <1>10, <1>11, SMTT(30)
<1>13. ASSUME NEW k \in 1 .. n
       PROVE  /\ g[k].variation = v[k].variation
              /\ g[k].weight = (v[k].weight + (IF k = i THEN d ELSE 0)) - (IF k = j THEN d ELSE 0)
  <2>1. v[k].weight \in Nat
    BY <1>3 DEF Weights
  <2>2. g[k] = IF k = j THEN y ELSE IF k = i THEN x ELSE v[k]
    BY <1>10
  <2> QED
    BY <1>4, <1>7, <1>8, <2>1, <2>2
<1> QED
  BY <1>1, <1>9, <1>12, <1>13 DEF IsGrown

\* What the sums of the weights become.
LEMMA GrownSum ==
  ASSUME NEW v \in Seq(Weights), NEW i \in DOMAIN v, NEW j \in DOMAIN v, i # j,
         NEW d \in 1 .. v[j].weight
  PROVE  \A k \in 0 .. Len(v) :
           WeightUpTo(Grown(v, i, j, d), k) =
             (WeightUpTo(v, k) + (IF i <= k THEN d ELSE 0)) - (IF j <= k THEN d ELSE 0)
<1>1. PICK g, n : g = Grown(v, i, j, d) /\ n = Len(v)
  OBVIOUS
<1>2. DOMAIN v = 1 .. n /\ n \in Nat
  BY <1>1
<1>3. \A k \in 1 .. n : v[k] \in Weights
  BY <1>1
<1>4. i \in 1 .. n /\ j \in 1 .. n
  BY <1>2
<1>5. d \in Nat
  BY <1>3, <1>4 DEF Weights
<1>6. /\ g \in Seq(Weights) /\ Len(g) = n
      /\ \A k \in 1 .. n :
           g[k].weight = (v[k].weight + (IF k = i THEN d ELSE 0)) - (IF k = j THEN d ELSE 0)
  <2>1. IsGrown(g, v, i, j, d)
    BY <1>1, GrownIs
  <2> QED
    BY <1>1, <2>1 DEF IsGrown
<1>7. /\ WeightUpTo(v, 0) = 0 /\ WeightUpTo(g, 0) = 0
      /\ \A k \in 0 .. n : WeightUpTo(v, k) \in Nat /\ WeightUpTo(g, k) \in Nat
      /\ \A k \in 1 .. n : /\ WeightUpTo(v, k) = WeightUpTo(v, k - 1) + v[k].weight
                           /\ WeightUpTo(g, k) = WeightUpTo(g, k - 1) + g[k].weight
  BY <1>1, <1>6, WeightUpToIs
<1> DEFINE Right(k) == WeightUpTo(g, k) =
             (WeightUpTo(v, k) + (IF i <= k THEN d ELSE 0)) - (IF j <= k THEN d ELSE 0)
           T == {k \in 0 .. n : Right(k)}
<1>8. 0 \in T
  BY <1>2, <1>4, <1>5, <1>7, SMTT(30)
<1>9. ASSUME NEW k \in 0 .. n, k \in T, k < n PROVE k + 1 \in T
  <2>1. k + 1 \in 1 .. n /\ (k + 1) - 1 = k /\ k + 1 \in 0 .. n /\ k \in Nat
    BY <1>2, <1>9
  <2>2. PICK a, b, c, e : /\ a = WeightUpTo(v, k) /\ b = WeightUpTo(g, k)
                          /\ c = v[k + 1].weight /\ e = g[k + 1].weight
    OBVIOUS
  <2>3. a \in Nat /\ b \in Nat /\ c \in Nat
    BY <1>3, <1>7, <2>1, <2>2 DEF Weights
  <2>4. e = (c + (IF k + 1 = i THEN d ELSE 0)) - (IF k + 1 = j THEN d ELSE 0)
    BY <1>6, <2>1, <2>2
  <2>5. b = (a + (IF i <= k THEN d ELSE 0)) - (IF j <= k THEN d ELSE 0)
    BY <1>9, <2>2
  <2>6. WeightUpTo(v, k + 1) = a + c /\ WeightUpTo(g, k + 1) = b + e
    BY <1>7, <2>1, <2>2
  <2>7. b + e = ((a + c) + (IF i <= k + 1 THEN d ELSE 0)) - (IF j <= k + 1 THEN d ELSE 0)
    BY <1>4, <1>5, <2>1, <2>3, <2>4, <2>5
  <2> QED
    BY <2>1, <2>6, <2>7
<1> HIDE DEF T
<1>10. \A k \in 0 .. n : k \in T
  BY <1>2, <1>8, <1>9, UpTo
<1> QED
  BY <1>1, <1>10 DEF T

LEMMA GrowthKeeps ==
  ASSUME NEW v \in Seq(Weights), NEW i \in DOMAIN v, NEW j \in DOMAIN v, i # j,
         NEW d \in 1 .. v[j].weight, NEW b \in Nat, Falls(v, b, i)
  PROVE  Falls(Grown(v, i, j, d), b, i)
<1>1. PICK g, n : g = Grown(v, i, j, d) /\ n = Len(v)
  OBVIOUS
<1>2. DOMAIN v = 1 .. n /\ n \in Nat /\ i \in 1 .. n /\ j \in 1 .. n
  BY <1>1
<1>3. d \in Nat
  <2>1. v[j] \in Weights
    OBVIOUS
  <2> QED
    BY <2>1 DEF Weights
<1>4. Len(g) = n
  BY <1>1, GrownIs DEF IsGrown
<1>5. \A k \in 0 .. n : /\ WeightUpTo(v, k) \in Nat
                        /\ WeightUpTo(g, k) =
                             (WeightUpTo(v, k) + (IF i <= k THEN d ELSE 0))
                               - (IF j <= k THEN d ELSE 0)
  BY <1>1, WeightUpToIs, GrownSum
<1>6. /\ \A k \in 1 .. i - 1 : ~(b < WeightUpTo(v, k))
      /\ b < WeightUpTo(v, i) \/ i = n
  BY <1>1 DEF Falls
<1>7. ASSUME NEW k \in 1 .. i - 1 PROVE ~(b < WeightUpTo(g, k))
  <2>1. k \in 0 .. n /\ k < i
    BY <1>2
  <2>2. PICK x : x = WeightUpTo(v, k)
    OBVIOUS
  <2>3. x \in Nat /\ ~(b < x) /\ WeightUpTo(g, k) = x - (IF j <= k THEN d ELSE 0)
    <3>1. ~(i <= k)
      BY <1>2, <2>1
    <3>2. x \in Nat /\ WeightUpTo(g, k) = (x + 0) - (IF j <= k THEN d ELSE 0)
      BY <1>5, <2>1, <2>2, <3>1
    <3> QED
      BY <1>3, <1>6, <2>2, <3>2
  <2>4. (IF j <= k THEN d ELSE 0) \in Nat
    BY <1>3
  <2> QED
    BY <2>3, <2>4
<1>8. b < WeightUpTo(g, i) \/ i = n
  <2> SUFFICES ASSUME i # n PROVE b < WeightUpTo(g, i)
    OBVIOUS
  <2>1. PICK x : x = WeightUpTo(v, i)
    OBVIOUS
  <2>2. i \in 0 .. n /\ i <= i
    BY <1>2
  <2>3. x \in Nat /\ b < x /\ WeightUpTo(g, i) = (x + d) - (IF j <= i THEN d ELSE 0)
    BY <1>5, <1>6, <2>1, <2>2
  <2> QED
    BY <1>3, <2>3
<1> QED
  BY <1>1, <1>2, <1>4, <1>7, <1>8 DEF Falls

\* Weight that a variation gains from another one takes no context away from it
\* (internal/eval/bucket.go:17), for any rollout and any amount.
THEOREM GrowthKeepsContexts == Spec => []GrowthIsMonotone
<1>1. EvaluationInv => GrowthIsMonotone
  <2> SUFFICES ASSUME EvaluationInv, RolledOut, NoNegativeWeight, ListedOnce,
                      NEW i \in DOMAIN Weighted, NEW j \in DOMAIN Weighted,
                      NEW b \in 0 .. FullWeight, i # j,
                      NEW d \in 1 .. Weighted[j].weight,
                      ServedWith(b, Weighted) = Weighted[i].variation
               PROVE  ServedWith(b, Grown(Weighted, i, j, d)) = Weighted[i].variation
    BY DEF GrowthIsMonotone, Grown
  <2>1. PICK v, flag : v = Weighted /\ flag = world.flags[answer.flag]
    OBVIOUS
  <2>2. v \in Seq(Weights) /\ v # <<>>
    BY <2>1, RolledOutIs
  <2>3. b \in Nat
    <3>1. FullWeight \in Nat \ {0}
      BY EvaluationAssumption, Zenon
    <3> QED
      BY <3>1
  <2>4. i \in DOMAIN v /\ j \in DOMAIN v /\ DOMAIN v = 1 .. Len(v) /\ Len(v) \in Nat
    BY <2>1, <2>2
  <2>5. v[i].variation # None
    <3>1. v[i] \in Weights
      BY <2>2, <2>4
    <3> QED
      BY <3>1, NoneIs DEF Weights
  <2>6. InRange(flag, RolloutChoice(v, b)) /\ RolloutChoice(v, b) = v[i].variation
    BY <2>1, <2>2, <2>5, ServedWithIs
  <2>7. PICK k : Falls(v, b, k) /\ RolloutChoice(v, b) = v[k].variation
    BY <2>2, ChoiceIs, SMTT(30)
  <2>8. k \in DOMAIN v
    BY <2>4, <2>7 DEF Falls
  <2>9. k = i
    BY <2>1, <2>4, <2>6, <2>7, <2>8 DEF ListedOnce
  <2>10. PICK g : g = Grown(v, i, j, d)
    OBVIOUS
  <2>11. d \in 1 .. v[j].weight
    BY <2>1
  <2>12. g \in Seq(Weights) /\ Len(g) = Len(v) /\ g[i].variation = v[i].variation
    <3>1. IsGrown(g, v, i, j, d)
      BY <2>2, <2>4, <2>10, <2>11, GrownIs
    <3> QED
      BY <2>4, <3>1 DEF IsGrown
  <2>13. g # <<>>
    BY <2>2, <2>12
  <2>14. Falls(g, b, i)
    BY <2>2, <2>3, <2>4, <2>7, <2>9, <2>10, <2>11, GrowthKeeps
  <2>15. RolloutChoice(g, b) = v[i].variation
    BY <2>12, <2>13, <2>14, ChoiceIs
  <2>16. ServedWith(b, g) = v[i].variation
    BY <2>1, <2>6, <2>12, <2>13, <2>15, ServedWithIs
  <2> QED
    BY <2>1, <2>10, <2>16
<1> QED
  BY <1>1, InvHolds, PTL

\* The weight of a variation, as a sum over the list.
PartOf(v, u) == [k \in 1 .. Len(v) |-> IF v[k].variation = u THEN v[k].weight ELSE 0]

LEMMA WeightOfIs ==
  ASSUME NEW v \in Seq(Weights), NEW u
  PROVE  \E s \in Sums(Len(v), PartOf(v, u)) : WeightOf(v, u) = s[Len(v)]
<1> DEFINE n == Len(v)
           step(g, k) == IF k = 0 THEN 0
                         ELSE g[k - 1] + (IF v[k].variation = u THEN v[k].weight ELSE 0)
           sum == CHOOSE g : g = [k \in 0 .. n |-> step(g, k)]
<1>0. n \in Nat
  OBVIOUS
<1>1. PICK h : h = PartOf(v, u)
  OBVIOUS
<1>2. h \in [1 .. n -> Nat] /\ \A k \in 1 .. n : h[k] = IF v[k].variation = u THEN v[k].weight ELSE 0
  <2>1. \A k \in 1 .. n : v[k].weight \in Nat
    <3>1. \A k \in 1 .. n : v[k] \in Weights
      OBVIOUS
    <3> QED
      BY <3>1 DEF Weights
  <2> QED
    BY <1>1, <2>1 DEF PartOf
<1>3. PICK s : s \in Sums(n, h)
  BY <1>0, <1>2, SumDefined
<1>4. s \in [0 .. n -> Nat] /\ s[0] = 0 /\ \A k \in 1 .. n : s[k] = s[k - 1] + h[k]
  BY <1>3 DEF Sums
<1>5. s = [k \in 0 .. n |-> step(s, k)]
  <2>1. ASSUME NEW k \in 0 .. n PROVE s[k] = step(s, k)
    <3>1. k = 0 \/ k \in 1 .. n
      BY <1>0
    <3> QED
      BY <1>2, <1>4, <3>1
  <2> HIDE DEF step, n
  <2> QED
    BY <1>4, <2>1
<1>6. sum = [k \in 0 .. n |-> step(sum, k)]
  <2> HIDE DEF step, n
  <2> QED
    BY <1>5, Zenon
<1>7. WeightOf(v, u) = sum[n]
  BY DEF WeightOf
<1> HIDE DEF sum
<1>8. sum = s
  <2> HIDE DEF n
  <2>1. sum = [k \in 0 .. n |-> sum[k]] /\ s = [k \in 0 .. n |-> s[k]] /\ sum[0] = s[0]
    BY <1>0, <1>4, <1>6
  <2>2. ASSUME NEW k \in 1 .. n, sum[k - 1] = s[k - 1] PROVE sum[k] = s[k]
    <3>1. k \in 0 .. n /\ k # 0
      BY <1>0
    <3>2. sum[k] = step(sum, k) /\ s[k] = step(s, k)
      BY <1>5, <1>6, <3>1
    <3> QED
      BY <2>2, <3>1, <3>2
  <2>3. Alike(n, sum, s)
    BY <2>1, <2>2 DEF Alike
  <2> QED
    BY <1>0, <2>3, SameUpTo
<1> QED
  BY <1>1, <1>3, <1>7, <1>8

\* The sums of the weights never fall.
LEMMA WeightsGrow ==
  ASSUME NEW v \in Seq(Weights), NEW l \in 0 .. Len(v), NEW k \in 0 .. l
  PROVE  WeightUpTo(v, k) <= WeightUpTo(v, l)
<1>1. PICK n : n = Len(v)
  OBVIOUS
<1>2. n \in Nat /\ l \in 0 .. n
  BY <1>1
<1>3. /\ \A i \in 0 .. n : WeightUpTo(v, i) \in Nat
      /\ \A i \in 1 .. n : WeightUpTo(v, i) = WeightUpTo(v, i - 1) + v[i].weight
      /\ \A i \in 1 .. n : v[i].weight \in Nat
  <2>1. \A i \in 1 .. n : v[i] \in Weights
    BY <1>1
  <2>2. \A i \in 1 .. n : v[i].weight \in Nat
    BY <2>1 DEF Weights
  <2> QED
    BY <1>1, <2>2, WeightUpToIs
<1> DEFINE T == {i \in 0 .. n : \A m \in 0 .. i : WeightUpTo(v, m) <= WeightUpTo(v, i)}
<1>4. 0 \in T
  BY <1>2, <1>3
<1>5. ASSUME NEW i \in 0 .. n, i \in T, i < n PROVE i + 1 \in T
  <2>1. i + 1 \in 1 .. n /\ i + 1 \in 0 .. n /\ (i + 1) - 1 = i /\ i \in Nat
    BY <1>2, <1>5
  <2>2. PICK a, b, c : a = WeightUpTo(v, i) /\ b = WeightUpTo(v, i + 1) /\ c = v[i + 1].weight
    OBVIOUS
  <2>3. a \in Nat /\ c \in Nat /\ b = a + c
    BY <1>3, <2>1, <2>2
  <2>4. ASSUME NEW m \in 0 .. i + 1 PROVE WeightUpTo(v, m) <= b
    <3>1. CASE m = i + 1
      BY <2>2, <2>3, <3>1
    <3>2. CASE m \in 0 .. i
      <4>1. WeightUpTo(v, m) <= a /\ m \in 0 .. n
        <5>1. \A x \in 0 .. i : WeightUpTo(v, x) <= WeightUpTo(v, i)
          BY <1>5
        <5> QED
          BY <1>2, <2>1, <2>2, <3>2, <5>1
      <4>2. WeightUpTo(v, m) \in Nat
        BY <1>3, <4>1
      <4> QED
        BY <2>3, <4>1, <4>2
    <3> QED
      BY <2>1, <3>1, <3>2
  <2> QED
    BY <2>1, <2>2, <2>4
<1> HIDE DEF T
<1>6. \A i \in 0 .. n : i \in T
  BY <1>2, <1>4, <1>5, UpTo
<1> QED
  BY <1>2, <1>6 DEF T

\* The buckets below the sum of the first n weights that get variation u.
Getting(v, u, n) == {b \in 0 .. WeightUpTo(v, n) - 1 : RolloutChoice(v, b) = u}

LEMMA SharesStep ==
  ASSUME NEW v \in Seq(Weights), NEW u, NEW n \in 0 .. Len(v) - 1
  PROVE  Getting(v, u, n + 1) =
           Getting(v, u, n) \cup (IF v[n + 1].variation = u
                                  THEN WeightUpTo(v, n) .. WeightUpTo(v, n + 1) - 1 ELSE {})
<1>1. PICK m, lo, hi : m = Len(v) /\ lo = WeightUpTo(v, n) /\ hi = WeightUpTo(v, n + 1)
  OBVIOUS
<1>2. /\ m \in Nat /\ n \in Nat /\ n + 1 \in 1 .. m /\ n \in 0 .. m /\ n + 1 \in 0 .. m
      /\ n \in 0 .. n + 1 /\ v # <<>>
  BY <1>1
<1>3. lo \in Nat /\ hi \in Nat /\ lo <= hi
  BY <1>1, <1>2, WeightUpToIs, WeightsGrow
<1>4. ASSUME NEW b \in lo .. hi - 1 PROVE RolloutChoice(v, b) = v[n + 1].variation
  <2>1. ASSUME NEW k \in 1 .. (n + 1) - 1 PROVE ~(b < WeightUpTo(v, k))
    <3>1. k \in 0 .. n /\ k \in 0 .. m
      BY <1>2
    <3>2. WeightUpTo(v, k) <= lo /\ WeightUpTo(v, k) \in Nat
      BY <1>1, <1>2, <3>1, WeightsGrow, WeightUpToIs
    <3> QED
      BY <1>3, <3>2
  <2>2. b < hi
    BY <1>3
  <2>3. Falls(v, b, n + 1)
    BY <1>1, <1>2, <2>1, <2>2 DEF Falls
  <2> QED
    BY <1>2, <2>3, ChoiceIs
<1>5. 0 .. hi - 1 = (0 .. lo - 1) \cup (lo .. hi - 1)
  BY <1>3
<1>6. PICK A : A = {b \in 0 .. hi - 1 : RolloutChoice(v, b) = u}
  OBVIOUS
<1>7. A = {b \in 0 .. lo - 1 : RolloutChoice(v, b) = u}
            \cup (IF v[n + 1].variation = u THEN lo .. hi - 1 ELSE {})
  BY <1>4, <1>5, <1>6, Zenon
<1> QED
  BY <1>1, <1>6, <1>7 DEF Getting

LEMMA SharesAre ==
  ASSUME NEW v \in Seq(Weights), NEW u, v # <<>>
  PROVE  Cardinality(Getting(v, u, Len(v))) = WeightOf(v, u)
<1>1. PICK n : n = Len(v)
  OBVIOUS
<1>2. n \in Nat
  BY <1>1
<1>3. PICK h : h = PartOf(v, u)
  OBVIOUS
<1>4. PICK s \in Sums(n, h) : WeightOf(v, u) = s[n]
  BY <1>1, <1>3, WeightOfIs
<1>5. s \in [0 .. n -> Nat] /\ s[0] = 0 /\ \A k \in 1 .. n : s[k] = s[k - 1] + h[k]
  BY <1>4 DEF Sums
<1> DEFINE T == {k \in 0 .. n : /\ IsFiniteSet(Getting(v, u, k))
                                /\ Cardinality(Getting(v, u, k)) = s[k]}
<1>6. 0 \in T
  <2>1. WeightUpTo(v, 0) = 0
    BY WeightUpToIs
  <2>2. Getting(v, u, 0) = {}
    <3>1. 0 .. 0 - 1 = {}
      OBVIOUS
    <3> QED
      BY <2>1, <3>1 DEF Getting
  <2>3. 0 \in 0 .. n
    BY <1>2
  <2> QED
    BY <1>5, <2>2, <2>3, FS_EmptySet
<1>7. ASSUME NEW k \in 0 .. n, k \in T, k < n PROVE k + 1 \in T
  <2>1. k \in 0 .. Len(v) - 1 /\ k + 1 \in 1 .. n /\ (k + 1) - 1 = k /\ k + 1 \in 0 .. n
    BY <1>1, <1>2, <1>7
  <2>2. PICK lo, hi, c : lo = WeightUpTo(v, k) /\ hi = WeightUpTo(v, k + 1) /\ c = v[k + 1].weight
    OBVIOUS
  <2>3. lo \in Nat /\ hi = lo + c /\ c \in Nat
    <3>1. v[k + 1] \in Weights
      BY <1>1, <2>1
    <3>2. c \in Nat
      BY <2>2, <3>1 DEF Weights
    <3> QED
      BY <1>1, <2>1, <2>2, <3>2, WeightUpToIs
  <2>4. PICK G, J : /\ G = Getting(v, u, k)
                    /\ J = IF v[k + 1].variation = u THEN lo .. hi - 1 ELSE {}
    OBVIOUS
  <2>5. Getting(v, u, k + 1) = G \cup J
    BY <2>1, <2>2, <2>4, SharesStep
  <2>6. IsFiniteSet(G) /\ Cardinality(G) = s[k]
    BY <1>7, <2>4
  <2>7. IsFiniteSet(J) /\ Cardinality(J) = h[k + 1]
    <3>1. h[k + 1] = IF v[k + 1].variation = u THEN c ELSE 0
      BY <1>1, <1>3, <2>1, <2>2 DEF PartOf
    <3>2. lo \in Int /\ hi - 1 \in Int /\ (IF lo > hi - 1 THEN 0 ELSE (hi - 1) - lo + 1) = c
      BY <2>3
    <3>3. IsFiniteSet(lo .. hi - 1) /\ Cardinality(lo .. hi - 1) = c
      BY <3>2, FS_Interval
    <3> QED
      BY <2>4, <3>1, <3>3, FS_EmptySet
  <2>8. G \cap J = {}
    <3>1. \A b \in G : b < lo /\ b \in Int
      BY <2>2, <2>3, <2>4 DEF Getting
    <3>2. \A b \in J : ~(b < lo)
      BY <2>3, <2>4
    <3> QED
      BY <3>1, <3>2
  <2>9. Cardinality(G \cap J) = 0
    BY <2>8, FS_EmptySet
  <2>10. /\ IsFiniteSet(G \cup J)
         /\ Cardinality(G \cup J) = Cardinality(G) + Cardinality(J) - Cardinality(G \cap J)
    BY <2>6, <2>7, FS_Union
  <2>11. s[k + 1] = s[k] + h[k + 1] /\ s[k] \in Nat /\ s[k + 1] \in Nat
    BY <1>5, <2>1
  <2>12. Cardinality(G \cup J) = s[k + 1]
    <3>1. h[k + 1] \in Nat
      <4>1. h[k + 1] = IF v[k + 1].variation = u THEN c ELSE 0
        BY <1>1, <1>3, <2>1, <2>2 DEF PartOf
      <4> QED
        BY <2>3, <4>1
    <3> QED
      BY <2>6, <2>7, <2>9, <2>10, <2>11, <3>1
  <2> QED
    BY <2>1, <2>5, <2>10, <2>12
<1> HIDE DEF T
<1>8. \A k \in 0 .. n : k \in T
  BY <1>2, <1>6, <1>7, UpTo
<1>9. n \in T
  BY <1>2, <1>8
<1> QED
  BY <1>1, <1>4, <1>9 DEF T

\* In an accepted rollout each variation has as many hash values as its weights
\* say, for any list of weights (internal/eval/evaluate.go:86-96).
THEOREM WeightsAreServed == Spec => []WeightsAreShares
<1>1. EvaluationInv => WeightsAreShares
  <2> SUFFICES ASSUME EvaluationInv, RolledOut, NoNegativeWeight,
                      Validate(world.flags[answer.flag]), NEW u
               PROVE  Cardinality({b \in 0 .. FullWeight - 1 : ServedWith(b, Weighted) = u})
                        = WeightOf(Weighted, u)
    BY DEF WeightsAreShares
  <2>1. PICK flag, ro, v : /\ flag = world.flags[answer.flag] /\ ro = flag.fallthrough.rollout
                           /\ v = Weighted
    OBVIOUS
  <2>2. /\ flag \in Flags /\ ro \in Rollouts /\ ro # None /\ v \in Seq(Weights) /\ v # <<>>
        /\ ro.variations = v
    BY <2>1, RolledOutIs DEF Weighted
  <2>3. validateRollout(flag, ro)
    BY <2>1, <2>2 DEF Validate, validateFlagConfig
  <2>4. ASSUME NEW b PROVE ServedWith(b, v) = RolloutChoice(v, b)
    <3>1. InRange(flag, RolloutChoice(v, b))
      BY <2>2, <2>3, RolloutServes
    <3> QED
      BY <2>1, <2>2, <3>1, ServedWithIs
  <2>5. WeightUpTo(v, Len(v)) = FullWeight
    BY <2>2, <2>3 DEF validateRollout
  <2>6. {b \in 0 .. FullWeight - 1 : ServedWith(b, v) = u} = Getting(v, u, Len(v))
    BY <2>4, <2>5 DEF Getting
  <2> QED
    BY <2>1, <2>2, <2>6, SharesAre
<1> QED
  BY <1>1, InvHolds, PTL

-----------------------------------------------------------------------------
(***************************************************************************)
(* The two languages: operators.                                            *)
(***************************************************************************)
\* What an operator is applied to, on the common ground.
Scalar(x) == \/ \E y : x = [string |-> y]
             \/ \E y : x = [number |-> y]
             \/ \E y : x = [bool |-> y]
             \/ \E y : x = [null |-> y]

LEMMA TypesOf ==
  ASSUME NEW y
  PROVE  /\ \A t : Is([string |-> y], t) <=> t = "string"
         /\ \A t : Is([number |-> y], t) <=> t = "number"
         /\ \A t : Is([bool |-> y], t) <=> t = "bool"
         /\ \A t : Is([null |-> y], t) <=> t = "null"
         /\ \A t : Is([int |-> y], t) <=> t = "int"
         /\ \A t : Is([array |-> y], t) <=> t = "array"
         /\ [string |-> y].string = y /\ [number |-> y].number = y /\ [bool |-> y].bool = y
BY DEF Is

LEMMA ScalarTypes ==
  ASSUME NEW x, Scalar(x)
  PROVE  /\ ~Is(x, "int") /\ ~Is(x, "array")
         /\ \/ /\ Is(x, "string") /\ ~Is(x, "number") /\ ~Is(x, "bool") /\ ~Is(x, "null")
            \/ /\ Is(x, "number") /\ ~Is(x, "string") /\ ~Is(x, "bool") /\ ~Is(x, "null")
            \/ /\ Is(x, "bool") /\ ~Is(x, "string") /\ ~Is(x, "number") /\ ~Is(x, "null")
            \/ /\ Is(x, "null") /\ ~Is(x, "string") /\ ~Is(x, "number") /\ ~Is(x, "bool")
<1>1. ASSUME NEW y, x = [string |-> y] PROVE \A t : Is(x, t) <=> t = "string"
  BY <1>1, TypesOf
<1>2. ASSUME NEW y, x = [number |-> y] PROVE \A t : Is(x, t) <=> t = "number"
  BY <1>2, TypesOf
<1>3. ASSUME NEW y, x = [bool |-> y] PROVE \A t : Is(x, t) <=> t = "bool"
  BY <1>3, TypesOf
<1>4. ASSUME NEW y, x = [null |-> y] PROVE \A t : Is(x, t) <=> t = "null"
  BY <1>4, TypesOf
<1>5. \E s \in {"string", "number", "bool", "null"} : \A t : Is(x, t) <=> t = s
  BY <1>1, <1>2, <1>3, <1>4 DEF Scalar
<1>6. PICK s \in {"string", "number", "bool", "null"} : \A t : Is(x, t) <=> t = s
  BY <1>5
<1> HIDE DEF Is
<1> QED
  BY <1>6

LEMMA JsonIsScalar ==
  ASSUME NEW x \in JsonScalars
  PROVE  /\ Scalar(x)
         /\ Is(x, "string") => x.string \in STRING
         /\ Is(x, "null") => x.null = None
<1>1. CASE x \in [string : STRING]
  <2>1. PICK y \in STRING : x = [string |-> y]
    BY <1>1
  <2> QED
    BY <2>1, TypesOf DEF Scalar
<1>2. CASE x \in [number : Int]
  <2>1. PICK y \in Int : x = [number |-> y]
    BY <1>2
  <2> QED
    BY <2>1, TypesOf DEF Scalar
<1>3. CASE x \in [bool : BOOLEAN]
  <2>1. PICK y : x = [bool |-> y]
    <3>1. x = [bool |-> x.bool]
      BY <1>3
    <3> QED
      BY <3>1
  <2> QED
    BY <2>1, TypesOf DEF Scalar
<1>4. CASE x \in [null : {None}]
  <2>1. x = [null |-> None]
    BY <1>4
  <2> QED
    BY <2>1, TypesOf DEF Scalar
<1> QED
  BY <1>1, <1>2, <1>3, <1>4 DEF JsonScalars

\* Scalars are equal when they are of one type with one value.
LEMMA SameScalar ==
  ASSUME NEW a, Scalar(a), NEW c, Scalar(c), Is(a, "null") => a.null = None,
         Is(c, "null") => c.null = None
  PROVE  a = c <=> \/ BothStrings(a, c) /\ a.string = c.string
                   \/ Is(a, "number") /\ Is(c, "number") /\ a.number = c.number
                   \/ Is(a, "bool") /\ Is(c, "bool") /\ a.bool = c.bool
                   \/ Is(a, "null") /\ Is(c, "null")
<1>1. ASSUME a = c
      PROVE  \/ BothStrings(a, c) /\ a.string = c.string
             \/ Is(a, "number") /\ Is(c, "number") /\ a.number = c.number
             \/ Is(a, "bool") /\ Is(c, "bool") /\ a.bool = c.bool
             \/ Is(a, "null") /\ Is(c, "null")
  BY <1>1, ScalarTypes DEF BothStrings
<1>2. ASSUME NEW x, Scalar(x)
      PROVE  /\ Is(x, "string") => x = [string |-> x.string]
             /\ Is(x, "number") => x = [number |-> x.number]
             /\ Is(x, "bool") => x = [bool |-> x.bool]
             /\ Is(x, "null") => x = [null |-> x.null]
  <2>1. ASSUME NEW y, x = [string |-> y]
        PROVE  x = [string |-> x.string] /\ ~Is(x, "number") /\ ~Is(x, "bool") /\ ~Is(x, "null")
    BY <2>1, TypesOf
  <2>2. ASSUME NEW y, x = [number |-> y]
        PROVE  x = [number |-> x.number] /\ ~Is(x, "string") /\ ~Is(x, "bool") /\ ~Is(x, "null")
    BY <2>2, TypesOf
  <2>3. ASSUME NEW y, x = [bool |-> y]
        PROVE  x = [bool |-> x.bool] /\ ~Is(x, "string") /\ ~Is(x, "number") /\ ~Is(x, "null")
    BY <2>3, TypesOf
  <2>4. ASSUME NEW y, x = [null |-> y]
        PROVE  x = [null |-> x.null] /\ ~Is(x, "string") /\ ~Is(x, "number") /\ ~Is(x, "bool")
    BY <2>4, TypesOf
  <2> QED
    BY <1>2, <2>1, <2>2, <2>3, <2>4 DEF Scalar
<1>3. ASSUME BothStrings(a, c) /\ a.string = c.string PROVE a = c
  BY <1>2, <1>3 DEF BothStrings
<1>4. ASSUME Is(a, "number") /\ Is(c, "number") /\ a.number = c.number PROVE a = c
  BY <1>2, <1>4
<1>5. ASSUME Is(a, "bool") /\ Is(c, "bool") /\ a.bool = c.bool PROVE a = c
  BY <1>2, <1>5
<1>6. ASSUME Is(a, "null") /\ Is(c, "null") PROVE a = c
  BY <1>2, <1>6
<1> QED
  BY <1>1, <1>3, <1>4, <1>5, <1>6, Zenon

\* Operators do the same in both languages, where the texts are parsed alike.
LEMMA MatchSame ==
  ASSUME NEW op, NEW a, Scalar(a), Is(a, "null") => a.null = None, NEW c \in JsonScalars,
         SameReading(op, a), SameReading(op, c),
         op = "matches" /\ Is(c, "string") => Matches[c.string] = JsMatches[c.string],
         op \in StringOps \cup TimeOps \cup NumberOps => ~Is(c, "null"),
         op \in NumberOps => ~Is(c, "string")
  PROVE  matchOperator(op, a, c) <=> matchSingle(op, a, c)
<1>1. Scalar(c) /\ (Is(c, "null") => c.null = None) /\ (Is(c, "string") => c.string \in STRING)
  BY JsonIsScalar
<1>2. ~Is(a, "int") /\ ~Is(a, "array") /\ ~Is(c, "int") /\ ~Is(c, "array")
  BY <1>1, ScalarTypes
<1>3. CASE op = "in"
  <2>1. matchOperator(op, a, c) <=> a = c
    BY <1>2, <1>3
       DEF matchOperator, jsonValuesEqual, StringOps, NumberOps, TimeOps, SemVerOps
  <2>2. /\ IsNumber(a) <=> Is(a, "number")
        /\ IsNumber(c) <=> Is(c, "number")
        /\ Is(a, "number") => NumberOf(a) = a.number
        /\ Is(c, "number") => NumberOf(c) = c.number
    BY <1>2 DEF IsNumber, NumberOf
  <2>3. matchSingle(op, a, c) <=> \/ BothStrings(a, c) /\ a.string = c.string
                                  \/ IsNumber(a) /\ IsNumber(c) /\ NumberOf(a) = NumberOf(c)
                                  \/ Is(a, "bool") /\ Is(c, "bool") /\ a.bool = c.bool
                                  \/ Is(a, "null") /\ Is(c, "null")
    BY <1>3 DEF matchSingle, StringOps, NumberOps, TimeOps, SemVerOps
  <2> QED
    BY <1>1, <2>1, <2>2, <2>3, SameScalar
<1>4. CASE op \in StringOps
  <2>1. matchOperator(op, a, c) <=> matchStringOp(op, a, c)
    BY <1>4 DEF matchOperator, StringOps, NumberOps, TimeOps, SemVerOps
  <2>2. matchSingle(op, a, c) <=> BothStrings(a, c) /\ tsHolds(op, a.string, c.string)
    BY <1>4 DEF matchSingle, StringOps, NumberOps, TimeOps, SemVerOps
  <2>3. CASE Is(c, "string")
    <3>1. AsString(c) = c.string /\ c.string # None
      BY <1>1, <2>3, ScalarTypes, NoneIs DEF AsString
    <3>2. tsHolds(op, a.string, c.string) <=> Holds(op, a.string, c.string)
      BY <2>3 DEF tsHolds, Holds
    <3> QED
      BY <2>1, <2>2, <2>3, <3>1, <3>2 DEF matchStringOp, BothStrings
  <2>4. CASE ~Is(c, "string")
    <3>1. AsString(c) = None
      BY <1>4, <2>4 DEF AsString
    <3> QED
      BY <2>1, <2>2, <2>4, <3>1 DEF matchStringOp, BothStrings
  <2> QED
    BY <2>3, <2>4
<1>5. CASE op \in NumberOps
  <2>1. matchOperator(op, a, c) <=> BothCompare(op, toFloat64(a), AsNumber(c))
    BY <1>5 DEF matchOperator, matchNumeric, StringOps, NumberOps, TimeOps, SemVerOps
  <2>2. matchSingle(op, a, c) <=> BothCompare(op, tsToFloat64(a), tsToFloat64(c))
    BY <1>5 DEF matchSingle, StringOps, NumberOps, TimeOps, SemVerOps
  <2>3. toFloat64(a) = tsToFloat64(a)
    BY <1>2, <1>5, ScalarTypes DEF toFloat64, tsToFloat64, IsNumber, NumberOf, SameReading
  <2>4. AsNumber(c) = tsToFloat64(c)
    BY <1>1, <1>2, <1>5, ScalarTypes DEF AsNumber, tsToFloat64, IsNumber, NumberOf
  <2> QED
    BY <2>1, <2>2, <2>3, <2>4
<1>6. CASE op \in TimeOps
  <2>1. matchOperator(op, a, c) <=> BothCompare(op, parseTime(a), parseTimeFromJSON(c))
    BY <1>6 DEF matchOperator, matchDatetime, StringOps, NumberOps, TimeOps, SemVerOps
  <2>2. matchSingle(op, a, c) <=> BothCompare(op, tsParseTime(a), tsParseTime(c))
    BY <1>6 DEF matchSingle, StringOps, NumberOps, TimeOps, SemVerOps
  <2>3. parseTime(a) = tsParseTime(a)
    BY <1>2, <1>6, ScalarTypes DEF parseTime, tsParseTime, IsNumber, NumberOf, SameReading, IsWhole
  <2>4. parseTimeFromJSON(c) = tsParseTime(c)
    BY <1>1, <1>2, <1>6, ScalarTypes
       DEF parseTimeFromJSON, AsNumber, tsParseTime, IsNumber, NumberOf, SameReading, IsWhole
  <2> QED
    BY <2>1, <2>2, <2>3, <2>4
<1>7. CASE op \in SemVerOps
  <2>1. matchOperator(op, a, c) <=> matchSemVer(op, a, c)
    BY <1>7 DEF matchOperator, StringOps, NumberOps, TimeOps, SemVerOps
  <2>2. matchSingle(op, a, c) <=>
          BothStrings(a, c) /\ BothCompare(op, JsSemVer[a.string], JsSemVer[c.string])
    BY <1>7 DEF matchSingle, StringOps, NumberOps, TimeOps, SemVerOps
  <2>3. CASE Is(c, "string")
    <3>1. AsString(c) = c.string /\ c.string # None
      BY <1>1, <2>3, ScalarTypes, NoneIs DEF AsString
    <3>2. SemVer[c.string] = JsSemVer[c.string]
      BY <1>7, <2>3 DEF SameReading
    <3>3. Is(a, "string") => SemVer[a.string] = JsSemVer[a.string]
      BY <1>7 DEF SameReading
    <3> QED
      BY <2>1, <2>2, <2>3, <3>1, <3>2, <3>3 DEF matchSemVer, BothStrings
  <2>4. CASE ~Is(c, "string")
    <3>1. AsString(c) = None \/ AsString(c) = ""
      BY <2>4 DEF AsString
    <3>2. SemVer[""] = None
      BY EvaluationAssumption, Zenon
    <3>3. ~matchSemVer(op, a, c)
      BY <3>1, <3>2 DEF matchSemVer, BothCompare
    <3> QED
      BY <2>1, <2>2, <2>4, <3>3 DEF BothStrings
  <2> QED
    BY <2>3, <2>4
<1>8. CASE op # "in" /\ op \notin StringOps \cup NumberOps \cup TimeOps \cup SemVerOps
  BY <1>8 DEF matchOperator, matchSingle
<1> QED
  BY <1>3, <1>4, <1>5, <1>6, <1>7, <1>8

-----------------------------------------------------------------------------
(***************************************************************************)
(* The two languages: attributes, buckets, clauses and segments.            *)
(***************************************************************************)
LEMMA AttributeSame ==
  ASSUME NEW w, CommonGround(w), NEW name
  PROVE  tsGetAttribute(w.ctx, name) = GetAttribute(w.ctx, name)
<1>1. w.ctx.kind # None
  BY DEF CommonGround
<1> QED
  BY <1>1 DEF tsGetAttribute, GetAttribute

\* No null and no integer, and parts that operators take.
Regular(x) ==
  /\ ~Is(x, "null") /\ ~Is(x, "int") /\ (Is(x, "string") => ~Is(x, "number"))
  /\ \A y \in Parts(x) : Scalar(y) /\ (Is(y, "null") => y.null = None)

LEMMA GoScalarIs ==
  ASSUME NEW y \in GoScalars, ~Is(y, "int")
  PROVE  y \in JsonScalars
<1> SUFFICES ASSUME y \in [int : Int] PROVE FALSE
  BY DEF GoScalars
<1>1. PICK n : y = [int |-> n]
  BY Zenon
<1> QED
  BY <1>1, TypesOf

LEMMA AttributeIs ==
  ASSUME NEW w, IsWorld(w), CommonGround(w), NEW name, GetAttribute(w.ctx, name) # None
  PROVE  Regular(GetAttribute(w.ctx, name))
<1>1. ASSUME NEW y, NEW x \in {[string |-> y], [bool |-> y]} PROVE Regular(x)
  <2>1. ~Is(x, "array") /\ ~Is(x, "null") /\ ~Is(x, "int") /\ ~Is(x, "number")
    <3>1. CASE x = [string |-> y]
      BY <3>1, TypesOf
    <3>2. CASE x = [bool |-> y]
      BY <3>2, TypesOf
    <3> QED
      BY <3>1, <3>2
  <2>2. Scalar(x)
    BY DEF Scalar
  <2>3. Parts(x) = {x}
    BY <2>1 DEF Parts
  <2> QED
    BY <2>1, <2>2, <2>3 DEF Regular
<1>2. ASSUME name \in DOMAIN w.ctx.attributes PROVE Regular(w.ctx.attributes[name])
  <2>1. PICK x : x = w.ctx.attributes[name]
    OBVIOUS
  <2>2. x \in Attributes /\ SameAttribute(x)
    BY <1>2, <2>1 DEF IsWorld, CommonGround
  <2>3. CASE x \in GoScalars
    <3>1. ~Is(x, "array")
      <4>1. CASE x \in JsonScalars
        BY <4>1, JsonIsScalar, ScalarTypes
      <4>2. CASE x \in [int : Int]
        <5>1. PICK n : x = [int |-> n]
          BY <4>2, Zenon
        <5> QED
          BY <5>1, TypesOf
      <4> QED
        BY <2>3, <4>1, <4>2 DEF GoScalars
    <3>2. Parts(x) = {x}
      BY <3>1 DEF Parts
    <3>3. ~Is(x, "null") /\ ~Is(x, "int")
      BY <2>2, <3>2 DEF SameAttribute
    <3>4. x \in JsonScalars
      BY <2>3, <3>3, GoScalarIs
    <3> QED
      BY <2>1, <3>2, <3>3, <3>4, JsonIsScalar, ScalarTypes DEF Regular
  <2>4. CASE x \in [array : Seq(GoScalars)]
    <3>1. PICK s \in Seq(GoScalars) : x = [array |-> s]
      BY <2>4
    <3>2. /\ Is(x, "array") /\ ~Is(x, "null") /\ ~Is(x, "int") /\ ~Is(x, "string")
          /\ x.array = s
      BY <3>1, TypesOf
    <3>3. Parts(x) = Range(s)
      BY <3>2 DEF Parts
    <3>4. ASSUME NEW y \in Parts(x) PROVE Scalar(y) /\ (Is(y, "null") => y.null = None)
      <4>1. y \in GoScalars
        BY <3>3 DEF Range
      <4>2. ~Is(y, "int")
        BY <2>2 DEF SameAttribute
      <4> QED
        BY <4>1, <4>2, GoScalarIs, JsonIsScalar
    <3> QED
      BY <2>1, <3>2, <3>4 DEF Regular
  <2> QED
    BY <2>2, <2>3, <2>4 DEF Attributes
<1> QED
  BY <1>1, <1>2 DEF GetAttribute, String

LEMMA BucketSame ==
  ASSUME NEW w, IsWorld(w), CommonGround(w), NEW bucketBy, NEW key, NEW salt, NEW seed
  PROVE  computeBucket(w, bucketBy, key, salt, seed) = ComputeBucket(w, bucketBy, key, salt, seed)
<1>1. PICK x : x = GetAttribute(w.ctx, OrKey(bucketBy))
  OBVIOUS
<1>2. x = tsGetAttribute(w.ctx, OrKey(bucketBy))
  BY <1>1, AttributeSame
<1>3. x # None => Regular(x)
  BY <1>1, AttributeIs
<1>4. Regular(x) => ~IsMissing(x) \/ x = None
  BY DEF Regular, IsMissing
<1>5. Regular(x) => tsStringifyBucketValue(x) = stringifyBucketValue(x)
  <2> SUFFICES ASSUME Regular(x) PROVE tsStringifyBucketValue(x) = stringifyBucketValue(x)
    OBVIOUS
  <2>1. ~Is(x, "int")
    BY DEF Regular
  <2>2. IsNumber(x) <=> Is(x, "number")
    BY <2>1 DEF IsNumber
  <2>3. CASE Is(x, "string")
    <3>1. ~Is(x, "number")
      BY <2>3 DEF Regular
    <3> QED
      BY <2>1, <2>2, <2>3, <3>1 DEF tsStringifyBucketValue, stringifyBucketValue
  <2>4. CASE ~Is(x, "string")
    BY <2>1, <2>2, <2>4 DEF tsStringifyBucketValue, stringifyBucketValue, NumberOf
  <2> QED
    BY <2>3, <2>4
<1> QED
  BY <1>1, <1>2, <1>3, <1>4, <1>5 DEF computeBucket, ComputeBucket, BucketId, IsMissing

LEMMA ClauseSame ==
  ASSUME NEW w, IsWorld(w), CommonGround(w), NEW c \in Clauses, SameClause(w, c), NEW in
  PROVE  tsClauseMatchesIn(w, c, in) = clauseMatchesIn(w, c, in)
<1> DEFINE attr == GetAttribute(w.ctx, c.attribute)
           V    == Range(c.values)
           goes == {AsString(v) : v \in V} \cap DOMAIN w.segments
           tsgo == {SegmentKey(v) : v \in V} \cap DOMAIN w.segments
<1>1. V \subseteq JsonScalars
  <2>1. c.values \in Seq(JsonScalars)
    BY DEF Clauses
  <2> QED
    BY <2>1 DEF Range
<1>2. attr = tsGetAttribute(w.ctx, c.attribute)
  BY AttributeSame
<1>3. c.op = "segmentMatch" => goes = tsgo
  <2> SUFFICES ASSUME c.op = "segmentMatch" PROVE goes = tsgo
    OBVIOUS
  <2>1. DOMAIN w.segments \subseteq STRING \ {""}
    BY DEF IsWorld
  <2>2. ASSUME NEW v \in V
        PROVE  /\ Is(v, "string") => AsString(v) = SegmentKey(v)
               /\ ~Is(v, "string") => /\ AsString(v) \notin DOMAIN w.segments
                                      /\ SegmentKey(v) \notin DOMAIN w.segments
    <3>1. Is(v, "string") => ~Is(v, "null")
      BY <1>1, JsonIsScalar, ScalarTypes
    <3>2. ~Is(v, "string") => AsString(v) \in {"", None}
      BY DEF AsString
    <3>3. ~Is(v, "string") => SegmentKey(v) \notin DOMAIN w.segments
      BY DEF SameClause, SameValue, SegmentKey
    <3> QED
      BY <2>1, <3>1, <3>2, <3>3, NoneIs DEF AsString, SegmentKey
  <2> HIDE DEF V
  <2>3. goes \subseteq tsgo
    BY <2>2
  <2>4. tsgo \subseteq goes
    BY <2>2
  <2> QED
    BY <2>3, <2>4
<1>4. ASSUME attr # None, NEW a \in Parts(attr), NEW v \in V, c.op # "segmentMatch"
      PROVE  matchSingle(c.op, a, v) <=> matchOperator(c.op, a, v)
  <2>1. Scalar(a) /\ (Is(a, "null") => a.null = None)
    BY <1>4, AttributeIs DEF Regular
  <2>2. SameReading(c.op, a) /\ SameReading(c.op, v)
    BY <1>4 DEF SameClause
  <2>3. /\ c.op \in StringOps \cup TimeOps \cup NumberOps => ~Is(v, "null")
        /\ c.op \in NumberOps => ~Is(v, "string")
    BY <1>4 DEF SameClause
  <2>4. v \in JsonScalars
    BY <1>1
  <2>5. c.op = "matches" /\ Is(v, "string") => Matches[v.string] = JsMatches[v.string]
    BY <1>4 DEF SameClause, SameValue
  <2> HIDE DEF V, attr
  <2> QED
    BY <2>1, <2>2, <2>3, <2>4, <2>5, MatchSame
<1>5. attr # None => ~IsMissing(attr)
  BY AttributeIs DEF IsMissing, Regular
<1>6. clauseMatchesIn(w, c, in) =
        IF c.op = "segmentMatch" THEN (\E s \in goes : in[s]) # c.negate
        ELSE attr # None /\ (\E a \in Parts(attr), v \in V : matchOperator(c.op, a, v)) # c.negate
  BY DEF clauseMatchesIn, Parts
<1>7. tsClauseMatchesIn(w, c, in) =
        IF c.op = "segmentMatch" THEN (\E s \in tsgo : in[s]) # c.negate
        ELSE ~IsMissing(attr)
             /\ (\E a \in Parts(attr), v \in V : matchSingle(c.op, a, v)) # c.negate
  BY <1>2 DEF tsClauseMatchesIn, Parts
<1> HIDE DEF attr, V, goes, tsgo
<1>8. CASE c.op = "segmentMatch"
  BY <1>3, <1>6, <1>7, <1>8
<1>9. CASE c.op # "segmentMatch" /\ attr = None
  <2>1. IsMissing(attr)
    BY <1>9 DEF IsMissing
  <2> QED
    BY <1>6, <1>7, <1>9, <2>1
<1>10. CASE c.op # "segmentMatch" /\ attr # None
  <2>1. (\E a \in Parts(attr), v \in V : matchSingle(c.op, a, v))
          <=> (\E a \in Parts(attr), v \in V : matchOperator(c.op, a, v))
    BY <1>4, <1>10
  <2>2. PICK x, y : /\ x = (\E a \in Parts(attr), v \in V : matchSingle(c.op, a, v))
                    /\ y = (\E a \in Parts(attr), v \in V : matchOperator(c.op, a, v))
    OBVIOUS
  <2>3. x = y
    BY <2>1, <2>2, Zenon
  <2>4. clauseMatchesIn(w, c, in) = (y # c.negate)
    BY <1>6, <1>10, <2>2, Zenon
  <2>5. tsClauseMatchesIn(w, c, in) = (x # c.negate)
    BY <1>5, <1>7, <1>10, <2>2, Zenon
  <2> QED
    BY <2>3, <2>4, <2>5
<1> QED
  BY <1>8, <1>9, <1>10

\* Weights are on the last rule only, so that the first rule that matches
\* decides like all of them.
LEMMA SegmentSame ==
  ASSUME NEW w, IsWorld(w), CommonGround(w), NEW s \in DOMAIN w.segments, NEW in
  PROVE  tsSegmentMatchesIn(w, s, in) = segmentMatchesIn(w, s, in)
<1> DEFINE seg   == w.segments[s]
           rules == seg.rules
           T     == {i \in DOMAIN rules : \A j \in DOMAIN rules[i].clauses :
                       clauseMatchesIn(w, rules[i].clauses[j], in)}
           Light(i) == \/ rules[i].weight = None
                       \/ ComputeBucket(w, rules[i].bucketBy, s, seg.salt, None) < rules[i].weight
<1>1. seg \in Segments /\ SameSegment(w, seg)
  BY DEF IsWorld, CommonGround
<1>2. PICK n : n = Len(rules)
  OBVIOUS
<1>3. DOMAIN rules = 1 .. n /\ n \in Nat
  BY <1>1, <1>2 DEF Segments
<1>4. ASSUME NEW i \in DOMAIN rules
      PROVE  /\ rules[i].clauses # <<>> /\ (rules[i].weight # None => i = n /\ rules[i].bucketBy = "")
             /\ \A j \in DOMAIN rules[i].clauses :
                  rules[i].clauses[j] \in Clauses /\ SameClause(w, rules[i].clauses[j])
  <2>1. PICK R : R = [clauses : Seq(Clauses), weight : Int \cup {None}, bucketBy : STRING]
    OBVIOUS
  <2>2. rules \in Seq(R)
    BY <1>1, <2>1 DEF Segments
  <2>3. rules[i] \in R
    BY <2>2
  <2>4. rules[i].clauses \in Seq(Clauses)
    BY <2>1, <2>3
  <2>5. \A j \in DOMAIN rules[i].clauses : rules[i].clauses[j] \in Clauses
    BY <2>4
  <2>6. /\ rules[i].clauses # <<>> /\ (rules[i].weight # None => i = n /\ rules[i].bucketBy = "")
        /\ \A j \in DOMAIN rules[i].clauses : SameClause(w, rules[i].clauses[j])
    BY <1>1, <1>2 DEF SameSegment
  <2> QED
    BY <2>5, <2>6
<1>5. ASSUME NEW i \in DOMAIN rules
      PROVE  segmentRuleMatches(w, s, rules[i], in) <=> i \in T /\ Light(i)
  <2>1. \A j \in DOMAIN rules[i].clauses :
          tsClauseMatchesIn(w, rules[i].clauses[j], in) = clauseMatchesIn(w, rules[i].clauses[j], in)
    BY <1>4, ClauseSame
  <2>2. rules[i].weight # None =>
          computeBucket(w, "key", s, seg.salt, None)
            = ComputeBucket(w, rules[i].bucketBy, s, seg.salt, None)
    <3>1. OrKey("key") = "key" /\ OrKey("") = "key"
      BY DEF OrKey
    <3>2. ComputeBucket(w, "key", s, seg.salt, None) = ComputeBucket(w, "", s, seg.salt, None)
      BY <3>1 DEF ComputeBucket, BucketId
    <3>3. computeBucket(w, "key", s, seg.salt, None) = ComputeBucket(w, "key", s, seg.salt, None)
      BY BucketSame
    <3> QED
      BY <1>4, <3>2, <3>3
  <2>3. segmentRuleMatches(w, s, rules[i], in) <=>
          /\ rules[i].clauses # <<>>
          /\ \A j \in DOMAIN rules[i].clauses : tsClauseMatchesIn(w, rules[i].clauses[j], in)
          /\ \/ rules[i].weight = None
             \/ computeBucket(w, "key", s, seg.salt, None) < rules[i].weight
    BY DEF segmentRuleMatches
  <2>4. rules[i].clauses # <<>>
    BY <1>4
  <2>5. i \in T <=> \A j \in DOMAIN rules[i].clauses : tsClauseMatchesIn(w, rules[i].clauses[j], in)
    BY <2>1
  <2> HIDE DEF T, rules, seg
  <2> QED
    BY <2>2, <2>3, <2>4, <2>5
<1>6. T \subseteq 1 .. n
  BY <1>3
<1>7. PICK first : first = First(T)
  OBVIOUS
<1>8. segmentMatchesIn(w, s, in) = (/\ w.ctx.key \notin seg.excluded
                                    /\ \/ w.ctx.key \in seg.included
                                       \/ first # None /\ Light(first))
  BY <1>7 DEF segmentMatchesIn
<1>9. tsSegmentMatchesIn(w, s, in) = (/\ w.ctx.key \notin seg.excluded
                                      /\ \/ w.ctx.key \in seg.included
                                         \/ \E i \in DOMAIN rules : segmentRuleMatches(w, s, rules[i], in))
  BY DEF tsSegmentMatchesIn
<1>10. \A i \in DOMAIN rules : i # n => Light(i)
  BY <1>4
<1> HIDE DEF T, Light, rules, seg
<1>11. /\ T = {} => first = None
       /\ T # {} => first \in T /\ first # None /\ \A i \in T : first <= i
  <2>1. T \subseteq Nat
    BY <1>6
  <2> QED
    BY <1>7, <2>1, FirstIs
<1>12. (first # None /\ Light(first)) <=> \E i \in DOMAIN rules : segmentRuleMatches(w, s, rules[i], in)
  <2>1. ASSUME first # None, Light(first)
        PROVE  \E i \in DOMAIN rules : segmentRuleMatches(w, s, rules[i], in)
    BY <1>3, <1>5, <1>6, <1>11, <2>1
  <2>2. ASSUME NEW i \in DOMAIN rules, segmentRuleMatches(w, s, rules[i], in)
        PROVE  first # None /\ Light(first)
    <3>1. i \in T /\ Light(i)
      BY <1>5, <2>2
    <3>2. first \in T /\ first # None /\ first <= i
      BY <1>11, <3>1
    <3>3. first = i \/ first # n
      BY <1>3, <1>6, <3>2
    <3>4. first \in DOMAIN rules
      BY <1>3, <1>6, <3>2
    <3> QED
      BY <1>10, <3>1, <3>2, <3>3, <3>4
  <2> QED
    BY <2>1, <2>2
<1> QED
  BY <1>8, <1>9, <1>12

LEMMA SegmentsSame ==
  ASSUME NEW w, IsWorld(w), CommonGround(w)
  PROVE  tsSegmentMatches(w) = segmentMatches(w)
<1> DEFINE Go(s, in) == segmentMatchesIn(w, s, in)
           Ts(s, in) == tsSegmentMatchesIn(w, s, in)
           D == DOMAIN w.segments
<1>1. \A in : \A s \in D : Ts(s, in) = Go(s, in)
  BY SegmentSame
<1>2. segmentMatches(w) = CHOOSE in : in = [s \in D |-> Go(s, in)]
  BY DEF segmentMatches
<1>3. tsSegmentMatches(w) = CHOOSE in : in = [s \in D |-> Ts(s, in)]
  BY DEF tsSegmentMatches
<1> HIDE DEF Go, Ts, D
<1>4. \A in : [s \in D |-> Ts(s, in)] = [s \in D |-> Go(s, in)]
  BY <1>1
<1>5. (CHOOSE in : in = [s \in D |-> Ts(s, in)]) = (CHOOSE in : in = [s \in D |-> Go(s, in)])
  BY <1>4, Zenon
<1> QED
  BY <1>2, <1>3, <1>5

LEMMA RuleSame ==
  ASSUME NEW w, IsWorld(w), CommonGround(w), NEW f \in DOMAIN w.flags,
         NEW i \in DOMAIN w.flags[f].rules
  PROVE  tsRuleMatches(w, w.flags[f].rules[i]) <=> ruleMatches(w, w.flags[f].rules[i])
<1>1. PICK rule : rule = w.flags[f].rules[i]
  OBVIOUS
<1>2. w.flags[f] \in Flags
  BY DEF IsWorld
<1>3. \A j \in DOMAIN rule.clauses : rule.clauses[j] \in Clauses
  <2>1. PICK R : R = [id : STRING, clauses : Seq(Clauses), variation : Indices,
                      rollout : Rollouts \cup {None}]
    OBVIOUS
  <2>2. w.flags[f].rules \in Seq(R)
    BY <1>2, <2>1 DEF Flags
  <2>3. rule \in R
    BY <1>1, <2>2
  <2>4. rule.clauses \in Seq(Clauses)
    BY <2>1, <2>3
  <2> QED
    BY <2>4
<1>4. \A j \in DOMAIN rule.clauses : SameClause(w, rule.clauses[j])
  BY <1>1 DEF CommonGround
<1>5. \A j \in DOMAIN rule.clauses :
        tsClauseMatches(w, rule.clauses[j]) = clauseMatches(w, rule.clauses[j])
  BY <1>3, <1>4, SegmentsSame, ClauseSame DEF tsClauseMatches, clauseMatches
<1> QED
  BY <1>1, <1>5 DEF tsRuleMatches, ruleMatches

-----------------------------------------------------------------------------
(***************************************************************************)
(* The two languages: evaluation.                                           *)
(***************************************************************************)
LEMMA ResolveSame ==
  ASSUME NEW w, IsWorld(w), CommonGround(w), NEW f, NEW vr, NEW reason
  PROVE  resolveRollout(w, f, vr, reason) = resolveVariationOrRollout(w, f, vr, reason)
<1>1. PICK ro, salt : ro = vr.rollout /\ salt = w.flags[f].salt
  OBVIOUS
<1>2. computeBucket(w, ro.bucketBy, f, salt, ro.seed) = ComputeBucket(w, ro.bucketBy, f, salt, ro.seed)
  BY BucketSame
<1> QED
  BY <1>1, <1>2 DEF resolveRollout, resolveVariationOrRollout

LEMMA OutcomeSame ==
  ASSUME NEW w, IsWorld(w), CommonGround(w), NEW f \in DOMAIN w.flags
  PROVE  tsOutcome(w, f) = Outcome(w, f)
<1> DEFINE flag == w.flags[f]
           ts   == {i \in DOMAIN flag.rules : tsRuleMatches(w, flag.rules[i])}
           go   == {i \in DOMAIN flag.rules : ruleMatches(w, flag.rules[i])}
<1>1. ts = go
  BY RuleSame
<1>2. \A vr, reason :
        resolveRollout(w, f, vr, reason) = resolveVariationOrRollout(w, f, vr, reason)
  BY ResolveSame
<1>3. tsOutcome(w, f) =
        CASE FirstTarget(w, flag) # None ->
               variationResult(flag, flag.targets[FirstTarget(w, flag)].variation,
                               Reason("TARGET_MATCH"))
          [] FirstTarget(w, flag) = None /\ First(ts) # None ->
               resolveRollout(w, f, flag.rules[First(ts)],
                              [Reason("RULE_MATCH") EXCEPT !.rule = First(ts)])
          [] OTHER -> resolveRollout(w, f, flag.fallthrough, Reason("FALLTHROUGH"))
  BY DEF tsOutcome
<1>4. Outcome(w, f) =
        CASE FirstTarget(w, flag) # None ->
               variationResult(flag, flag.targets[FirstTarget(w, flag)].variation,
                               Reason("TARGET_MATCH"))
          [] FirstTarget(w, flag) = None /\ First(go) # None ->
               resolveVariationOrRollout(w, f, flag.rules[First(go)],
                                         [Reason("RULE_MATCH") EXCEPT !.rule = First(go)])
          [] OTHER -> resolveVariationOrRollout(w, f, flag.fallthrough, Reason("FALLTHROUGH"))
  BY SMTT(30) DEF Outcome
<1> HIDE DEF flag, ts, go
<1> QED
  BY <1>1, <1>2, <1>3, <1>4

LEMMA TsCallIs ==
  ASSUME NEW w, IsWorld(w), CommonGround(w), NEW depth, NEW deeper,
         NEW f \in DOMAIN w.flags, NEW visited \in SUBSET DOMAIN w.flags
  PROVE  tsEvaluateAt(w, depth, deeper)[f][visited] =
           CASE ~w.flags[f].on -> offResult(w.flags[f], Reason("OFF"))
             [] w.flags[f].on /\ (depth > MaxPrerequisiteDepth \/ f \in visited) ->
                  offResult(w.flags[f], Error("MALFORMED_FLAG"))
             [] OTHER -> AfterPrereqs(w, f, First(Failing(w, deeper, f, visited)), Outcome(w, f))
<1>1. tsOutcome(w, f) = Outcome(w, f)
  BY OutcomeSame
<1> QED
  BY <1>1 DEF tsEvaluateAt, Failing, AfterPrereqs

LEMMA TsCallType ==
  ASSUME NEW w, IsWorld(w), CommonGround(w), NEW depth, NEW deeper
  PROVE  tsEvaluateAt(w, depth, deeper) \in Calls(w)
<1>1. ASSUME NEW f \in DOMAIN w.flags, NEW visited \in SUBSET DOMAIN w.flags
      PROVE  tsEvaluateAt(w, depth, deeper)[f][visited] \in Answers(w.flags[f])
  <2>1. w.flags[f] \in Flags
    BY DEF IsWorld
  <2>2. Reason("OFF") \in Reasons /\ Error("MALFORMED_FLAG") \in Reasons
    BY ReasonType, ErrorType DEF Kinds
  <2>3. /\ offResult(w.flags[f], Reason("OFF")) \in Answers(w.flags[f])
        /\ offResult(w.flags[f], Error("MALFORMED_FLAG")) \in Answers(w.flags[f])
    BY <2>1, <2>2, OffResultType
  <2>4. PICK T : T = Failing(w, deeper, f, visited)
    OBVIOUS
  <2>5. AfterPrereqs(w, f, First(T), Outcome(w, f)) \in Answers(w.flags[f])
    <3>1. T \in SUBSET DOMAIN w.flags[f].prereqs
      BY <2>4 DEF Failing
    <3> QED
      BY <2>1, <3>1, OutcomeType, PrerequisiteFailedType, SMTT(30)
  <2> QED
    BY <2>3, <2>4, <2>5, TsCallIs
<1>2. \A f \in DOMAIN w.flags : Answers(w.flags[f]) \subseteq Results
  BY SMTT(30) DEF Answers
<1>3. tsEvaluateAt(w, depth, deeper) =
        [f \in DOMAIN w.flags |-> [visited \in SUBSET DOMAIN w.flags |->
           tsEvaluateAt(w, depth, deeper)[f][visited]]]
  BY ZenonT(40) DEF tsEvaluateAt
<1> QED
  BY <1>1, <1>2, <1>3 DEF Calls

LEMMA TsEvaluateIs ==
  ASSUME NEW w, IsWorld(w), CommonGround(w)
  PROVE  \A depth \in 0 .. MaxPrerequisiteDepth + 1 :
           evaluate(w)[depth] =
             tsEvaluateAt(w, depth, IF depth > MaxPrerequisiteDepth THEN <<>>
                                    ELSE evaluate(w)[depth + 1])
<1> DEFINE m == MaxPrerequisiteDepth
           step(g, i) == tsEvaluateAt(w, i, IF i > MaxPrerequisiteDepth THEN <<>> ELSE g[i + 1])
           calls == CHOOSE g : g = [i \in 0 .. m + 1 |-> step(g, i)]
<1>0. m \in Nat
  BY Depths
<1>1. PICK d : d = [x \in Calls(w) \X (0 .. m) |-> tsEvaluateAt(w, x[2], x[1])]
  OBVIOUS
<1>2. d \in [Calls(w) \X (0 .. m) -> Calls(w)]
  BY <1>1, TsCallType
<1>3. tsEvaluateAt(w, m + 1, <<>>) \in Calls(w)
  BY TsCallType
<1>4. PICK f \in [0 .. m + 1 -> Calls(w)] :
        f[m + 1] = tsEvaluateAt(w, m + 1, <<>>) /\ \A i \in 0 .. m : f[i] = d[<<f[i + 1], i>>]
  <2>1. PICK f : f \in Descents(m, Calls(w), tsEvaluateAt(w, m + 1, <<>>), d)
    BY <1>0, <1>2, <1>3, DefinedDownFrom
  <2> QED
    BY <2>1 DEF Descents
<1>5. ASSUME NEW i \in 0 .. m + 1 PROVE f[i] = step(f, i)
  <2>1. CASE i = m + 1
    BY <1>0, <1>4, <2>1
  <2>2. CASE i \in 0 .. m
    <3>1. i + 1 \in 0 .. m + 1 /\ ~(i > m)
      BY <1>0, <2>2
    <3>2. PICK x : x = <<f[i + 1], i>>
      OBVIOUS
    <3>3. x \in Calls(w) \X (0 .. m) /\ x[1] = f[i + 1] /\ x[2] = i
      BY <1>4, <2>2, <3>1, <3>2
    <3>4. d[x] = tsEvaluateAt(w, x[2], x[1])
      BY <1>1, <3>3
    <3> QED
      BY <1>4, <2>2, <3>1, <3>2, <3>3, <3>4
  <2> QED
    BY <1>0, <2>1, <2>2
<1>6. f = [i \in 0 .. m + 1 |-> step(f, i)]
  <2> HIDE DEF step, m
  <2> QED
    BY <1>4, <1>5
<1>7. calls = [i \in 0 .. m + 1 |-> step(calls, i)]
  <2> HIDE DEF step, m
  <2> QED
    BY <1>6, Zenon
<1>8. evaluate(w) = calls
  BY DEF evaluate
<1> HIDE DEF calls
<1>9. \A i \in 0 .. m + 1 : calls[i] = step(calls, i)
  <2> HIDE DEF step, m
  <2> QED
    BY <1>7
<1> QED
  BY <1>8, <1>9

\* Off, the index does not depend on the reason.
LEMMA OffIndex ==
  ASSUME NEW flag, NEW r, NEW q
  PROVE  offResult(flag, r).idx = offResult(flag, q).idx
BY DEF offResult, variationResult

\* Prerequisites fail alike if the calls for them serve the same indices.
SameIndices(w, x, y) ==
  \A f \in DOMAIN w.flags, visited \in SUBSET DOMAIN w.flags : x[f][visited].idx = y[f][visited].idx

SameAnswers(w, x, y) == \A f \in DOMAIN w.flags : x[f][{}] = y[f][{}]

LEMMA FailingSame ==
  ASSUME NEW w, NEW x, NEW y, SameIndices(w, x, y), NEW f \in DOMAIN w.flags,
         NEW visited \in SUBSET DOMAIN w.flags
  PROVE  Failing(w, x, f, visited) = Failing(w, y, f, visited)
<1>1. visited \cup {f} \in SUBSET DOMAIN w.flags
  OBVIOUS
<1>2. \A p : IsOn(w, p) => x[p][visited \cup {f}].idx = y[p][visited \cup {f}].idx
  BY <1>1 DEF IsOn, SameIndices
<1> QED
  BY <1>2 DEF Failing

LEMMA CallsSame ==
  ASSUME NEW w, IsWorld(w), CommonGround(w), NEW depth, NEW x, NEW y,
         depth > MaxPrerequisiteDepth \/ SameIndices(w, x, y)
  PROVE  /\ SameIndices(w, evaluateAt(w, depth, x), tsEvaluateAt(w, depth, y))
         /\ ~(depth > MaxPrerequisiteDepth) =>
              SameAnswers(w, evaluateAt(w, depth, x), tsEvaluateAt(w, depth, y))
<1>1. ASSUME NEW f \in DOMAIN w.flags, NEW visited \in SUBSET DOMAIN w.flags
      PROVE  /\ evaluateAt(w, depth, x)[f][visited].idx = tsEvaluateAt(w, depth, y)[f][visited].idx
             /\ ~(depth > MaxPrerequisiteDepth) /\ f \notin visited =>
                  evaluateAt(w, depth, x)[f][visited] = tsEvaluateAt(w, depth, y)[f][visited]
  <2>1. PICK a, b : a = AfterPrereqs(w, f, First(Failing(w, x, f, visited)), Outcome(w, f))
                    /\ b = AfterPrereqs(w, f, First(Failing(w, y, f, visited)), Outcome(w, f))
    OBVIOUS
  <2>2. depth > MaxPrerequisiteDepth \/ a = b
    BY <2>1, FailingSame
  <2>3. /\ evaluateAt(w, depth, x)[f][visited] =
             CASE ~w.flags[f].on -> offResult(w.flags[f], Reason("OFF"))
               [] w.flags[f].on /\ (depth > MaxPrerequisiteDepth \/ f \in visited) ->
                    offResult(w.flags[f], Error("PREREQUISITE_CYCLE"))
               [] OTHER -> a
        /\ tsEvaluateAt(w, depth, y)[f][visited] =
             CASE ~w.flags[f].on -> offResult(w.flags[f], Reason("OFF"))
               [] w.flags[f].on /\ (depth > MaxPrerequisiteDepth \/ f \in visited) ->
                    offResult(w.flags[f], Error("MALFORMED_FLAG"))
               [] OTHER -> b
    BY <2>1, CallIs, TsCallIs
  <2>4. offResult(w.flags[f], Error("PREREQUISITE_CYCLE")).idx
          = offResult(w.flags[f], Error("MALFORMED_FLAG")).idx
    BY OffIndex
  <2> QED
    BY <2>2, <2>3, <2>4
<1>2. {} \in SUBSET DOMAIN w.flags
  OBVIOUS
<1> QED
  BY <1>1, <1>2 DEF SameIndices, SameAnswers

LEMMA EvaluationSame ==
  ASSUME NEW w, IsWorld(w), CommonGround(w), NEW f \in DOMAIN w.flags
  PROVE  tsEvaluate(w, f) = Evaluate(w, f)
<1> DEFINE m == MaxPrerequisiteDepth
           go == evaluateWithDepth(w)
           ts == evaluate(w)
           T  == {n \in 0 .. m + 1 : SameIndices(w, go[(m + 1) - n], ts[(m + 1) - n])}
<1>0. m \in Nat /\ m + 1 \in Nat
  BY Depths
<1>1. \A depth \in 0 .. m + 1 :
        /\ go[depth] = evaluateAt(w, depth, IF depth > m THEN <<>> ELSE go[depth + 1])
        /\ ts[depth] = tsEvaluateAt(w, depth, IF depth > m THEN <<>> ELSE ts[depth + 1])
  BY EvaluateIs, TsEvaluateIs
<1> HIDE DEF go, ts
<1>2. 0 \in T
  <2>1. (m + 1) - 0 = m + 1 /\ m + 1 \in 0 .. m + 1 /\ m + 1 > m
    BY <1>0
  <2>2. go[m + 1] = evaluateAt(w, m + 1, <<>>) /\ ts[m + 1] = tsEvaluateAt(w, m + 1, <<>>)
    BY <1>1, <2>1
  <2>3. SameIndices(w, go[m + 1], ts[m + 1])
    BY <2>1, <2>2, CallsSame
  <2> QED
    BY <1>0, <2>1, <2>3
<1>3. ASSUME NEW n \in 0 .. m + 1, n \in T, n < m + 1 PROVE n + 1 \in T
  <2>1. PICK k : k = (m + 1) - (n + 1)
    OBVIOUS
  <2>2. /\ k \in 0 .. m + 1 /\ ~(k > m) /\ k + 1 = (m + 1) - n /\ n + 1 \in 0 .. m + 1
    BY <1>0, <1>3, <2>1
  <2>3. SameIndices(w, go[k + 1], ts[k + 1])
    BY <1>3, <2>2
  <2>4. go[k] = evaluateAt(w, k, go[k + 1]) /\ ts[k] = tsEvaluateAt(w, k, ts[k + 1])
    BY <1>1, <2>2
  <2>5. SameIndices(w, go[k], ts[k])
    BY <2>3, <2>4, CallsSame
  <2> QED
    BY <2>1, <2>2, <2>5
<1> HIDE DEF T
<1>4. \A n \in 0 .. m + 1 : n \in T
  BY <1>0, <1>2, <1>3, UpTo
<1> USE DEF T
<1>5. m \in 0 .. m + 1 /\ (m + 1) - m = 1 /\ 0 \in 0 .. m + 1 /\ ~(0 > m) /\ 0 + 1 = 1
  BY <1>0
<1>6. SameIndices(w, go[1], ts[1])
  BY <1>4, <1>5
<1>7. go[0] = evaluateAt(w, 0, go[1]) /\ ts[0] = tsEvaluateAt(w, 0, ts[1])
  BY <1>1, <1>5
<1>8. go[0][f][{}] = ts[0][f][{}]
  <2>1. PICK x, y : x = go[1] /\ y = ts[1]
    OBVIOUS
  <2>2. SameIndices(w, x, y)
    BY <1>6, <2>1
  <2>3. ~(0 > MaxPrerequisiteDepth)
    BY <1>5
  <2>4. SameAnswers(w, evaluateAt(w, 0, x), tsEvaluateAt(w, 0, y))
    BY <2>2, <2>3, CallsSame
  <2> QED
    BY <1>7, <2>1, <2>4 DEF SameAnswers
<1> QED
  BY <1>8 DEF go, ts, Evaluate, tsEvaluate

\* On the common ground the TypeScript SDK answers what the Go SDK answers, for
\* any snapshot and context (sdk/ts/src/evaluate.ts:24 "It mirrors Go's
\* Evaluate").
THEOREM TypeScriptMirrorsGo == Spec => []ParityOnCommonGround
<1>1. EvaluationInv => ParityOnCommonGround
  <2> SUFFICES ASSUME EvaluationInv, CommonGround(world), answer # None, answer.ts # None
               PROVE  answer.ts = answer.go
    BY DEF ParityOnCommonGround, SameAnswer
  <2>1. PICK f \in Asked : answer = Answered(f)
    BY DEF EvaluationInv
  <2>2. answer.ts = evaluateDetail(f) /\ answer.go = GoEvaluate(f)
    BY <2>1 DEF Answered
  <2>3. snap # None /\ f \in DOMAIN snap.flags /\ answer.ts = tsEvaluate(snap, f)
    BY <2>2 DEF evaluateDetail
  <2>4. snap = world /\ IsWorld(world)
    BY <2>3 DEF EvaluationInv
  <2>5. answer.go = Evaluate(snap, f)
    BY <2>2, <2>3 DEF GoEvaluate
  <2> QED
    BY <2>3, <2>4, <2>5, EvaluationSame
<1> QED
  BY <1>1, InvHolds, PTL
=============================================================================
