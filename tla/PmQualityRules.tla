--------------------------- MODULE PmQualityRules ---------------------------
(***************************************************************************)
(* The verdicts of PM operating quality: how a policy, its governance and  *)
(* the evidence become a score run, and how score runs become a fairness   *)
(* analysis.  Scores are points in hundredths, dates are day numbers.      *)
(***************************************************************************)
EXTENDS Results

NoScore == -1       \* a score that was not given or not computed
Undated == 0        \* a signal without a source version
NotADate == -1      \* a source version that is a label, not a business date

\* Quantize to hundredths, ROUND_HALF_UP.
RoundDiv(n, d) == (2 * n + d) \div (2 * d)

Total(scores) == FoldSeq(LAMBDA x, y : x + y, 0, scores)

MeanScore(scores) == IF scores = <<>> THEN 0 ELSE RoundDiv(Total(scores), Len(scores))

StateScore(state) ==
    CASE state = "READY" -> 10000
      [] state = "PENDING_REVIEW" -> 7000
      [] state = "DEGRADED" -> 6000
      [] state = "NOT_SUPPORTED" -> 5000
      [] state = "BREACHED" -> 3500
      [] OTHER -> 0

StateRank(state) ==
    CASE state = "BLOCKED" -> 6
      [] state = "BREACHED" -> 5
      [] state = "DEGRADED" -> 4
      [] state = "PENDING_REVIEW" -> 3
      [] state = "READY" -> 2
      [] state = "DISABLED" -> 1
      [] OTHER -> 0

\* States outside the ranking count only when there is nothing else: DEGRADED.
WorstState(states) ==
    LET worst == CHOOSE s \in states : \A t \in states : StateRank(t) <= StateRank(s)
    IN  IF StateRank(worst) = 0 THEN "DEGRADED" ELSE worst

-----------------------------------------------------------------------------
(* Evidence.  A signal has an indicator, a score, a state and a date.      *)

\* What the request brings: [indicator, state, score, date].
SignalsFromEvidence(items) ==
    [i \in DOMAIN items |->
        [items[i] EXCEPT !.score = IF @ = NoScore THEN StateScore(items[i].state) ELSE @]]

OutcomeDisciplineSignal(review) ==
    IF review.dimensions = <<>> THEN <<>>
    ELSE << [indicator |-> "OUTCOME_DISCIPLINE", state |-> review.state, date |-> review.date,
             score |-> MeanScore([i \in DOMAIN review.dimensions |->
                                     StateScore(review.dimensions[i])])] >>

SourceQualitySignal(review) ==
    [indicator |-> "SOURCE_QUALITY", state |-> review.support, date |-> review.date,
     score |-> StateScore(review.support)]

HandoffSignal(review) ==
    IF ~review.handoff THEN <<>>
    ELSE << [indicator |-> "EVIDENCE_COMPLETENESS", state |-> "READY", date |-> review.date,
             score |-> 10000] >>

SignalsFromReviews(reviews) ==
    FlattenSeq([i \in DOMAIN reviews |->
        OutcomeDisciplineSignal(reviews[i]) \o <<SourceQualitySignal(reviews[i])>>
            \o HandoffSignal(reviews[i])])

\* The membership of the PM's book, as evidence.  The first source version of
\* its references is the version of the data product, which is no date.
BookScopeSignal ==
    [indicator |-> "SOURCE_QUALITY", state |-> "READY", score |-> NoScore, date |-> NotADate]

\* The first signal that fails decides the code.
LookbackRefusal(policy, signals) ==
    LET code(s) ==
            CASE s.date = Undated -> "PM_QUALITY_LOOKBACK_WINDOW_EVIDENCE_DATE_REQUIRED"
              [] s.date = NotADate -> "PM_QUALITY_EVIDENCE_AS_OF_DATE_INVALID"
              [] s.date \in policy.window[1]..policy.window[2] -> "NO"
              [] OTHER -> "PM_QUALITY_EVIDENCE_OUTSIDE_LOOKBACK_WINDOW"
        failing == {i \in DOMAIN signals : code(signals[i]) # "NO"}
    IN  IF policy.window = <<>> THEN "NO"
        ELSE IF signals = <<>> THEN "PM_QUALITY_LOOKBACK_WINDOW_EVIDENCE_DATE_REQUIRED"
        ELSE IF failing = {} THEN "NO" ELSE code(signals[Min(failing)])

-----------------------------------------------------------------------------
(* Policies and their governance.                                          *)

\* What the policy model accepts.
PolicyAdmissible(p) ==
    /\ p.ready >= p.watch
    /\ p.enabled => p.weights # {} /\ p.governed
    /\ \A v, w \in p.weights : v.indicator = w.indicator => v = w
    /\ p.uses \cap {"compensation", "hr", "conduct_enforcement", "autonomous_decisioning"} = {}
    /\ p.window # <<>> => p.window[1] <= p.window[2]

\* Mutant: an approval is still good the day after it expires.
ExpiredLate(policy, asOf) == policy.expires # Undated /\ policy.expires + 1 < asOf

Expired(policy, asOf) == policy.expires # Undated /\ policy.expires < asOf

NotEntitled(policy, actor) == policy.entitled # {} /\ actor \notin policy.entitled

GovernanceRefusal(policy, asOf, actor) ==
    CASE ~policy.governed -> "PM_QUALITY_GOVERNANCE_APPROVAL_REQUIRED"
      [] Expired(policy, asOf) -> "PM_QUALITY_GOVERNANCE_EXPIRED"
      [] NotEntitled(policy, actor) -> "PM_QUALITY_ACTOR_NOT_ENTITLED"
      [] OTHER -> "NO"

-----------------------------------------------------------------------------
(* The score run.                                                          *)

IndicatorResult(weight, signals) ==
    LET own == SelectSeq(signals, LAMBDA s : s.indicator = weight.indicator)
    IN  IF Len(own) < weight.minimum
        THEN [indicator |-> weight.indicator, weight |-> weight.weight, score |-> NoScore,
              state |-> "BLOCKED", count |-> Len(own)]
        ELSE [indicator |-> weight.indicator, weight |-> weight.weight,
              score |-> MeanScore([i \in DOMAIN own |-> own[i].score]),
              state |-> WorstState({own[i].state : i \in DOMAIN own}), count |-> Len(own)]

WeightedScore(results) ==
    LET scorable == {r \in results : r.score # NoScore}
    IN  RoundDiv(MapThenSumSet(LAMBDA r : r.score * r.weight, scorable),
                 MapThenSumSet(LAMBDA r : r.weight, scorable))

HasState(results, state) == \E r \in results : r.state = state

ScoreState(score, policy, results) ==
    CASE HasState(results, "BREACHED") -> "BREACHED"
      [] HasState(results, "DEGRADED") -> "DEGRADED"
      [] score >= policy.ready -> "READY"
      [] score >= policy.watch -> "PENDING_REVIEW"
      [] OTHER -> "BREACHED"

Evaluation(policy, results) ==
    IF HasState(results, "BLOCKED") THEN [state |-> "BLOCKED", score |-> NoScore]
    ELSE [state |-> ScoreState(WeightedScore(results), policy, results),
          score |-> WeightedScore(results)]

\* The content of a score run: its hash covers the policy and the evidence, not
\* who generated it or when.
ScoreRunOf(subject, policy, evaluation, results) ==
    [subject |-> subject, policy |-> policy, asOf |-> policy.asOf, state |-> evaluation.state,
     score |-> evaluation.score, results |-> results]

BuildScoreRun(subject, asOf, policy, items, reviews, actor) ==
    LET governance == GovernanceRefusal(policy, asOf, actor)
        signals == SignalsFromEvidence(items) \o SignalsFromReviews(reviews)
        lookback == LookbackRefusal(policy, signals)
        results == {IndicatorResult(w, signals) : w \in policy.weights}
    IN  IF policy.asOf # asOf THEN Refused("PM_QUALITY_POLICY_AS_OF_DATE_MISMATCH")
        ELSE IF ~policy.enabled
        THEN Accepted(ScoreRunOf(subject, policy, [state |-> "DISABLED", score |-> NoScore], {}))
        ELSE IF governance # "NO" THEN Refused(governance)
        ELSE IF lookback # "NO" THEN Refused(lookback)
        ELSE Accepted(ScoreRunOf(subject, policy, Evaluation(policy, results), results))

-----------------------------------------------------------------------------
(* The fairness analysis: segments of stored score runs.                   *)

Scorable(run) == run.score # NoScore /\ run.state \notin {"DISABLED", "BLOCKED"}

FairnessSegment(key, asOf, runs, minimum) ==
    IF \/ \E i \in DOMAIN runs : \/ runs[i].policy.key # key
                                 \/ runs[i].asOf # asOf
                                 \/ ~Scorable(runs[i])
       \/ Len(runs) < minimum
    THEN [state |-> "BLOCKED", average |-> NoScore]
    ELSE [state |-> "READY", average |-> MeanScore([i \in DOMAIN runs |-> runs[i].score])]

FairnessPosture(segments, maxSpread) ==
    LET averages == {segments[i].average : i \in DOMAIN segments}
        spread == Max(averages) - Min(averages)
    IN  IF \E i \in DOMAIN segments : segments[i].state = "BLOCKED"
        THEN [state |-> "BLOCKED", spread |-> NoScore]
        ELSE [state |-> IF spread > maxSpread THEN "PENDING_REVIEW" ELSE "READY",
              spread |-> spread]

FairnessRefusal(segments, minimum, maxSpread) ==
    CASE Len(segments) < 2 -> "PM_QUALITY_FAIRNESS_SEGMENTS_REQUIRED"
      [] minimum < 1 -> "PM_QUALITY_FAIRNESS_MINIMUM_COUNT_INVALID"
      [] maxSpread < 0 \/ maxSpread > 10000 -> "PM_QUALITY_FAIRNESS_SPREAD_THRESHOLD_INVALID"
      [] OTHER -> "NO"

\* segments is a sequence of sequences of score runs.
BuildFairness(key, asOf, segments, minimum, maxSpread) ==
    LET refusal == FairnessRefusal(segments, minimum, maxSpread)
        results == [i \in DOMAIN segments |-> FairnessSegment(key, asOf, segments[i], minimum)]
        posture == FairnessPosture(results, maxSpread)
    IN  IF refusal # "NO" THEN Refused(refusal)
        ELSE Accepted([key |-> key, asOf |-> asOf, segments |-> segments, results |-> results,
                       state |-> posture.state, spread |-> posture.spread])

=============================================================================
