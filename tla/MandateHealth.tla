--------------------------- MODULE MandateHealth ----------------------------
(***************************************************************************)
(* Mandate health: how a mandate's digital twin is compiled from the       *)
(* products of lotus-core, how its ten dimensions are scored, which        *)
(* reasons and exceptions are published, and what the command center makes *)
(* of them.  Weights are in ten-thousandths, dates are day numbers, and    *)
(* NotStated or Undated stand for a value that is absent.                  *)
(***************************************************************************)
EXTENDS Results

NotStated == -1
Undated == 0

Ambiguous == "MANDATE_LIMIT_PROVENANCE_AMBIGUOUS"

-----------------------------------------------------------------------------
(* The twin.                                                               *)

TwinOf(mandate, portfolio, version, asOf) ==
    [mandate |-> mandate, portfolio |-> portfolio, version |-> version, asOf |-> asOf,
     cashMin |-> NotStated, cashMax |-> NotStated, turnover |-> NotStated,
     turnoverApplicable |-> "UNKNOWN", turnoverPeriod |-> Undated, tax |-> NotStated,
     taxPeriod |-> Undated, currency |-> "SGD", maxTE |-> NotStated, restricted |-> {},
     reviewDue |-> Undated, gaps |-> {}]

\* Limits of unknown origin are not read as limits.
EffectiveTwin(twin) ==
    IF Ambiguous \in twin.gaps
    THEN [twin EXCEPT !.cashMin = NotStated, !.cashMax = NotStated, !.turnover = NotStated]
    ELSE twin

\* An optional product counts when the resolver offers it, answers, and calls it
\* ready; a benchmark assignment when it is active.
SourceIsReady(answer) == answer = "READY"

SourceIsUnavailable(answer) == answer \notin {"READY", "NOT_OFFERED"}

UnavailableFamilies(products) == {f \in DOMAIN products : SourceIsUnavailable(products[f])}

OptionalSources(products) == {f \in DOMAIN products : SourceIsReady(products[f])}

ScheduleGaps(ready) ==
    {f \in {"CLIENT_INCOME_NEEDS_SCHEDULE", "LIQUIDITY_RESERVE_REQUIREMENT",
            "PLANNED_WITHDRAWAL_SCHEDULE"} : f \notin ready}

OptionalProductGaps(ready) ==
    {f \in {"CLIENT_RESTRICTION_PROFILE", "SUSTAINABILITY_PREFERENCE_PROFILE",
            "PORTFOLIO_CASHFLOW_PROJECTION", "BENCHMARK_ASSIGNMENT"} : f \notin ready}

BindingGaps(binding) ==
    (IF binding.objective THEN {} ELSE {"MANDATE_OBJECTIVE_PROFILE"})
        \cup (IF binding.cadence = "" \/ binding.reviewDue = Undated THEN {"MANDATE_REVIEW_SCHEDULE"} ELSE {})

ConstraintGaps == {"MANDATE_CASH_BAND", "MANDATE_TURNOVER_BUDGET"}

FieldGaps(core, ready) ==
    ScheduleGaps(ready) \cup BindingGaps(core.binding) \cup ConstraintGaps
        \cup OptionalProductGaps(ready)

\* The restrictions of a profile that is ready: on an instrument, active or not,
\* for buying or for selling only.
StatedRestrictions(core, ready) ==
    IF "CLIENT_RESTRICTION_PROFILE" \in ready THEN core.restrictions ELSE {}

ActiveRestrictions(core, ready) ==
    {r.instrument : r \in {q \in StatedRestrictions(core, ready) : q.active}}

\* What core does not state stays absent: no cash band, no turnover budget.
CompileTwin(core, asOf) ==
    LET ready == OptionalSources(core.products) IN
    [TwinOf(core.binding.mandate, core.binding.portfolio, core.binding.version, asOf) EXCEPT
        !.restricted = ActiveRestrictions(core, ready),
        !.reviewDue = core.binding.reviewDue,
        !.gaps = FieldGaps(core, ready)]

-----------------------------------------------------------------------------
(* The input of an assessment: the twin and the measurements.              *)

NoContext == [state |-> "none", breached |-> FALSE]

HealthInput(twin) ==
    [twin |-> twin, current |-> <<>>, target |-> <<>>, cash |-> 0, readiness |-> "READY",
     missing |-> FALSE, stale |-> FALSE, restrictedHeld |-> {}, restrictedTargets |-> {},
     sustainability |-> FALSE, cashflow |-> 0, lotsMissing |-> FALSE,
     turnoverUsed |-> NotStated, turnoverUsedPeriod |-> Undated, turnoverUsedAsOf |-> Undated,
     taxUsed |-> NotStated, taxUsedCurrency |-> "", taxUsedPeriod |-> Undated,
     taxUsedAsOf |-> Undated, te |-> NotStated, risk |-> NoContext, performance |-> NoContext,
     underReview |-> FALSE, workflowBlocked |-> FALSE, approval |-> FALSE, modelTo |-> Undated]

\* Coverage of market data decides the readiness; a missing optional product
\* makes READY DEGRADED.
SourceReadiness(core) ==
    IF core.coverage.state = "READY" /\ UnavailableFamilies(core.products) # {}
    THEN "DEGRADED" ELSE core.coverage.state

\* Active targets of the model that may not be bought.
RestrictedTargets(core, ready) ==
    {r.instrument : r \in {q \in StatedRestrictions(core, ready) : q.active /\ q.buy}}
        \cap (DOMAIN core.targets \ core.inactive)

SustainabilityReview(core, ready) ==
    "SUSTAINABILITY_PREFERENCE_PROFILE" \in ready /\ core.sustainability

HealthInputFromCore(core, twin) ==
    LET ready == OptionalSources(core.products) IN
    [HealthInput(twin) EXCEPT
        !.target = core.targets,
        !.readiness = SourceReadiness(core),
        !.missing = core.coverage.missing,
        !.stale = core.coverage.stale,
        !.restrictedTargets = RestrictedTargets(core, ready),
        !.sustainability = SustainabilityReview(core, ready),
        !.cashflow = IF "PORTFOLIO_CASHFLOW_PROJECTION" \in ready THEN core.cashflow ELSE 0,
        !.modelTo = core.modelTo]

-----------------------------------------------------------------------------
(* The ten dimensions.                                                     *)

Weight(dimension) ==
    CASE dimension = "SOURCE_READINESS" -> 15
      [] dimension = "ALLOCATION_DRIFT" -> 18
      [] dimension = "RISK_DRIFT" -> 12
      [] dimension \in {"CASH_LIQUIDITY", "TAX_TURNOVER", "ELIGIBILITY_RESTRICTIONS"} -> 10
      [] dimension = "PERFORMANCE_ATTENTION" -> 8
      [] dimension = "WORKFLOW_READINESS" -> 7
      [] dimension \in {"REVIEW_CADENCE", "MODEL_FRESHNESS"} -> 5

ReadyScore(dimension) ==
    [dimension |-> dimension, score |-> 100, state |-> "READY", code |-> "READY", budgets |-> <<>>]

AttentionScore(dimension, score, state, code) ==
    [dimension |-> dimension, score |-> score, state |-> state, code |-> code, budgets |-> <<>>]

ScoreSourceReadiness(i) ==
    IF i.readiness \in {"INCOMPLETE", "UNAVAILABLE"} \/ i.missing
    THEN AttentionScore("SOURCE_READINESS", 0, "BLOCKED", "DPM_SOURCE_INCOMPLETE")
    ELSE IF i.readiness = "DEGRADED" \/ i.stale
    THEN AttentionScore("SOURCE_READINESS", 70, "PENDING_REVIEW", "DPM_SOURCE_STALE")
    ELSE ReadyScore("SOURCE_READINESS")

Band == 250

\* 100 less the penalty, one point for each ten-thousandth times ten, rounded half up.
ScoreFromPenalty(tenths) ==
    LET bounded == IF tenths > 1000 THEN 1000 ELSE tenths IN (1000 - bounded + 5) \div 10

Gap(a, b) == IF a < b THEN b - a ELSE a - b

MaxDrift(i) ==
    Max({Gap(IF x \in DOMAIN i.current THEN i.current[x] ELSE 0, i.target[x]) : x \in DOMAIN i.target})

ScoreAllocationDrift(i) ==
    IF DOMAIN i.current = {} \/ DOMAIN i.target = {}
    THEN AttentionScore("ALLOCATION_DRIFT", 85, "PENDING_REVIEW", "ALLOCATION_DRIFT_NOT_ASSESSED")
    ELSE IF MaxDrift(i) <= Band THEN ReadyScore("ALLOCATION_DRIFT")
    ELSE AttentionScore("ALLOCATION_DRIFT", ScoreFromPenalty(MaxDrift(i) - Band), "PENDING_REVIEW",
                        "ALLOCATION_DRIFT")

ScoreSourceHealthContext(context, dimension, attention, unavailable) ==
    CASE context.state = "ready" /\ ~context.breached -> ReadyScore(dimension)
      [] context.state = "unavailable" -> AttentionScore(dimension, 60, "PENDING_REVIEW", unavailable)
      [] OTHER -> AttentionScore(dimension, 65, "PENDING_REVIEW", attention)

ScoreRiskDrift(i) ==
    CASE i.risk # NoContext ->
            ScoreSourceHealthContext(i.risk, "RISK_DRIFT", "SOURCE_RISK_HEALTH_ATTENTION",
                                     "SOURCE_RISK_HEALTH_UNAVAILABLE")
      [] i.risk = NoContext /\ i.twin.maxTE = NotStated -> ReadyScore("RISK_DRIFT")
      [] i.risk = NoContext /\ i.twin.maxTE # NotStated /\ i.te = NotStated ->
            AttentionScore("RISK_DRIFT", 60, "PENDING_REVIEW", "TRACKING_ERROR_EVIDENCE_MISSING")
      [] OTHER -> IF i.te <= i.twin.maxTE THEN ReadyScore("RISK_DRIFT")
                  ELSE AttentionScore("RISK_DRIFT", 65, "PENDING_REVIEW", "TRACKING_ERROR_ABOVE_LIMIT")

ScoreCashLiquidity(i) ==
    LET low == i.twin.cashMin
        high == i.twin.cashMax
        Pending(score, code) == AttentionScore("CASH_LIQUIDITY", score, "PENDING_REVIEW", code) IN
    IF low # NotStated /\ i.cash < low THEN Pending(60, "CASH_BELOW_BAND")
    ELSE IF high # NotStated /\ i.cash > high THEN Pending(75, "CASH_ABOVE_BAND")
    ELSE IF i.cashflow < 0 THEN Pending(70, "PROJECTED_CASHFLOW_PRESSURE")
    ELSE IF low = NotStated \/ high = NotStated THEN Pending(70, "CASH_BAND_NOT_SOURCED")
    ELSE ReadyScore("CASH_LIQUIDITY")

Budget(control, state, code) == [control |-> control, state |-> state, code |-> code]

BasisMismatch(period, usedPeriod, usedAsOf, asOf) ==
    \/ usedAsOf # Undated /\ usedAsOf # asOf
    \/ period # usedPeriod
    \/ period > asOf

TaxBudgetAssessment(i) ==
    LET t == i.twin
        Of(state, code) == Budget("TAX_BUDGET", state, code) IN
    IF t.tax = NotStated THEN Of("READY", "TAX_BUDGET_NOT_APPLICABLE")
    ELSE IF i.taxUsed = NotStated THEN Of("PENDING_REVIEW", "TAX_BUDGET_USAGE_MISSING")
    ELSE IF (i.taxUsedCurrency # "" /\ i.taxUsedCurrency # t.currency)
            \/ BasisMismatch(t.taxPeriod, i.taxUsedPeriod, i.taxUsedAsOf, t.asOf)
    THEN Of("PENDING_REVIEW", "TAX_BUDGET_BASIS_MISMATCH")
    ELSE IF i.taxUsed > t.tax THEN Of("BLOCKED", "TAX_BUDGET_EXCEEDED")
    ELSE IF i.taxUsed = t.tax THEN Of("PENDING_REVIEW", "TAX_BUDGET_EXHAUSTED")
    ELSE Of("READY", "TAX_BUDGET_READY")

TurnoverBudgetAssessment(i) ==
    LET t == i.twin
        Of(state, code) == Budget("TURNOVER_BUDGET", state, code) IN
    IF t.turnover = NotStated
    THEN IF t.turnoverApplicable = "NO" /\ "MANDATE_TURNOVER_BUDGET" \notin t.gaps
         THEN Of("READY", "TURNOVER_BUDGET_NOT_APPLICABLE")
         ELSE Of("PENDING_REVIEW", "TURNOVER_BUDGET_NOT_SOURCED")
    ELSE IF i.turnoverUsed = NotStated THEN Of("PENDING_REVIEW", "TURNOVER_BUDGET_USAGE_MISSING")
    ELSE IF BasisMismatch(t.turnoverPeriod, i.turnoverUsedPeriod, i.turnoverUsedAsOf, t.asOf)
    THEN Of("PENDING_REVIEW", "TURNOVER_BUDGET_BASIS_MISMATCH")
    ELSE IF i.turnoverUsed > t.turnover THEN Of("BLOCKED", "TURNOVER_BUDGET_EXCEEDED")
    ELSE IF i.turnoverUsed = t.turnover THEN Of("PENDING_REVIEW", "TURNOVER_BUDGET_EXHAUSTED")
    ELSE IF 10 * i.turnoverUsed >= 8 * t.turnover THEN Of("PENDING_REVIEW", "TURNOVER_BUDGET_NEAR_LIMIT")
    ELSE Of("READY", "TURNOVER_BUDGET_READY")

MeasurementGaps ==
    {"TAX_BUDGET_USAGE_MISSING", "TAX_BUDGET_BASIS_MISMATCH", "TURNOVER_BUDGET_USAGE_MISSING",
     "TURNOVER_BUDGET_BASIS_MISMATCH"}

SourceGaps ==
    MeasurementGaps \cup {"CASH_BAND_NOT_SOURCED", "TRACKING_ERROR_EVIDENCE_MISSING",
                          "TURNOVER_BUDGET_NOT_SOURCED"}

\* The worse of the two budgets decides, tax before turnover.
ScoreTaxTurnover(i) ==
    LET tax == TaxBudgetAssessment(i)
        turnover == TurnoverBudgetAssessment(i)
        With(score) == [score EXCEPT !.budgets = <<tax, turnover>>]
        first == IF turnover.state = "BLOCKED" /\ tax.state # "BLOCKED" THEN turnover
                 ELSE IF tax.state # "READY" THEN tax ELSE turnover
        points == CASE first.code \in MeasurementGaps -> 60
                    [] first.state = "BLOCKED" -> 40
                    [] OTHER -> 70 IN
    IF i.lotsMissing THEN With(AttentionScore("TAX_TURNOVER", 40, "BLOCKED", "TAX_LOTS_INCOMPLETE"))
    ELSE IF first.state = "READY" THEN With(ReadyScore("TAX_TURNOVER"))
    ELSE With(AttentionScore("TAX_TURNOVER", points, first.state, first.code))

ScoreEligibilityRestrictions(i) ==
    IF i.restrictedHeld \cup i.restrictedTargets \cup (DOMAIN i.current \cap i.twin.restricted) # {}
    THEN AttentionScore("ELIGIBILITY_RESTRICTIONS", 0, "BLOCKED", "RESTRICTED_INSTRUMENT_HELD")
    ELSE ReadyScore("ELIGIBILITY_RESTRICTIONS")

ScorePerformanceAttention(i) ==
    IF i.performance # NoContext
    THEN ScoreSourceHealthContext(i.performance, "PERFORMANCE_ATTENTION",
                                  "SOURCE_PERFORMANCE_HEALTH_ATTENTION",
                                  "SOURCE_PERFORMANCE_HEALTH_UNAVAILABLE")
    ELSE IF i.underReview
    THEN AttentionScore("PERFORMANCE_ATTENTION", 70, "PENDING_REVIEW", "PERFORMANCE_UNDER_REVIEW")
    ELSE ReadyScore("PERFORMANCE_ATTENTION")

ScoreWorkflowReadiness(i) ==
    IF i.workflowBlocked
    THEN AttentionScore("WORKFLOW_READINESS", 0, "BLOCKED", "REBALANCE_RUN_BLOCKED")
    ELSE IF i.sustainability
    THEN AttentionScore("WORKFLOW_READINESS", 70, "PENDING_REVIEW", "SUSTAINABILITY_REVIEW_REQUIRED")
    ELSE IF i.approval
    THEN AttentionScore("WORKFLOW_READINESS", 70, "PENDING_REVIEW", "APPROVAL_REQUIRED")
    ELSE ReadyScore("WORKFLOW_READINESS")

ScoreReviewCadence(i) ==
    IF i.twin.reviewDue # Undated /\ i.twin.reviewDue < i.twin.asOf
    THEN AttentionScore("REVIEW_CADENCE", 65, "PENDING_REVIEW", "MANDATE_REVIEW_OVERDUE")
    ELSE ReadyScore("REVIEW_CADENCE")

ScoreModelFreshness(i) ==
    IF i.modelTo # Undated /\ i.modelTo < i.twin.asOf
    THEN AttentionScore("MODEL_FRESHNESS", 55, "PENDING_REVIEW", "MODEL_VERSION_STALE")
    ELSE ReadyScore("MODEL_FRESHNESS")

DimensionScores(i) ==
    <<ScoreSourceReadiness(i), ScoreAllocationDrift(i), ScoreRiskDrift(i), ScoreCashLiquidity(i),
      ScoreTaxTurnover(i), ScoreEligibilityRestrictions(i), ScorePerformanceAttention(i),
      ScoreWorkflowReadiness(i), ScoreReviewCadence(i), ScoreModelFreshness(i)>>

-----------------------------------------------------------------------------
(* The verdict: state, score, reasons, headline action and exceptions.      *)

WeightedScore(scores) ==
    (MapThenSumSet(LAMBDA k : scores[k].score * Weight(scores[k].dimension), DOMAIN scores) + 50)
        \div 100

HealthState(scores) ==
    LET states == {scores[k].state : k \in DOMAIN scores} IN
    CASE "BLOCKED" \in states -> "BLOCKED"
      [] "BLOCKED" \notin states /\ "PENDING_REVIEW" \in states -> "PENDING_REVIEW"
      [] OTHER -> "READY"

Severity(state) == IF state = "BLOCKED" THEN "CRITICAL" ELSE "WARNING"

RecommendedAction(dimension, state, code) ==
    IF code \in SourceGaps \/ dimension = "SOURCE_READINESS" THEN "FIX_SOURCE_DATA"
    ELSE IF dimension = "ELIGIBILITY_RESTRICTIONS" THEN "REVIEW_RESTRICTION"
    ELSE IF dimension \in {"WORKFLOW_READINESS", "REVIEW_CADENCE"} THEN "REVIEW_WORKFLOW"
    ELSE IF state = "PENDING_REVIEW" THEN "SIMULATE_REBALANCE"
    ELSE "REVIEW_MANDATE"

ReasonFrom(score) ==
    [dimension |-> score.dimension, code |-> score.code, severity |-> Severity(score.state),
     action |-> RecommendedAction(score.dimension, score.state, score.code)]

IsGap(reason) == reason.code \in SourceGaps

MaxReasons == 5

Ranked(reasons) ==
    LET Rank(r) == (IF r.severity = "CRITICAL" THEN 2 ELSE 0) + (IF IsGap(r) THEN 0 ELSE 1)
        Of(k) == SelectSeq(reasons, LAMBDA r : Rank(r) = k)
    IN  Of(3) \o Of(2) \o Of(1) \o Of(0)

\* Mutant: the gap displaces the first reason, not the last.
TopReasonsDisplacingFirst(scores) ==
    LET below == SelectSeq(scores, LAMBDA s : s.score < 100)
        reasons == Ranked([k \in DOMAIN below |-> ReasonFrom(below[k])])
        top == [k \in 1..Min({MaxReasons, Len(reasons)}) |-> reasons[k]]
        gaps == SelectSeq(reasons, IsGap)
    IN  IF gaps # <<>> /\ \A k \in DOMAIN top : ~IsGap(top[k])
        THEN <<gaps[1]>> \o Tail(top) ELSE top

\* The five gravest, findings before source gaps; but one gap is always named.
TopReasons(scores) ==
    LET below == SelectSeq(scores, LAMBDA s : s.score < 100)
        reasons == Ranked([k \in DOMAIN below |-> ReasonFrom(below[k])])
        top == [k \in 1..Min({MaxReasons, Len(reasons)}) |-> reasons[k]]
        gaps == SelectSeq(reasons, IsGap)
    IN  IF gaps # <<>> /\ \A k \in DOMAIN top : ~IsGap(top[k])
        THEN Front(top) \o <<gaps[1]>> ELSE top

HasUnsourcedLimit(twin) ==
    \/ twin.cashMin = NotStated
    \/ twin.cashMax = NotStated
    \/ twin.turnover = NotStated /\ twin.turnoverApplicable # "NO"

OverallAction(state, reasons, unsourced) ==
    IF state = "READY" THEN "NONE"
    ELSE IF state # "BLOCKED" /\ (unsourced \/ \E k \in DOMAIN reasons : IsGap(reasons[k]))
    THEN "FIX_SOURCE_DATA"
    ELSE IF reasons # <<>> THEN reasons[1].action
    ELSE "REVIEW_MANDATE"

HealthId(tenant, portfolio, asOf) == <<tenant, portfolio, asOf>>

CalculateHealth(input, tenant) ==
    LET i == [input EXCEPT !.twin = EffectiveTwin(@)]
        scores == DimensionScores(i)
        state == HealthState(scores)
        reasons == TopReasons(scores) IN
    [id |-> HealthId(tenant, i.twin.portfolio, i.twin.asOf), mandate |-> i.twin.mandate,
     portfolio |-> i.twin.portfolio, asOf |-> i.twin.asOf, score |-> WeightedScore(scores),
     state |-> state, scores |-> scores, reasons |-> reasons, readiness |-> i.readiness,
     action |-> OverallAction(state, reasons, HasUnsourcedLimit(i.twin))]

\* The budget control a finding is about: its own, the lots, or none.
ControlOf(dimension, code, budgets) ==
    LET matching == {k \in DOMAIN budgets : budgets[k].code = code} IN
    IF dimension # "TAX_TURNOVER" THEN ""
    ELSE IF matching = {} THEN "TAX_LOTS"
    ELSE IF budgets[Min(matching)].control = "TAX_BUDGET" THEN "TAX_BUDGET" ELSE ""

ExceptionOf(snapshot, tenant, dimension, control, severity, code, action) ==
    [id |-> <<tenant, snapshot.asOf, snapshot.portfolio, dimension, control>>,
     mandate |-> snapshot.mandate, portfolio |-> snapshot.portfolio, asOf |-> snapshot.asOf,
     dimension |-> dimension, severity |-> severity, code |-> code, action |-> action,
     state |-> "ACTIVE", run |-> 0]

\* One exception for each reason, and one for each budget no reason speaks of.
MonitoringExceptions(snapshot, tenant) ==
    LET BudgetsOf(d) == (CHOOSE k \in DOMAIN snapshot.scores : snapshot.scores[k].dimension = d)
        FromReason(r) ==
            ExceptionOf(snapshot, tenant, r.dimension,
                        ControlOf(r.dimension, r.code, snapshot.scores[BudgetsOf(r.dimension)].budgets),
                        r.severity, r.code, r.action)
        tax == snapshot.scores[BudgetsOf("TAX_TURNOVER")]
        Silent(b) == /\ b.state # "READY"
                     /\ \A k \in DOMAIN snapshot.reasons :
                           ~(snapshot.reasons[k].dimension = tax.dimension /\ snapshot.reasons[k].code = b.code)
        FromBudget(b) ==
            ExceptionOf(snapshot, tenant, tax.dimension,
                        IF b.control = "TAX_BUDGET" THEN "TAX_BUDGET" ELSE "", Severity(b.state), b.code,
                        RecommendedAction(tax.dimension, b.state, b.code))
        silent == SelectSeq(tax.budgets, Silent)
    IN  [k \in DOMAIN snapshot.reasons |-> FromReason(snapshot.reasons[k])]
            \o [k \in DOMAIN silent |-> FromBudget(silent[k])]

-----------------------------------------------------------------------------
(* The order of versions.  A version is the sequence of its characters,    *)
(* digits below ten; any other character is ten or more.                   *)

IsNumeric(version) == version # <<>> /\ \A k \in DOMAIN version : version[k] < 10

StripZeros(version) ==
    LET significant == {k \in DOMAIN version : version[k] # 0} IN
    IF significant = {} THEN <<0>> ELSE SubSeq(version, Min(significant), Len(version))

\* Code-point order of two texts: at the first difference, or by length.
TextBefore(v, w) ==
    LET differing == {k \in DOMAIN v \cap DOMAIN w : v[k] # w[k]} IN
    IF differing = {} THEN Len(v) < Len(w) ELSE v[Min(differing)] < w[Min(differing)]

\* Digits by length and then by text, below any longer; other texts come last.
VersionBefore(v, w) ==
    LET n == StripZeros(v)
        m == StripZeros(w) IN
    IF IsNumeric(v) # IsNumeric(w) THEN IsNumeric(w)
    ELSE IF IsNumeric(v) /\ n # m
    THEN Len(n) < Len(m) \/ (Len(n) = Len(m) /\ TextBefore(n, m))
    ELSE TextBefore(v, w)

=============================================================================
