-------------------------- MODULE OutcomeEvidence ---------------------------
(***************************************************************************)
(* Outcome evidence: what the answers of lotus-core, lotus-risk and        *)
(* lotus-performance become, how they are assembled with the expectations  *)
(* of the pre-trade artifacts, and how the two are compared.               *)
(*                                                                         *)
(* An answer is a record: identified (the identifiers the adapter requires *)
(* are there), hash, support (its quality or supportability state), rows   *)
(* of [key, value, reporting, unit], the key and measure asked for, and a  *)
(* context.  Performance values are percentage points; ratios are whole.   *)
(***************************************************************************)
EXTENDS Results

NoValue == -99          \* a field that is null or absent

NotNumeric == -98       \* a field Decimal() does not parse

Numeric(value) == value \notin {NoValue, NotNumeric}

NoRow == [key |-> "", value |-> NoValue, reporting |-> NoValue, unit |-> ""]

Posture(state, quality) == [state |-> state, quality |-> quality]

Snapshot(dimension, system, type, r, value, unit, posture, reasons) ==
    [dimension |-> dimension, system |-> system, type |-> type, id |-> <<type, r.key, r.measure>>,
     value |-> value, unit |-> unit, state |-> posture.state, quality |-> posture.quality,
     hash |-> r.hash, reasons |-> reasons]

\* The first row that answers the request; any row answers a request without a key.
SelectedRow(rows, key) ==
    LET hits == {i \in DOMAIN rows : key = "" \/ rows[i].key = key}
    IN  IF hits = {} THEN NoRow ELSE rows[Min(hits)]

-----------------------------------------------------------------------------
(* lotus-core.                                                              *)

CoreSourceState(status) == IF status \in {"COMPLETE", "READY", "OK"} THEN "READY" ELSE "DEGRADED"

CoreSourceQuality(status) ==
    CASE status \in {"COMPLETE", "READY", "OK"} -> "COMPLETE"
      [] status = "STALE" -> "STALE"
      [] status \in {"PARTIAL", "INCOMPLETE"} -> "PARTIAL"
      [] OTHER -> "UNAVAILABLE"

CorePrimaryReason(status) ==
    IF CoreSourceState(status) = "READY" THEN "CORE_SOURCE_READY" ELSE "CORE_SOURCE_DEGRADED"

CoreSnapshot(dimension, type, r, value, unit, reasons) ==
    IF ~r.identified \/ ~Numeric(value) THEN Refused("CORE_OUTCOME_SOURCE_ERROR")
    ELSE Accepted(Snapshot(dimension, "lotus-core", type, r, value, unit,
            Posture(CoreSourceState(r.support), CoreSourceQuality(r.support)),
            {<<CorePrimaryReason(r.support), r.measure>>} \cup reasons))

RealizedCashSource(r) ==
    LET total == SelectedRow(r.rows, r.key)
    IN  IF r.key \notin {"portfolio", "reporting"} THEN Refused("CORE_OUTCOME_SOURCE_ERROR")
        ELSE CoreSnapshot("CASH_RESIDUAL", "HOLDINGS_AS_OF_CASH_BALANCE", r, total.value, total.unit, {})

TransactionDimension(measure) ==
    CASE measure = "trade_fee" -> "COST"
      [] measure = "withholding_tax_amount" -> "TAX"
      [] measure = "realized_fx_pnl" -> "FX_RESIDUAL"
      [] measure = "cashflow_amount" -> "CASH_RESIDUAL"

\* The reporting amount when the ledger names its currency, else the row's own.
TransactionMoneyValue(r, row) ==
    IF row.reporting # NoValue /\ r.context # "" THEN [value |-> row.reporting, unit |-> r.context]
    ELSE [value |-> row.value, unit |-> row.unit]

TransactionFxPnlValue(row) ==
    [value |-> IF row.reporting # NoValue THEN row.reporting ELSE row.value, unit |-> row.unit]

TransactionCashflowValue(row) == [value |-> row.value, unit |-> row.unit]

TransactionMeasureValue(r, row) ==
    CASE r.measure \in {"trade_fee", "withholding_tax_amount"} -> TransactionMoneyValue(r, row)
      [] r.measure = "realized_fx_pnl" -> TransactionFxPnlValue(row)
      [] OTHER -> TransactionCashflowValue(row)

RealizedTransactionSource(r) ==
    LET row == SelectedRow(r.rows, r.key)
        money == TransactionMeasureValue(r, row)
    IN  IF row = NoRow THEN Refused("CORE_OUTCOME_SOURCE_ERROR")
        ELSE CoreSnapshot(TransactionDimension(r.measure), "TRANSACTION_LEDGER_WINDOW", r, money.value, money.unit, {})

\* The answer must say whether projected flows are included.
RealizedCashflowProjectionSource(r) ==
    LET flow == SelectedRow(r.rows, r.key)
    IN  IF r.context \notin {"true", "false"} THEN Refused("CORE_OUTCOME_SOURCE_ERROR")
        ELSE CoreSnapshot("CASH_RESIDUAL", "PORTFOLIO_CASHFLOW_PROJECTION", r, flow.value, flow.unit, {})

\* Without a currency the answer must have exactly one total.
SelectedCurrencyTotal(r) ==
    IF r.key = "" /\ Len(r.rows) # 1 THEN NoRow ELSE SelectedRow(r.rows, r.key)

RealizedTaxSummarySource(r) ==
    LET total == SelectedCurrencyTotal(r)
        value == IF r.measure = "reporting_currency_total_tax_amount" THEN r.total ELSE total.value
        unit == IF r.measure = "reporting_currency_total_tax_amount" THEN r.context ELSE total.unit
    IN  IF r.count < 0 \/ unit = "" THEN Refused("CORE_OUTCOME_SOURCE_ERROR")
        ELSE CoreSnapshot("TAX", "PORTFOLIO_REALIZED_TAX_SUMMARY", r, value, unit, {})

\* The key stands for classification, timing, currency and the two flow flags.
RealizedCashMovementSource(r) ==
    LET bucket == SelectedRow(r.rows, r.key)
    IN  IF bucket = NoRow \/ r.count < 0 \/ bucket.unit = "" THEN Refused("CORE_OUTCOME_SOURCE_ERROR")
        ELSE CoreSnapshot("CASH_RESIDUAL", "PORTFOLIO_CASH_MOVEMENT_SUMMARY", r, bucket.value, bucket.unit, {})

ExecutionAcknowledgementPosture(state) ==
    IF state = "UNAVAILABLE" THEN Posture("BLOCKED", "MISSING") ELSE Posture("DEGRADED", "UNAVAILABLE")

ExecutionAcknowledgementReasons(r) ==
    {<<"CORE_EXECUTION_ACKNOWLEDGEMENT_FAIL_CLOSED", r.support>>, <<"EXECUTION_ACKNOWLEDGEMENT_COUNT", r.count>>}
        \cup {<<"EXECUTION_ACKNOWLEDGEMENT_BLOCKED_CAPABILITY", row.key>> : row \in Range(r.rows)}

RealizedExecutionAcknowledgementSource(r) ==
    IF ~r.identified \/ r.count < 0 THEN Refused("CORE_OUTCOME_SOURCE_ERROR")
    ELSE Accepted(Snapshot("EXECUTION_QUALITY", "lotus-core", "EXTERNAL_ORDER_EXECUTION_ACKNOWLEDGEMENT", r,
            r.count, "acknowledgements", ExecutionAcknowledgementPosture(r.support), ExecutionAcknowledgementReasons(r)))

UnavailableCoreCashSource(r) ==
    Accepted(Snapshot("CASH_RESIDUAL", "lotus-core", "HOLDINGS_AS_OF_CASH_BALANCE", [r EXCEPT !.hash = 0], NoValue,
                      "unknown", Posture("DEGRADED", "UNAVAILABLE"), {<<r.support, r.measure>>}))

UnavailableCoreCashflowProjectionSource(r) ==
    Accepted(Snapshot("CASH_RESIDUAL", "lotus-core", "PORTFOLIO_CASHFLOW_PROJECTION", [r EXCEPT !.hash = 0], NoValue,
                      "unknown", Posture("DEGRADED", "UNAVAILABLE"), {<<r.support, r.measure>>}))

-----------------------------------------------------------------------------
(* lotus-risk.                                                              *)

DegradedQuality(value) == IF value # NoValue THEN "PARTIAL" ELSE "UNAVAILABLE"

\* What the supportability state alone decides; NONE leaves it to the adapter.
SupportabilityPosture(state) ==
    CASE state = "unsupported" -> Posture("NOT_SUPPORTED", "NOT_SUPPORTED")
      [] state = "permission_blocked" -> Posture("BLOCKED", "MISSING")
      [] state = "stale" -> Posture("DEGRADED", "STALE")
      [] OTHER -> Posture("NONE", "NONE")

RiskSourcePosture(state, value) ==
    CASE SupportabilityPosture(state).state # "NONE" -> SupportabilityPosture(state)
      [] state # "ready" -> Posture("DEGRADED", DegradedQuality(value))
      [] OTHER -> Posture("READY", "COMPLETE")

RiskPrimaryReason(state) ==
    CASE state = "READY" -> "RISK_SOURCE_READY"
      [] state = "NOT_SUPPORTED" -> "RISK_SOURCE_NOT_SUPPORTED"
      [] state = "BLOCKED" -> "RISK_SOURCE_BLOCKED"
      [] OTHER -> "RISK_SOURCE_DEGRADED"

\* Every risk adapter: a fingerprint is required, a value may be absent but not
\* when the source is ready, and an unsupported source has none.
RiskSnapshot(type, r, value, unit, posture) ==
    IF r.hash = 0 \/ value = NotNumeric \/ (posture.state = "READY" /\ value = NoValue)
    THEN Refused("RISK_OUTCOME_SOURCE_ERROR")
    ELSE Accepted(Snapshot("RISK_REDUCTION", "lotus-risk", type, r,
            IF posture.state = "NOT_SUPPORTED" THEN NoValue ELSE value, unit, posture,
            {<<RiskPrimaryReason(posture.state), r.measure>>}))

RealizedRiskSource(r) ==
    LET value == SelectedRow(r.rows, r.key).value
    IN  RiskSnapshot("RISK_METRICS_REPORT", r, value, IF r.measure = "VAR" THEN "percentage_point" ELSE "ratio",
                     RiskSourcePosture(r.support, value))

RelativeDrawdownValue(r) == IF r.context = "applied" THEN SelectedRow(r.rows, r.key).value ELSE NoValue

DrawdownValue(r) ==
    IF r.measure = "relative_max_drawdown" THEN RelativeDrawdownValue(r) ELSE SelectedRow(r.rows, r.key).value

\* Only the absolute drawdown may be missing without degrading the source.
DrawdownSourcePosture(r, value) ==
    CASE SupportabilityPosture(r.support).state # "NONE" -> SupportabilityPosture(r.support)
      [] value = NoValue /\ r.measure # "max_drawdown" -> Posture("DEGRADED", "UNAVAILABLE")
      [] OTHER -> RiskSourcePosture(r.support, value)

RealizedDrawdownSource(r) ==
    RiskSnapshot("DRAWDOWN_RESPONSE", r, DrawdownValue(r), IF r.measure = "time_under_water_days" THEN "days" ELSE "ratio",
                 DrawdownSourcePosture(r, DrawdownValue(r)))

IsIssuerMeasure(measure) == measure \in {"issuer_hhi_current", "top_issuer_weight_current"}

ConcentrationSourcePosture(r, value) ==
    LET posture == RiskSourcePosture(r.support, value)
    IN  IF posture.state = "READY" /\ IsIssuerMeasure(r.measure) /\ r.context # "complete"
        THEN Posture("DEGRADED", DegradedQuality(value)) ELSE posture

RealizedConcentrationSource(r) ==
    LET value == SelectedRow(r.rows, r.key).value
    IN  RiskSnapshot("CONCENTRATION_RESPONSE", r, value, IF r.measure = "top_issuer_weight_current" THEN "ratio" ELSE "hhi",
                     ConcentrationSourcePosture(r, value))

\* The benchmark or the risk-free rate counts only for metrics that need it.
RollingContextReason(r) ==
    IF r.measure \in {"ROLLING_BETA", "ROLLING_TRACKING_ERROR", "ROLLING_INFORMATION_RATIO", "ROLLING_SHARPE"}
    THEN r.context ELSE "CONTEXT_NOT_REQUIRED"

RollingSourcePosture(r, value) ==
    CASE SupportabilityPosture(r.support).state # "NONE" -> SupportabilityPosture(r.support)
      [] RollingContextReason(r) \in {"BENCHMARK_UNAVAILABLE", "RISK_FREE_UNAVAILABLE", "NO_ALIGNED_OBSERVATIONS"} ->
            Posture("DEGRADED", "UNAVAILABLE")
      [] OTHER -> RiskSourcePosture(r.support, value)

RealizedRollingRiskSource(r) ==
    LET window == SelectedRow(r.rows, r.key)
    IN  RiskSnapshot("ROLLING_RISK_METRICS_REPORT", r, window.value, "ratio", RollingSourcePosture(r, window.value))

HistoricalAttributionPosture(r, value) ==
    CASE r.support \in {"unsupported", "permission_blocked"} -> SupportabilityPosture(r.support)
      [] r.context = "PERIOD_ERROR" -> Posture("BLOCKED", "MISSING")
      [] r.context = "QUALITY_FLAGS" /\ r.support = "ready" -> Posture("DEGRADED", DegradedQuality(value))
      [] OTHER -> RiskSourcePosture(r.support, value)

\* A contributor's measure needs the contributor's group.
RealizedHistoricalAttributionSource(r) ==
    LET value == SelectedRow(r.rows, r.key).value
    IN  IF r.measure = "contributor_weight_average" /\ r.key = "" THEN Refused("RISK_OUTCOME_SOURCE_ERROR")
        ELSE RiskSnapshot("HISTORICAL_RISK_ATTRIBUTION", r, value, "ratio", HistoricalAttributionPosture(r, value))

UnavailableRiskSource(r) ==
    Accepted(Snapshot("RISK_REDUCTION", "lotus-risk", "RISK_METRICS_REPORT", [r EXCEPT !.hash = 0], NoValue, "ratio",
                      Posture("DEGRADED", "UNAVAILABLE"), {<<r.support, r.measure>>}))

-----------------------------------------------------------------------------
(* lotus-performance: percentage points become ratios.                      *)

FromPercentagePoints(points) == IF Numeric(points) THEN points \div 100 ELSE points

PerformanceSnapshot(type, r, value, posture) ==
    IF ~r.identified \/ value = NotNumeric \/ (posture.state = "READY" /\ value = NoValue)
    THEN Refused("PERFORMANCE_OUTCOME_SOURCE_ERROR")
    ELSE Accepted(Snapshot("PERFORMANCE", "lotus-performance", type, r,
            IF posture.state = "NOT_SUPPORTED" THEN NoValue ELSE value, "ratio", posture,
            {<<"PERFORMANCE_SOURCE", posture.state>>}))

RealizedPerformanceSource(r) ==
    PerformanceSnapshot("WORKSPACE_SUMMARY_TWR_RETURN", r, FromPercentagePoints(SelectedRow(r.rows, r.key).value),
                        Posture("READY", "COMPLETE"))

RealizedActivePerformanceSource(r) ==
    PerformanceSnapshot("WORKSPACE_SUMMARY_ACTIVE_RETURN", r, FromPercentagePoints(SelectedRow(r.rows, r.key).value),
                        Posture("READY", "COMPLETE"))

RealizedMwrSource(r) ==
    PerformanceSnapshot("WORKSPACE_SUMMARY_MWR_RETURN", r, FromPercentagePoints(SelectedRow(r.rows, r.key).value),
                        Posture("READY", "COMPLETE"))

PerformanceSourcePosture(state, value) ==
    CASE state = "unsupported" -> Posture("NOT_SUPPORTED", "NOT_SUPPORTED")
      [] state \in {"error", "empty"} -> Posture("BLOCKED", "MISSING")
      [] state = "stale" -> Posture("DEGRADED", "STALE")
      [] state # "ready" -> Posture("DEGRADED", DegradedQuality(value))
      [] OTHER -> Posture("READY", "COMPLETE")

RealizedContributionSource(r) ==
    LET value == FromPercentagePoints(SelectedRow(r.rows, r.key).value)
    IN  PerformanceSnapshot("PERFORMANCE_CONTRIBUTION", r, value, PerformanceSourcePosture(r.support, value))

\* The reconciliation, or the first level or currency that was asked for.
AttributionValue(r) ==
    FromPercentagePoints(IF r.measure = "reconciliation" THEN r.total ELSE SelectedRow(r.rows, r.key).value)

RealizedAttributionSource(r) ==
    PerformanceSnapshot("PERFORMANCE_ATTRIBUTION", r, AttributionValue(r),
                        PerformanceSourcePosture(r.support, AttributionValue(r)))

UnavailablePerformanceSource(r) ==
    Accepted(Snapshot("PERFORMANCE", "lotus-performance", "WORKSPACE_SUMMARY_TWR_RETURN", [r EXCEPT !.hash = 0], NoValue,
                      "ratio", Posture("DEGRADED", "UNAVAILABLE"), {<<r.support, r.measure>>}))

RealizedSource(r) ==
    CASE r.kind = "cash" -> RealizedCashSource(r)
      [] r.kind = "ledger" -> RealizedTransactionSource(r)
      [] r.kind = "projection" -> RealizedCashflowProjectionSource(r)
      [] r.kind = "tax" -> RealizedTaxSummarySource(r)
      [] r.kind = "movement" -> RealizedCashMovementSource(r)
      [] r.kind = "acknowledgement" -> RealizedExecutionAcknowledgementSource(r)
      [] r.kind = "risk" -> RealizedRiskSource(r)
      [] r.kind = "drawdown" -> RealizedDrawdownSource(r)
      [] r.kind = "concentration" -> RealizedConcentrationSource(r)
      [] r.kind = "rolling" -> RealizedRollingRiskSource(r)
      [] r.kind = "history" -> RealizedHistoricalAttributionSource(r)
      [] r.kind = "twr" -> RealizedPerformanceSource(r)
      [] r.kind = "active" -> RealizedActivePerformanceSource(r)
      [] r.kind = "mwr" -> RealizedMwrSource(r)
      [] r.kind = "contribution" -> RealizedContributionSource(r)
      [] r.kind = "attribution" -> RealizedAttributionSource(r)
      [] r.kind = "no-cash" -> UnavailableCoreCashSource(r)
      [] r.kind = "no-projection" -> UnavailableCoreCashflowProjectionSource(r)
      [] r.kind = "no-risk" -> UnavailableRiskSource(r)
      [] r.kind = "no-performance" -> UnavailablePerformanceSource(r)

-----------------------------------------------------------------------------
(* The realized snapshot: one metric per required dimension.                *)

Metric(value, unit, state, reasons, refs) ==
    [value |-> value, unit |-> unit, state |-> state, reasons |-> reasons, refs |-> refs]

SourceRef(snapshot) == <<snapshot.system, snapshot.type, snapshot.id>>

MissingState(dimension) == IF dimension \in {"RISK_REDUCTION", "PERFORMANCE"} THEN "NOT_SUPPORTED" ELSE "BLOCKED"

MissingReason(dimension) ==
    CASE dimension = "EXECUTION_QUALITY" -> "EXECUTION_EVIDENCE_BLOCKED"
      [] dimension = "RISK_REDUCTION" -> "RISK_OUTCOME_NOT_SUPPORTED"
      [] dimension = "PERFORMANCE" -> "PERFORMANCE_OUTCOME_NOT_SUPPORTED"
      [] OTHER -> "SOURCE_EVIDENCE_INCOMPLETE"

BlockedReason(dimension) ==
    IF dimension = "EXECUTION_QUALITY" THEN "EXECUTION_EVIDENCE_BLOCKED" ELSE "SOURCE_EVIDENCE_INCOMPLETE"

DegradedReason(dimension, snapshot) ==
    CASE snapshot.quality # "STALE" /\ dimension = "PERFORMANCE" -> "PERFORMANCE_SOURCE_UNAVAILABLE"
      [] snapshot.quality # "STALE" /\ dimension = "RISK_REDUCTION" -> "RISK_SOURCE_UNAVAILABLE"
      [] OTHER -> "SOURCE_EVIDENCE_INCOMPLETE"

StateFromSource(snapshot) ==
    CASE "NOT_SUPPORTED" \in {snapshot.state, snapshot.quality} -> "NOT_SUPPORTED"
      [] snapshot.state = "BLOCKED" \/ snapshot.quality \in {"MISSING", "MALFORMED", "CONFLICTING"} -> "BLOCKED"
      [] snapshot.state = "DEGRADED" \/ snapshot.quality \in {"STALE", "UNAVAILABLE", "PARTIAL"} -> "DEGRADED"
      [] OTHER -> "READY"

SourceReason(dimension, snapshot, state) ==
    CASE state = "NOT_SUPPORTED" -> MissingReason(dimension)
      [] state = "BLOCKED" -> BlockedReason(dimension)
      [] state = "DEGRADED" -> DegradedReason(dimension, snapshot)
      [] OTHER -> "SOURCE_READY"

MissingMetric(dimension) == Metric(NoValue, "unknown", MissingState(dimension), {<<MissingReason(dimension), "">>}, {})

ConflictingMetric(dimension, snapshots) ==
    Metric(NoValue, Head(snapshots).unit, "BLOCKED", {<<BlockedReason(dimension), "">>}, {SourceRef(s) : s \in Range(snapshots)})

SingleSourceMetric(dimension, snapshot) ==
    LET told == StateFromSource(snapshot)
        value == IF told \in {"BLOCKED", "NOT_SUPPORTED"} THEN NoValue ELSE snapshot.value
        state == IF told = "READY" /\ value = NoValue THEN "BLOCKED" ELSE told
    IN  Metric(value, snapshot.unit, state, {<<SourceReason(dimension, snapshot, state), "">>} \cup snapshot.reasons,
               {SourceRef(snapshot)})

\* Sources that disagree block the dimension; otherwise the first one speaks for all.
MetricFromSources(dimension, snapshots) ==
    IF snapshots = <<>> THEN MissingMetric(dimension)
    ELSE IF Cardinality({s.value : s \in Range(snapshots)}) > 1 THEN ConflictingMetric(dimension, snapshots)
    ELSE SingleSourceMetric(dimension, Head(snapshots))

RealizedRollUp(states) ==
    CASE states = {} -> "BLOCKED"
      [] states = {"NOT_SUPPORTED"} -> "NOT_SUPPORTED"
      [] "BLOCKED" \in states -> "BLOCKED"
      [] states \cap {"DEGRADED", "NOT_SUPPORTED"} # {} -> "DEGRADED"
      [] OTHER -> "READY"

AssembleRealizedOutcome(portfolio, snapshots, dimensions) ==
    LET OfDimension(d) == SelectSeq(snapshots, LAMBDA s : s.dimension = d)
        values == [d \in dimensions |-> MetricFromSources(d, OfDimension(d))]
    IN  [portfolio |-> portfolio, values |-> values, state |-> RealizedRollUp({values[d].state : d \in dimensions}),
         reasons |-> UNION {values[d].reasons : d \in dimensions},
         lineage |-> {SourceRef(s) : s \in Range(snapshots)},
         hashes |-> {<<s.id, s.hash>> : s \in {t \in Range(snapshots) : t.hash # 0}}]

-----------------------------------------------------------------------------
(* The expected snapshot, from the artifacts that led to the trade.         *)

ConstructionState(set, alternative) ==
    LET states == {set.status, alternative.status, set.source}
    IN  CASE "BLOCKED" \in states -> "BLOCKED"
          [] "PENDING_REVIEW" \in states -> "PENDING_REVIEW"
          [] "DEGRADED" \in states -> "DEGRADED"
          [] OTHER -> "READY"

ProofPackState(status) ==
    IF status \in {"READY", "PENDING_REVIEW", "DEGRADED", "BLOCKED"} THEN status ELSE "BLOCKED"

WaveItemState(item) ==
    CASE item.state \in {"SOURCE_BLOCKED", "SIMULATION_BLOCKED"} -> "BLOCKED"
      [] item.state \in {"SOURCE_DEGRADED", "REVIEW_REQUIRED"} -> "DEGRADED"
      [] OTHER -> "READY"

HighestExpectedState(states) ==
    CASE "BLOCKED" \in states -> "BLOCKED"
      [] "PENDING_REVIEW" \in states -> "PENDING_REVIEW"
      [] "DEGRADED" \in states -> "DEGRADED"
      [] OTHER -> "READY"

ProofPackIsLinked(set, alternative, pack) ==
    /\ pack.portfolio = set.portfolio
    /\ pack.set = set.id
    /\ pack.alternative = alternative.id
    /\ alternative.method = "DO_NOTHING_BASELINE" => pack.run = 0
    /\ (alternative.run # 0 /\ pack.run # 0) => pack.run = alternative.run

WaveItemIsLinked(set, alternative, pack, item) ==
    /\ item.portfolio = set.portfolio
    /\ (pack.mandate # 0 /\ item.mandate # 0) => item.mandate = pack.mandate
    /\ item.set = set.id
    /\ item.alternative = alternative.id
    /\ item.pack = pack.id

HandoffIsLinked(wave, item, handoff) == handoff.wave = wave.id /\ item.id \in handoff.items /\ ~handoff.claimed

\* Only what the construction measured: drift, cost and cash.
ExpectedValues(set, alternative) ==
    LET state == ConstructionState(set, alternative)
        refs == {<<"lotus-manage", "CONSTRUCTION_SELECTED_ALTERNATIVE", <<set.id, alternative.id>>>>}
        Told(value, unit) == Metric(value, unit, state, {<<"CONSTRUCTION", alternative.status>>}, refs)
        all == [DRIFT_REDUCTION |-> Told(alternative.drift, "ratio"), COST |-> Told(alternative.cost, "USD"),
                CASH_RESIDUAL |-> Told(alternative.cash, "ratio")]
    IN  [d \in {d \in DOMAIN all : all[d].value # NoValue} |-> all[d]]

SelectedAlternative(set, selection) ==
    IF selection.set # set.id THEN {} ELSE {a \in Range(set.alternatives) : a.id = selection.alternative}

ExpectedIdentity(set, alternative, pack, item, handoff) ==
    [portfolio |-> set.portfolio, mandate |-> pack.mandate, run |-> IF alternative.run # 0 THEN alternative.run ELSE pack.run,
     set |-> set.id, alternative |-> alternative.id, pack |-> pack.id,
     item |-> {i.id : i \in item}, handoff |-> {h.id : h \in handoff}]

ExpectedSupportability(set, alternative, pack, item, handoff) ==
    HighestExpectedState({ConstructionState(set, alternative), ProofPackState(pack.status)}
                         \cup {WaveItemState(i) : i \in item} \cup {"READY" : h \in handoff})

AssembleExpectedOutcome(set, selection, pack, wave, itemId, handoffId) ==
    LET chosen == SelectedAlternative(set, selection)
        alternative == CHOOSE a \in chosen : TRUE
        items == {i \in wave.items : i.id = itemId}
        handoffs == {h \in wave.handoffs : h.id = handoffId}
        linked == /\ ProofPackIsLinked(set, alternative, pack)
                  /\ (wave.id # 0) = (itemId # 0)
                  /\ itemId # 0 => items # {} /\ \A i \in items : WaveItemIsLinked(set, alternative, pack, i)
                  /\ handoffId # 0 => itemId # 0 /\ handoffs # {} /\ \A h \in handoffs, i \in items : HandoffIsLinked(wave, i, h)
    IN  IF chosen = {} \/ ~linked \/ DOMAIN ExpectedValues(set, alternative) = {} THEN Refused("EXPECTED_SNAPSHOT_ERROR")
        ELSE Accepted([identity |-> ExpectedIdentity(set, alternative, pack, items, handoffs),
                       values |-> ExpectedValues(set, alternative),
                       state |-> ExpectedSupportability(set, alternative, pack, items, handoffs)])

-----------------------------------------------------------------------------
(* The comparison.                                                          *)

SourceSupportabilityState(d) ==
    LET states == {d.expected.state, d.realized.state}
    IN  CASE "NOT_SUPPORTED" \in states -> "NOT_SUPPORTED"
          [] "BLOCKED" \in states -> "BLOCKED"
          [] "DEGRADED" \in states -> "DEGRADED"
          [] OTHER -> "READY"

VariancePressure(direction, variance) ==
    CASE direction = "LOWER_IS_BETTER" -> IF variance > 0 THEN variance ELSE 0
      [] direction = "HIGHER_IS_BETTER" -> IF variance < 0 THEN -variance ELSE 0
      [] OTHER -> IF variance < 0 THEN -variance ELSE variance

ReadyReason(dimension) ==
    CASE dimension = "DRIFT_REDUCTION" -> "DRIFT_REDUCTION_ACHIEVED"
      [] dimension = "RISK_REDUCTION" -> "RISK_REDUCTION_ACHIEVED"
      [] OTHER -> "OUTCOME_WITHIN_TOLERANCE"

PendingReason(dimension) ==
    CASE dimension = "DRIFT_REDUCTION" -> "DRIFT_REDUCTION_SHORTFALL"
      [] dimension = "RISK_REDUCTION" -> "RISK_INCREASED"
      [] dimension = "PERFORMANCE" -> "PERFORMANCE_BELOW_EXPECTATION"
      [] dimension = "COST" -> "COST_ABOVE_ESTIMATE"
      [] dimension = "TAX" -> "TAX_ABOVE_BUDGET"
      [] dimension = "EXECUTION_QUALITY" -> "SLIPPAGE_ABOVE_TOLERANCE"
      [] dimension = "FX_RESIDUAL" -> "FX_RESIDUAL_VARIANCE"
      [] dimension = "CASH_RESIDUAL" -> "CASH_RESIDUAL_OUT_OF_BAND"
      [] dimension = "RULE_OUTCOME" -> "RULE_OUTCOME_BREACHED"

DimensionResult(d, state, variance, reason) ==
    [dimension |-> d.dimension, state |-> state, expected |-> d.expected.value, realized |-> d.realized.value,
     variance |-> variance, reason |-> reason, refs |-> d.expected.refs \cup d.realized.refs]

ComparedDimension(d, source) ==
    LET variance == d.realized.value - d.expected.value
        pressure == VariancePressure(d.direction, variance)
        state == CASE pressure > d.hard -> "BREACHED"
                   [] pressure > d.soft -> "PENDING_REVIEW"
                   [] OTHER -> source
    IN  DimensionResult(d, state, variance,
            CASE state \in {"BREACHED", "PENDING_REVIEW"} -> PendingReason(d.dimension)
              [] state = "DEGRADED" -> "SOURCE_EVIDENCE_INCOMPLETE"
              [] OTHER -> ReadyReason(d.dimension))

\* The source first, then the values, then the tolerance.
CompareDimension(d) ==
    LET source == SourceSupportabilityState(d)
    IN  CASE source = "NOT_SUPPORTED" -> DimensionResult(d, source, NoValue, MissingReason(d.dimension))
          [] source = "BLOCKED" -> DimensionResult(d, source, NoValue, BlockedReason(d.dimension))
          [] NoValue \in {d.expected.value, d.realized.value} ->
                DimensionResult(d, "BLOCKED", NoValue, BlockedReason(d.dimension))
          [] OTHER -> ComparedDimension(d, source)

\* Mutant: a dimension nobody supports does not count.
RollUpOfSupported(all) ==
    LET states == all \ {"NOT_SUPPORTED"}
    IN  CASE states = {} -> "BLOCKED"
          [] "BLOCKED" \in states -> "BLOCKED"
          [] "BREACHED" \in states -> "BREACHED"
          [] "PENDING_REVIEW" \in states -> "PENDING_REVIEW"
          [] "DEGRADED" \in states -> "DEGRADED"
          [] OTHER -> "READY"

RollUpState(states) ==
    CASE states = {} -> "BLOCKED"
      [] states = {"NOT_SUPPORTED"} -> "NOT_SUPPORTED"
      [] "BLOCKED" \in states -> "BLOCKED"
      [] "BREACHED" \in states -> "BREACHED"
      [] "PENDING_REVIEW" \in states -> "PENDING_REVIEW"
      [] states \cap {"DEGRADED", "NOT_SUPPORTED"} # {} -> "DEGRADED"
      [] OTHER -> "READY"

CompareOutcomeDimensions(inputs) ==
    LET results == [i \in DOMAIN inputs |-> CompareDimension(inputs[i])]
    IN  [state |-> RollUpState({results[i].state : i \in DOMAIN results}), results |-> results,
         reasons |-> {results[i].reason : i \in DOMAIN results}]

=============================================================================
