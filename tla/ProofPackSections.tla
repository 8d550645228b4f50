------------------------- MODULE ProofPackSections --------------------------
(***************************************************************************)
(* What a pre-trade proof pack says: the state and the reasons of each of  *)
(* its sections, worked out from the run, the construction alternative,    *)
(* its selection and the mandate it is generated from, and the status all  *)
(* of its sections leave.                                                  *)
(*                                                                         *)
(* A section's payload is its state and its reason codes.  `evidence` is   *)
(* what the builder is given: [run, set, alternative, selection, reason,   *)
(* mandate, twin, health, gaps, regime, actor], with NoContext for a part  *)
(* that is not there.                                                      *)
(***************************************************************************)
EXTENDS ConstructionEvidence

Payload(state, reasons) == [state |-> state, reasons |-> reasons]

-----------------------------------------------------------------------------
(* Section states                                                          *)

SectionSeverity(state) ==
    CASE state \in {"READY", "NOT_APPLICABLE"} -> 0 [] state = "PENDING_REVIEW" -> 1 [] state = "DEGRADED" -> 2 [] state = "BLOCKED" -> 3

LowestSectionState(states) == CHOOSE s \in states : \A t \in states : SectionSeverity(s) >= SectionSeverity(t)

AggregateStatus(states) ==
    IF "BLOCKED" \in states THEN "BLOCKED"
    ELSE IF "PENDING_REVIEW" \in states THEN "PENDING_REVIEW"
    ELSE IF "DEGRADED" \in states THEN "DEGRADED"
    ELSE "READY"

-----------------------------------------------------------------------------
(* Analytics carried by the alternative                                    *)

Families == {"risk", "performance", "cost", "restriction", "sustainability", "regime"}

DegradedContextReasonCodes(context, code) ==
    IF context.status # "READY" /\ context.reasons = {} THEN {code} ELSE context.reasons

RiskSourceAnalytics(context) == Payload(context.status, DegradedContextReasonCodes(context, "DPM_RISK_AUTHORITY_CONTEXT_DEGRADED"))

PerformanceSourceAnalytics(context) == Payload(context.status, DegradedContextReasonCodes(context, "DPM_PERFORMANCE_CONTEXT_DEGRADED"))

TransactionCostSourceAnalytics(context) ==
    Payload(context.status, DegradedContextReasonCodes(context, "DPM_TRANSACTION_COST_CONTEXT_DEGRADED"))

ClientRestrictionSourceAnalytics(context) ==
    Payload(context.status, DegradedContextReasonCodes(context, "DPM_CLIENT_RESTRICTION_CONTEXT_DEGRADED"))

SustainabilityPreferenceSourceAnalytics(context) ==
    Payload(context.status, DegradedContextReasonCodes(context, "DPM_SUSTAINABILITY_PREFERENCE_CONTEXT_DEGRADED"))

\* What a scenario pack does not say about its own governance.
MissingRegimeStressGovernanceEvidence(context) ==
    {"REGIME_SCENARIO_CIO_APPROVAL_EVIDENCE_MISSING" : x \in IF context.approved THEN {} ELSE {0}}
        \cup {"REGIME_SCENARIO_EFFECTIVE_PERIOD_EVIDENCE_MISSING" : x \in IF context.effective THEN {} ELSE {0}}
        \cup {"REGIME_SCENARIO_APPLICABILITY_EVIDENCE_MISSING" : x \in IF context.applicable THEN {} ELSE {0}}

\* The first kind of exception any of the source's reasons names.
RegimeSourceReasonPosture(reasons) ==
    IF "INAPPLICABLE" \in reasons THEN "INAPPLICABLE"
    ELSE IF "EFFECTIVE_PERIOD" \in reasons THEN "EFFECTIVE_PERIOD_EXCEPTION"
    ELSE IF "CONTRIBUTION_PARTIAL" \in reasons THEN "CONTRIBUTION_PARTIAL"
    ELSE "READY"

RegimeSourceReasonPostureEffect(posture) ==
    CASE posture = "INAPPLICABLE" -> Payload("BLOCKED", {"REGIME_SCENARIO_APPLICABILITY_NOT_CONFIRMED"})
      [] posture = "EFFECTIVE_PERIOD_EXCEPTION" -> Payload("DEGRADED", {"REGIME_SCENARIO_EFFECTIVE_PERIOD_EXCEPTION"})
      [] posture = "CONTRIBUTION_PARTIAL" -> Payload("PENDING_REVIEW", {"REGIME_SCENARIO_CONTRIBUTION_EVIDENCE_PARTIAL"})
      [] posture = "READY" -> Payload("READY", {})

RegimeStressEvidencePosture(context) ==
    LET missing == MissingRegimeStressGovernanceEvidence(context)
        effect == RegimeSourceReasonPostureEffect(RegimeSourceReasonPosture(context.reasons))
    IN Payload(LowestSectionState({effect.state, IF missing = {} THEN "READY" ELSE "PENDING_REVIEW"}), missing \cup effect.reasons)

RegimeStressSourceAnalytics(context) ==
    LET posture == RegimeStressEvidencePosture(context)
    IN Payload(LowestSectionState({context.status, posture.state}),
               context.reasons \cup posture.reasons
                   \cup (IF context.status \in {"DEGRADED", "BLOCKED"} THEN {"DPM_REGIME_STRESS_CONTEXT_DEGRADED"} ELSE {}))

SourceAnalyticsForContext(family, context) ==
    CASE family = "risk" -> RiskSourceAnalytics(context)
      [] family = "performance" -> PerformanceSourceAnalytics(context)
      [] family = "cost" -> TransactionCostSourceAnalytics(context)
      [] family = "restriction" -> ClientRestrictionSourceAnalytics(context)
      [] family = "sustainability" -> SustainabilityPreferenceSourceAnalytics(context)
      [] family = "regime" -> RegimeStressSourceAnalytics(context)

\* The baseline carries no contexts; the request's own regime context fills a gap.
ContextOf(evidence, family) ==
    LET carried == IF Given(evidence.alternative) /\ Given(evidence.alternative.context)
                   THEN evidence.alternative.context[family] ELSE NoContext
    IN IF ~Given(carried) /\ family = "regime" THEN evidence.regime ELSE carried

SourceAnalyticsForProofPack(evidence) ==
    [family \in {f \in Families : Given(ContextOf(evidence, f))} |-> SourceAnalyticsForContext(family, ContextOf(evidence, family))]

SourceAnalyticsSectionPayload(analytics, family, code) ==
    IF family \in DOMAIN analytics THEN analytics[family] ELSE Payload("DEGRADED", {code})

-----------------------------------------------------------------------------
(* Sections that need no run                                               *)

DecisionSummarySectionPayload(evidence) ==
    IF evidence.reason THEN Payload("READY", {}) ELSE Payload("DEGRADED", {"DPM_PROOF_PACK_REASON_MISSING"})

MandateHealthState(health) ==
    IF health.status \in {"BLOCKED", "PENDING_REVIEW"} THEN health.status
    ELSE IF health.readiness # "READY" THEN "DEGRADED"
    ELSE "READY"

MandateContextSectionPayload(evidence) ==
    IF evidence.mandate = 0 THEN Payload("BLOCKED", {"DPM_PROOF_PACK_MANDATE_ID_MISSING"})
    ELSE IF ~Given(evidence.twin)
         THEN Payload("DEGRADED", IF evidence.gaps = {} THEN {"DPM_MANDATE_TWIN_EVIDENCE_MISSING"} ELSE evidence.gaps)
    ELSE IF ~Given(evidence.health) THEN Payload("DEGRADED", {"DPM_MANDATE_HEALTH_EVIDENCE_MISSING"} \cup evidence.twin.gaps)
    ELSE Payload(MandateHealthState(evidence.health), evidence.health.reasons \cup evidence.twin.gaps)

SourceReadinessSectionPayload(run) ==
    IF ~Given(run) THEN Payload("BLOCKED", {"DPM_SOURCE_RUN_MISSING"})
    ELSE IF run.lineage \in {"NONE", "READY"} THEN Payload("READY", {})
    ELSE Payload("DEGRADED", {"DPM_SOURCE_READINESS_DEGRADED"})

SelectedAlternativeSectionPayload(alternative) ==
    IF ~Given(alternative) THEN Payload("DEGRADED", {"DPM_DIRECT_RUN_NO_SELECTED_ALTERNATIVE"})
    ELSE Payload(alternative.status, IF alternative.status = "READY" THEN {} ELSE {"DPM_SELECTED_METHOD_NOT_READY"})

\* The sections whose payload does not wait for a run.
PreRunSections == {"decision_summary", "mandate_context", "source_readiness", "selected_alternative", "risk_impact",
                   "performance_context", "sustainability_controls", "reporting_refs", "ai_refs"}

PreRunCoreSectionPayload(evidence, section) ==
    CASE section = "decision_summary" -> DecisionSummarySectionPayload(evidence)
      [] section = "mandate_context" -> MandateContextSectionPayload(evidence)
      [] section = "source_readiness" -> SourceReadinessSectionPayload(evidence.run)
      [] section = "selected_alternative" -> SelectedAlternativeSectionPayload(evidence.alternative)

PreRunSourceAnalyticsPayload(analytics, section) ==
    CASE section = "risk_impact" -> SourceAnalyticsSectionPayload(analytics, "risk", "DPM_RISK_AUTHORITY_CONTEXT_MISSING")
      [] section = "performance_context" -> SourceAnalyticsSectionPayload(analytics, "performance", "DPM_PERFORMANCE_CONTEXT_MISSING")
      [] section = "sustainability_controls" ->
            SourceAnalyticsSectionPayload(analytics, "sustainability", "DPM_SUSTAINABILITY_PREFERENCE_CONTEXT_MISSING")

PreRunSectionPayload(evidence, analytics, section) ==
    CASE section \in {"decision_summary", "mandate_context", "source_readiness", "selected_alternative"} ->
            PreRunCoreSectionPayload(evidence, section)
      [] section \in {"risk_impact", "performance_context", "sustainability_controls"} ->
            PreRunSourceAnalyticsPayload(analytics, section)
      [] section \in {"reporting_refs", "ai_refs"} -> Payload("READY", {})

-----------------------------------------------------------------------------
(* Sections of the run                                                     *)

TradeIntentsSectionPayload(run) ==
    IF run.trades = <<>> THEN Payload("BLOCKED", {"DPM_TRADE_INTENTS_MISSING"}) ELSE Payload("READY", {})

AfterStateSectionPayload(run) ==
    IF run.status = "BLOCKED" THEN Payload("BLOCKED", {"DPM_AFTER_STATE_BLOCKED"}) ELSE Payload("READY", {})

RunStateSectionPayload(run, section) ==
    CASE section \in {"before_state", "target_state"} -> Payload("READY", {})
      [] section = "trade_intents" -> TradeIntentsSectionPayload(run)
      [] section = "after_state" -> AfterStateSectionPayload(run)

DriftImpactSectionPayload(alternative) ==
    IF Given(alternative) THEN Payload("READY", {}) ELSE Payload("DEGRADED", {"DPM_DRIFT_COMPARISON_UNAVAILABLE"})

TaxImpactSectionPayload(run) == IF run.tax THEN Payload("READY", {}) ELSE Payload("DEGRADED", {"DPM_TAX_IMPACT_MISSING"})

RuleResultsSectionPayload(run) ==
    LET failed == {rule \in run.rules : rule.failed}
    IN Payload(IF \E rule \in failed : rule.hard THEN "BLOCKED" ELSE "READY", {rule.code : rule \in failed})

TurnoverAndCostSectionPayload(alternative, analytics) ==
    LET base == IF Given(alternative) THEN Payload("READY", {}) ELSE Payload("DEGRADED", {"DPM_TURNOVER_COST_METRICS_MISSING"})
    IN IF "cost" \in DOMAIN analytics
       THEN Payload(LowestSectionState({base.state, analytics["cost"].state}), base.reasons \cup analytics["cost"].reasons)
       ELSE IF Given(alternative) THEN Payload("DEGRADED", {"DPM_TRANSACTION_COST_AUTHORITY_CONTEXT_MISSING"})
       ELSE base

RunDiagnosticsSectionPayload(run, section) ==
    CASE section = "liquidity_and_cash" ->
            IF run.breaches THEN Payload("BLOCKED", {"DPM_CASH_LADDER_BREACH"}) ELSE Payload("READY", {})
      [] section = "fx_funding_plan" ->
            IF run.missingFx THEN Payload("BLOCKED", {"DPM_REQUIRED_FX_PAIR_MISSING"}) ELSE Payload("READY", {})
      [] section = "currency_overlay_evidence" -> Payload("DEGRADED", {"DPM_CURRENCY_OVERLAY_CONTEXT_MISSING"})

EligibilityAndRestrictionsSectionPayload(run, analytics) ==
    LET universe == IF run.excluded THEN Payload("PENDING_REVIEW", {"DPM_UNIVERSE_EXCLUSIONS_PRESENT"}) ELSE Payload("READY", {})
    IN IF "restriction" \in DOMAIN analytics
       THEN Payload(LowestSectionState({universe.state, analytics["restriction"].state}),
                    universe.reasons \cup analytics["restriction"].reasons)
       ELSE universe

-----------------------------------------------------------------------------
(* Governance sections                                                     *)

ApprovalSectionState(run) ==
    IF run.status = "BLOCKED" \/ run.gate = "BLOCKED" THEN "BLOCKED"
    ELSE IF run.status = "PENDING_REVIEW" \/ run.gate \in {"COMPLIANCE_REVIEW_REQUIRED", "RISK_REVIEW_REQUIRED", "CLIENT_CONSENT_REQUIRED"}
         THEN "PENDING_REVIEW"
    ELSE "READY"

OperationsHandoffSectionPayload(run) ==
    IF run.status = "READY" THEN Payload("READY", {}) ELSE Payload("PENDING_REVIEW", {"DPM_OPERATIONS_REVIEW_REQUIRED"})

GovernanceSectionPayload(run, section) ==
    CASE section = "approval_requirements" -> Payload(ApprovalSectionState(run), IF run.gate = "NONE" THEN {} ELSE {run.gate})
      [] section = "operations_handoff" -> OperationsHandoffSectionPayload(run)
      [] section \in {"decision_timeline", "lineage", "supportability"} -> Payload("READY", {})

-----------------------------------------------------------------------------
(* Every section                                                           *)

RunSections == {"before_state", "target_state", "trade_intents", "after_state", "drift_impact", "tax_impact", "turnover_and_cost",
                "liquidity_and_cash", "fx_funding_plan", "currency_overlay_evidence", "scenario_and_regime_evidence",
                "eligibility_and_restrictions", "rule_results", "approval_requirements", "operations_handoff",
                "decision_timeline", "lineage", "supportability"}

RunPresentSectionPayload(evidence, analytics, section) ==
    LET run == evidence.run
    IN CASE section \in {"before_state", "target_state", "trade_intents", "after_state"} -> RunStateSectionPayload(run, section)
         [] section = "drift_impact" -> DriftImpactSectionPayload(evidence.alternative)
         [] section = "tax_impact" -> TaxImpactSectionPayload(run)
         [] section = "rule_results" -> RuleResultsSectionPayload(run)
         [] section = "turnover_and_cost" -> TurnoverAndCostSectionPayload(evidence.alternative, analytics)
         [] section \in {"liquidity_and_cash", "fx_funding_plan", "currency_overlay_evidence"} ->
               RunDiagnosticsSectionPayload(run, section)
         [] section = "scenario_and_regime_evidence" -> SourceAnalyticsSectionPayload(analytics, "regime", "DPM_SCENARIO_CONTEXT_MISSING")
         [] section = "eligibility_and_restrictions" -> EligibilityAndRestrictionsSectionPayload(run, analytics)
         [] section \in {"approval_requirements", "operations_handoff", "decision_timeline", "lineage", "supportability"} ->
               GovernanceSectionPayload(run, section)

SectionPayload(evidence, analytics, section) ==
    IF section \in PreRunSections THEN PreRunSectionPayload(evidence, analytics, section)
    ELSE IF ~Given(evidence.run) THEN Payload("BLOCKED", {"DPM_SOURCE_RUN_MISSING"})
    ELSE RunPresentSectionPayload(evidence, analytics, section)

-----------------------------------------------------------------------------
(* The pack                                                                *)

ProofPackSectionsOf(evidence) ==
    LET analytics == SourceAnalyticsForProofPack(evidence)
    IN [section \in PreRunSections \cup RunSections |-> SectionPayload(evidence, analytics, section)]

Supportability(sections) ==
    [status |-> AggregateStatus({sections[s].state : s \in DOMAIN sections}),
     reasons |-> UNION {sections[s].reasons : s \in DOMAIN sections}]

RecommendedAction(status) == IF status = "READY" THEN "APPROVE_REBALANCE" ELSE "REVIEW_REBALANCE"

DecisionSummary(evidence, support) ==
    [action |-> RecommendedAction(support.status), approval |-> IF Given(evidence.run) THEN evidence.run.status ELSE "BLOCKED",
     operations |-> support.status]

\* The records the pack rests on, each with its own content.
SourceRefsForProofPack(evidence) ==
    (IF Given(evidence.run) THEN {<<"rebalance_run", evidence.run.id>>} ELSE {})
        \cup (IF Given(evidence.set) THEN {<<"alternative_set", evidence.set.id>>} ELSE {})
        \cup (IF Given(evidence.alternative) THEN {<<"selected_alternative", evidence.set.id>>} ELSE {})
        \cup (IF Given(evidence.twin) THEN {<<"mandate_twin", evidence.mandate>>} ELSE {})
        \cup (IF Given(evidence.health) THEN {<<"mandate_health", evidence.mandate>>} ELSE {})
        \cup {<<family, 0>> : family \in DOMAIN SourceAnalyticsForProofPack(evidence)}

\* The events a pack tells of, in order of time and of kind.
DecisionTimeline(evidence, at) ==
    SetToSortSeq(
        (IF Given(evidence.run) THEN {<<evidence.run.at, 0>>} \cup {<<evidence.run.decisions[i], 3>> : i \in DOMAIN evidence.run.decisions} ELSE {})
            \cup (IF Given(evidence.set) THEN {<<evidence.set.at, 1>>} ELSE {})
            \cup (IF Given(evidence.alternative) THEN {<<IF Given(evidence.selection) THEN evidence.selection.at ELSE at, 2>>} ELSE {})
            \cup {<<at, 4>>},
        LAMBDA x, y : x[1] < y[1] \/ (x[1] = y[1] /\ x[2] < y[2]))

ProofPackIdFor(tenant, source) == <<tenant, source>>

\* Its content is everything it says, the time it was generated at included.
BuildProofPack(evidence, id, tenant, at) ==
    LET sections == ProofPackSectionsOf(evidence)
        support == Supportability(sections)
    IN [id |-> id, tenant |-> tenant, portfolio |-> IF Given(evidence.set) THEN evidence.set.portfolio ELSE evidence.run.portfolio,
        mandate |-> evidence.mandate, run |-> IF Given(evidence.run) THEN evidence.run.id ELSE 0,
        alternative |-> IF Given(evidence.alternative) THEN evidence.alternative.method ELSE "NONE",
        sections |-> sections, status |-> support.status, reasons |-> support.reasons,
        summary |-> DecisionSummary(evidence, support), refs |-> SourceRefsForProofPack(evidence),
        timeline |-> DecisionTimeline(evidence, at), at |-> at, actor |-> evidence.actor]

IsNoActionProofPack(pack) == pack.alternative = "DO_NOTHING_BASELINE"
=============================================================================
