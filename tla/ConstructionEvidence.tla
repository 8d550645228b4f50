------------------------ MODULE ConstructionEvidence ------------------------
(***************************************************************************)
(* How ready a construction alternative is: the method a request asks for, *)
(* the simulated run it gets, the contexts other systems answer for        *)
(* (supplied by the caller, read from the core system's products, derived  *)
(* here or asked of the risk system) and the status all of these leave.    *)
(*                                                                         *)
(* Weights are in basis points, amounts in whole units of the base         *)
(* currency.  A context is a record with a `status`, "NONE" when absent.   *)
(***************************************************************************)
EXTENDS Results

CONSTANT CurvePointLimit  \* the points of a cost curve that are retained (10 in the code)

NoValue == -1

NoContext == [status |-> "NONE"]

Given(context) == context.status # "NONE"

-----------------------------------------------------------------------------
(* Statuses                                                                *)

StatusOrder == <<"BLOCKED", "DEGRADED", "PENDING_REVIEW", "READY">>

StatusRank(status) == CHOOSE i \in DOMAIN StatusOrder : StatusOrder[i] = status

LowestStatus(statuses) ==
    IF statuses = {} THEN "BLOCKED" ELSE CHOOSE s \in statuses : \A t \in statuses : StatusRank(s) <= StatusRank(t)

MethodStatusFromRunStatus(status) == IF status \in {"READY", "PENDING_REVIEW"} THEN status ELSE "BLOCKED"

SourceStatusToMethodStatus(state) == IF state \in {"READY", "DEGRADED"} THEN state ELSE "BLOCKED"

-----------------------------------------------------------------------------
(* Methods                                                                 *)

Methods == {"DO_NOTHING_BASELINE", "HEURISTIC_EXPLAINABLE", "MIN_TURNOVER", "COST_AWARE", "TAX_AWARE", "SOLVER_CONSTRAINED",
            "LIQUIDITY_AWARE", "RISK_AWARE", "ESG_AWARE", "CURRENCY_OVERLAY", "REGIME_STRESS_AWARE"}

RequiresSolver(method) == method = "SOLVER_CONSTRAINED"

ResolveMethodPlan(method, solverAvailable) ==
    IF RequiresSolver(method) /\ ~solverAvailable
    THEN [effective |-> "HEURISTIC_EXPLAINABLE", status |-> "PENDING_REVIEW"]
    ELSE [effective |-> method, status |-> "READY"]

ClassifySolverFailure(warning) ==
    CASE warning \in {"INFEASIBLE", "UNBOUNDED"} -> "BLOCKED"
      [] warning \in {"SOLVER_ERROR", "SOLVER_NON_OPTIMAL"} -> "PENDING_REVIEW"
      [] OTHER -> "DEGRADED"

SolverWarningCodes(result) ==
    result.warnings \cap {"INFEASIBLE", "UNBOUNDED", "SOLVER_ERROR", "SOLVER_NON_OPTIMAL", "SOLVER_OTHER"}

SolverMethodStatus(result) ==
    IF SolverWarningCodes(result) = {} THEN "READY" ELSE LowestStatus({ClassifySolverFailure(w) : w \in SolverWarningCodes(result)})

SolverReasonCodes(result) ==
    SolverWarningCodes(result) \cup (IF result.compared THEN {"TARGET_METHOD_COMPARISON_AVAILABLE"} ELSE {})

\* The stricter of two optional ceilings, and of a floor and a default.
AtMost(limit, cap) == IF limit = NoValue \/ limit > cap THEN cap ELSE limit

AtLeast(limit, floor) == IF limit < floor THEN floor ELSE limit

\* The options a method runs with: the request's, tightened.
OptionsForConstructionMethod(options, method) ==
    CASE method = "MIN_TURNOVER" -> [options EXCEPT !.turnover = AtMost(@, 1000)]
      [] method = "TAX_AWARE" -> [options EXCEPT !.tax = TRUE]
      [] method = "SOLVER_CONSTRAINED" -> [options EXCEPT !.solver = TRUE]
      [] method = "LIQUIDITY_AWARE" -> [options EXCEPT !.settlement = TRUE, !.cash = AtLeast(@, 300)]
      [] method = "CURRENCY_OVERLAY" -> [options EXCEPT !.blockFx = TRUE, !.settlement = TRUE, !.fx = AtLeast(@, 100)]
      [] method = "RISK_AWARE" -> [options EXCEPT !.position = AtMost(@, 3000)]
      [] OTHER -> options

-----------------------------------------------------------------------------
(* Contexts, whoever answers for them                                      *)

RiskContext(status, reasons) == [status |-> status, reasons |-> reasons]

PerformanceContext(status, reasons) == [status |-> status, reasons |-> reasons]

TransactionCostContext(status, points, reasons, source) ==
    [status |-> status, points |-> points, reasons |-> reasons, source |-> source]

\* The rules of the client as they stood on a day, and the data families they lack.
ClientRestrictionContext(status, asOf, rules, missing, reasons, source) ==
    [status |-> status, asOf |-> asOf, rules |-> rules, missing |-> missing, reasons |-> reasons, source |-> source]

SustainabilityPreferenceContext(status, preferences, missing, reasons, source) ==
    [status |-> status, preferences |-> preferences, missing |-> missing, reasons |-> reasons, source |-> source]

LiquidityCashflowProjection(status, amount, currency, projected) ==
    [status |-> status, amount |-> amount, currency |-> currency, projected |-> projected]

LiquidityContext(status, minimum, cashflow, children, reasons) ==
    [status |-> status, minimum |-> minimum, cashflow |-> cashflow, children |-> children, reasons |-> reasons]

CurrencyOverlayContext(status, currencies, missing, reasons) ==
    [status |-> status, currencies |-> currencies, missing |-> missing, reasons |-> reasons]

ExecutionAcknowledgementContext(status, reasons) == [status |-> status, reasons |-> reasons]

\* A stress loss against the largest the scenario allows, and what governs the scenario.
RegimeStressContext(status, loss, maximum, reasons, approved, effective, applicable) ==
    [status |-> status, loss |-> loss, maximum |-> maximum, reasons |-> reasons, approved |-> approved, effective |-> effective,
     applicable |-> applicable]

\* The contexts of a request whose caller supplies none.
ConstructionAuthorityContext ==
    [risk |-> NoContext, performance |-> NoContext, cost |-> NoContext, restriction |-> NoContext, sustainability |-> NoContext,
     liquidity |-> NoContext, currency |-> NoContext, regime |-> NoContext, acknowledgement |-> NoContext, required |-> FALSE]

-----------------------------------------------------------------------------
(* Contexts read from the core system's products                           *)

SourceProductIdentity(response) ==
    IF response.fingerprint # 0 THEN response.fingerprint
    ELSE IF response.lineage # 0 THEN response.lineage
    ELSE response.hash

\* The keys a cost curve repeats.
DuplicateTransactionCostPointKeys(points) ==
    {points[i].key : i \in {j \in DOMAIN points : \E k \in 1..(j - 1) : points[k].key = points[j].key}}

\* A curve that repeats a key counts for nothing; a long one is cut short.
TransactionCostContextFromCurve(curve) ==
    LET duplicated == DuplicateTransactionCostPointKeys(curve.points) # {}
        status == SourceStatusToMethodStatus(curve.state)
        kept == IF duplicated THEN 0 ELSE IF Len(curve.points) < CurvePointLimit THEN Len(curve.points) ELSE CurvePointLimit
    IN TransactionCostContext(
           IF duplicated /\ status = "READY" THEN "DEGRADED" ELSE status, SubSeq(curve.points, 1, kept),
           {curve.reason} \cup (IF duplicated THEN {"TRANSACTION_COST_CURVE_DUPLICATE_POINT"} ELSE {}), SourceProductIdentity(curve))

\* The cash flow the source projects; a quality it does not name counts as ready.
LiquidityCashflowProjectionContext(cashflow) ==
    LiquidityCashflowProjection(
        IF cashflow.quality \in {"READY", "DEGRADED", "INCOMPLETE"} THEN SourceStatusToMethodStatus(cashflow.quality) ELSE "READY",
        cashflow.amount, cashflow.currency, cashflow.projected)

\* A schedule or reserve the source holds is retained beside the policy.
LiquiditySourceChild(schedule) == [status |-> SourceStatusToMethodStatus(schedule.state), source |-> SourceProductIdentity(schedule)]

SourceLiquidityContext(source) ==
    IF ~Given(source.cashflow) /\ source.schedules = <<>> THEN NoContext
    ELSE LiquidityContext("READY", 200,
             IF Given(source.cashflow) THEN LiquidityCashflowProjectionContext(source.cashflow) ELSE NoContext,
             [i \in DOMAIN source.schedules |-> LiquiditySourceChild(source.schedules[i])],
             {"LIQUIDITY_POLICY_DERIVED", "CORE_LIQUIDITY_SOURCE_CONTEXT_PRESENT"})

\* The first treasury product present speaks for all of them.
TreasuryPrimarySupportability(products) == SelectSeq(products, Given)[1]

\* What the treasury products leave out, together.
TreasuryMissingDataFamilies(products) == UNION {products[i].missing : i \in {j \in DOMAIN products : Given(products[j])}}

TreasuryFailClosedReasonCodes(products) ==
    {<<TreasuryPrimarySupportability(products).reason, 0>>}
        \cup {<<"FAIL_CLOSED", i>> : i \in {j \in DOMAIN products : Given(products[j])}}

ExternalTreasuryCurrencyOverlayContext(products) ==
    IF \A i \in DOMAIN products : ~Given(products[i]) THEN NoContext
    ELSE LET primary == TreasuryPrimarySupportability(products)
         IN CurrencyOverlayContext(SourceStatusToMethodStatus(primary.state), primary.currencies,
                TreasuryMissingDataFamilies(products), TreasuryFailClosedReasonCodes(products))

ClientRestrictionProfileContext(profile) ==
    ClientRestrictionContext(SourceStatusToMethodStatus(profile.state), profile.asOf, profile.rules, profile.missing, {profile.reason},
                             SourceProductIdentity(profile))

SustainabilityPreferenceProfileContext(profile) ==
    SustainabilityPreferenceContext(SourceStatusToMethodStatus(profile.state), profile.preferences, profile.missing, {profile.reason},
                                    SourceProductIdentity(profile))

ExternalOrderExecutionAcknowledgementContext(acknowledgement) ==
    ExecutionAcknowledgementContext(SourceStatusToMethodStatus(acknowledgement.state),
                                    {acknowledgement.reason, "ACKNOWLEDGEMENT_FAIL_CLOSED"})

NoSource == [state |-> "NONE"]

\* A product fills a context only where the caller supplied none.
SourceProfileContextUpdates(context, source) ==
    [context EXCEPT
        !.liquidity = IF Given(@) THEN @ ELSE SourceLiquidityContext(source),
        !.restriction = IF Given(@) \/ ~Given(source.restriction) THEN @ ELSE ClientRestrictionProfileContext(source.restriction),
        !.sustainability = IF Given(@) \/ ~Given(source.sustainability) THEN @
                           ELSE SustainabilityPreferenceProfileContext(source.sustainability)]

SourceFinancialContextUpdates(context, source) ==
    [context EXCEPT
        !.cost = IF Given(@) \/ ~Given(source.curve) THEN @ ELSE TransactionCostContextFromCurve(source.curve),
        !.currency = IF Given(@) THEN @ ELSE ExternalTreasuryCurrencyOverlayContext(source.treasury),
        !.acknowledgement = IF Given(@) \/ ~Given(source.acknowledgement) THEN @
                            ELSE ExternalOrderExecutionAcknowledgementContext(source.acknowledgement)]

AuthorityContextWithSourceProducts(context, source) ==
    IF source = NoSource THEN context
    ELSE [SourceFinancialContextUpdates(SourceProfileContextUpdates(context, source), source) EXCEPT !.required = TRUE]

-----------------------------------------------------------------------------
(* Client restrictions                                                     *)

\* A shelf entry that is not there.
NoShelf == [class |-> "NONE", issuer |-> "", country |-> ""]

ShelfOf(request, instrument) == IF instrument \in DOMAIN request.shelf THEN request.shelf[instrument] ELSE NoShelf

ActiveApplicableRestrictions(context, side) ==
    {rule \in context.rules :
        /\ rule.active /\ rule.from <= context.asOf /\ side \in rule.sides
        /\ rule.to = NoValue \/ context.asOf <= rule.to}

RestrictionHasScope(rule) == rule.instruments \cup rule.classes \cup rule.issuers \cup rule.countries # {}

RestrictionMatchesShelf(shelf, rule) ==
    \/ shelf.class \in rule.classes
    \/ shelf.issuer # "" /\ shelf.issuer \in rule.issuers
    \/ shelf.country # "" /\ shelf.country \in rule.countries

RestrictionMatchesIntent(instrument, shelf, rule) ==
    \/ ~RestrictionHasScope(rule)
    \/ instrument \in rule.instruments
    \/ shelf # NoShelf /\ RestrictionMatchesShelf(shelf, rule)

\* The facts a rule needs of an instrument and does not find.
UnresolvedRuleClassifications(instrument, shelf, rule) ==
    IF instrument \in rule.instruments THEN {}
    ELSE IF shelf = NoShelf
         THEN IF rule.classes \cup rule.issuers \cup rule.countries # {} THEN {"instrument_classification"} ELSE {}
    ELSE IF RestrictionMatchesShelf(shelf, rule) THEN {}
    ELSE (IF rule.classes # {} /\ shelf.class \in {"", "UNKNOWN"} THEN {"asset_class_classification"} ELSE {})
         \cup (IF rule.issuers # {} /\ shelf.issuer = "" THEN {"issuer_classification"} ELSE {})
         \cup (IF rule.countries # {} /\ shelf.country = "" THEN {"country_classification"} ELSE {})

ViolatedClientRestrictions(request, trades, context) ==
    UNION {{<<i, rule.code>> : rule \in {r \in ActiveApplicableRestrictions(context, trades[i].side) :
                RestrictionMatchesIntent(trades[i].instrument, ShelfOf(request, trades[i].instrument), r)}} : i \in DOMAIN trades}

MissingRestrictionClassifications(request, trades, context) ==
    context.missing
        \cup UNION {UNION {UnresolvedRuleClassifications(trades[i].instrument, ShelfOf(request, trades[i].instrument), rule) :
                rule \in ActiveApplicableRestrictions(context, trades[i].side)} : i \in DOMAIN trades}

ClientRestrictionPolicyRequired(context) == context.required \/ Given(context.restriction)

ClientRestrictionStatus(request, trades, context) ==
    IF ~Given(context) THEN "DEGRADED"
    ELSE IF ViolatedClientRestrictions(request, trades, context) # {} THEN "BLOCKED"
    ELSE IF context.status = "READY" /\ MissingRestrictionClassifications(request, trades, context) # {} THEN "DEGRADED"
    ELSE context.status

ClientRestrictionReasonCodes(request, trades, context) ==
    IF ~Given(context) THEN {<<"CLIENT_RESTRICTION_PROFILE", "UNAVAILABLE">>}
    ELSE LET missing == MissingRestrictionClassifications(request, trades, context)
             violations == ViolatedClientRestrictions(request, trades, context)
         IN {<<"SOURCE", reason>> : reason \in context.reasons}
            \cup (IF context.status # "READY" THEN {<<"CLIENT_RESTRICTION_PROFILE", context.status>>} ELSE {})
            \cup {<<"MISSING", family>> : family \in missing}
            \cup {<<"CLIENT_RESTRICTION_VIOLATION", violation[2]>> : violation \in violations}
            \cup (IF violations \cup missing = {} THEN {<<"CLIENT_RESTRICTION_PROFILE", "APPLIED">>} ELSE {})

-----------------------------------------------------------------------------
(* Sustainability preferences                                              *)

ActiveSustainabilityPreferences(context) == {preference \in context.preferences : preference.active}

PreferenceAllocationWeight(result, preference) ==
    FoldSet(LAMBDA class, sum : sum + result.classes[class], 0, preference.classes \cap DOMAIN result.classes)

PreferenceAllocationBreached(result, preference) ==
    /\ preference.classes # {}
    /\ LET weight == PreferenceAllocationWeight(result, preference)
       IN \/ preference.minimum # NoValue /\ weight < preference.minimum
          \/ preference.maximum # NoValue /\ weight > preference.maximum

SustainabilityAllocationBreaches(result, context) ==
    {preference \in ActiveSustainabilityPreferences(context) : PreferenceAllocationBreached(result, preference)}

SustainabilityClassificationReviewRequired(context) ==
    \E preference \in ActiveSustainabilityPreferences(context) : preference.codes

SustainabilityPreferenceStatus(result, context) ==
    IF ~Given(context) THEN "DEGRADED"
    ELSE IF SustainabilityAllocationBreaches(result, context) # {} \/ SustainabilityClassificationReviewRequired(context)
         THEN LowestStatus({context.status, "PENDING_REVIEW"})
    ELSE context.status

SustainabilityPreferenceReasonCodes(result, context) ==
    IF ~Given(context) THEN {<<"SUSTAINABILITY_PROFILE", "UNAVAILABLE">>}
    ELSE LET breaches == SustainabilityAllocationBreaches(result, context)
             review == SustainabilityClassificationReviewRequired(context)
         IN {<<"SOURCE", reason>> : reason \in context.reasons}
            \cup (IF context.status # "READY" THEN {<<"SUSTAINABILITY_PROFILE", context.status>>} ELSE {})
            \cup {<<"MISSING", family>> : family \in context.missing}
            \cup {<<"SUSTAINABILITY_ALLOCATION_REVIEW", preference.code>> : preference \in breaches}
            \cup (IF review THEN {<<"SUSTAINABILITY_CLASSIFICATION", "REQUIRED">>} ELSE {})
            \cup (IF breaches = {} /\ ~review THEN {<<"SUSTAINABILITY_PROFILE", "APPLIED">>} ELSE {})

EsgRestrictionStatus(request, result, context) ==
    LowestStatus({ClientRestrictionStatus(request, result.trades, context.restriction),
                  SustainabilityPreferenceStatus(result, context.sustainability)})

EsgRestrictionReasonCodes(request, result, context) ==
    ClientRestrictionReasonCodes(request, result.trades, context.restriction)
        \cup SustainabilityPreferenceReasonCodes(result, context.sustainability)

-----------------------------------------------------------------------------
(* Currency overlay                                                        *)

NonBaseMarketPriceCurrencies(request) == request.prices \ {request.base}

MissingCurrencyOverlayPairs(request) == NonBaseMarketPriceCurrencies(request) \ request.fx

NonBasePositionCurrencies(result) == result.holdings \ {result.currency}

DeriveCurrencyOverlayContext(result) ==
    CurrencyOverlayContext(IF NonBasePositionCurrencies(result) # {} THEN "READY" ELSE "DEGRADED",
                           NonBasePositionCurrencies(result), {}, {<<"CURRENCY_OVERLAY_POLICY_DERIVED", 0>>})

CurrencyOverlayStatus(request, context) ==
    IF MissingCurrencyOverlayPairs(request) # {} THEN "BLOCKED"
    ELSE IF ~Given(context) THEN "DEGRADED"
    ELSE IF context.status # "READY" THEN context.status
    ELSE IF NonBaseMarketPriceCurrencies(request) \ context.currencies # {} THEN "PENDING_REVIEW"
    ELSE IF NonBaseMarketPriceCurrencies(request) # {} THEN "READY"
    ELSE "DEGRADED"

CurrencyOverlayFxSourceReasonCode(request, result, status) ==
    IF result.missingFx \/ MissingCurrencyOverlayPairs(request) # {} THEN "FX_SOURCE_MISSING"
    ELSE IF status = "BLOCKED" THEN "CONTEXT_BLOCKED"
    ELSE IF status = "DEGRADED" THEN "NO_NON_BASE_EXPOSURE"
    ELSE "FX_SOURCE_READY"

CurrencyOverlayReasonCodes(request, result, context) ==
    {<<"CURRENCY_OVERLAY", CurrencyOverlayFxSourceReasonCode(request, result, CurrencyOverlayStatus(request, context))>>}
        \cup (IF Given(context) THEN {<<"SOURCE", reason[1]>> : reason \in context.reasons}
                                ELSE {<<"CURRENCY_OVERLAY", "POLICY_CONTEXT_MISSING">>})

-----------------------------------------------------------------------------
(* Liquidity                                                               *)

PostTradeCashWeight(result) == IF "CASH" \in DOMAIN result.classes THEN result.classes["CASH"] ELSE NoValue

HasBlockingCashDiagnostics(result) == result.breaches \/ result.short

DeriveLiquidityContext == LiquidityContext("READY", 300, NoContext, <<>>, {"LIQUIDITY_POLICY_DERIVED"})

MinimumCashWeightStatus(status, cash, minimum) ==
    IF cash = NoValue \/ cash >= minimum THEN status ELSE LowestStatus({status, "PENDING_REVIEW"})

CashflowProjectionCurrencyMismatch(result, projection) == projection.currency # result.currency

PostTradeTotalValueUnavailable(result) == result.total <= 0

\* Projected cash is counted in the portfolio's own currency, against its value.
AdjustedCashBelowPolicy(result, context) ==
    LET projection == context.cashflow
        cash == PostTradeCashWeight(result)
    IN /\ cash # NoValue
       /\ ~CashflowProjectionCurrencyMismatch(result, projection)
       /\ ~PostTradeTotalValueUnavailable(result)
       /\ cash * result.total + projection.amount * 10000 < context.minimum * result.total

CashflowProjectionStatus(result, context) ==
    LET projection == context.cashflow
        usable == /\ projection.projected
                  /\ ~CashflowProjectionCurrencyMismatch(result, projection)
                  /\ ~PostTradeTotalValueUnavailable(result)
    IN LowestStatus({projection.status} \cup (IF usable THEN {} ELSE {"DEGRADED"})
                        \cup (IF AdjustedCashBelowPolicy(result, context) THEN {"PENDING_REVIEW"} ELSE {}))

LiquidityStatus(result, context) ==
    IF ~Given(context) THEN "DEGRADED"
    ELSE IF HasBlockingCashDiagnostics(result) THEN "BLOCKED"
    ELSE LowestStatus({MinimumCashWeightStatus(context.status, PostTradeCashWeight(result), context.minimum)}
                      \cup (IF Given(context.cashflow) THEN {CashflowProjectionStatus(result, context)} ELSE {}))

CashflowProjectionBlockingReasonCode(result, projection) ==
    IF CashflowProjectionCurrencyMismatch(result, projection) THEN {<<"CASHFLOW_PROJECTION", "CURRENCY_MISMATCH">>}
    ELSE IF PostTradeTotalValueUnavailable(result) THEN
            {<<"CASHFLOW_PROJECTION", "TOTAL_VALUE_UNAVAILABLE">>}
    ELSE {}

CashflowProjectionPolicyReasonCode(result, context) ==
    IF PostTradeCashWeight(result) = NoValue THEN {}
    ELSE IF AdjustedCashBelowPolicy(result, context) THEN {<<"CASHFLOW_PROJECTION", "ADJUSTED_CASH_BELOW_POLICY">>}
    ELSE IF context.cashflow.status = "READY" /\ context.cashflow.projected THEN
            {<<"CASHFLOW_PROJECTION", "READY">>}
    ELSE {}

CashflowProjectionReasonCodes(result, context) ==
    LET projection == context.cashflow
        blocking == CashflowProjectionBlockingReasonCode(result, projection)
    IN (IF projection.status # "READY" THEN {<<"CASHFLOW_PROJECTION_BY_SOURCE", projection.status>>} ELSE {})
       \cup (IF ~projection.projected THEN {<<"CASHFLOW_PROJECTION", "PROJECTED_ROWS_NOT_INCLUDED">>} ELSE {})
       \cup (IF blocking # {} THEN blocking ELSE CashflowProjectionPolicyReasonCode(result, context))

LiquidityReasonCodes(result, context) ==
    (IF ~Given(context) THEN {<<"LIQUIDITY_POLICY", "CONTEXT_DERIVED">>}
     ELSE {<<"SOURCE", reason>> : reason \in context.reasons}
          \cup (IF Given(context.cashflow) THEN CashflowProjectionReasonCodes(result, context) ELSE {}))
    \cup (IF result.breaches THEN {<<"SETTLEMENT", "CASH_LADDER_BREACH">>} ELSE {})
    \cup (IF result.short THEN {<<"SETTLEMENT", "FUNDING_DEFICIT">>} ELSE {})

-----------------------------------------------------------------------------
(* Transaction cost                                                        *)

TradedTransactionCostKeys(result) == {<<result.trades[i].instrument, result.trades[i].side>> : i \in DOMAIN result.trades}

CoveredTransactionCostKeys(context) == {context.points[i].key : i \in DOMAIN context.points}

MissingTransactionCostTradeKeys(result, context) == TradedTransactionCostKeys(result) \ CoveredTransactionCostKeys(context)

TransactionCostCurvePoint(context, trade) ==
    CHOOSE point \in ToSet(context.points) : point.key = <<trade.instrument, trade.side>>

\* The observed cost of every trade in ten-thousandths of a unit, or none at all.
ObservedTransactionCostEstimate(result, context) ==
    IF ~Given(context) \/ context.status # "READY" THEN NoValue
    ELSE IF \/ TradedTransactionCostKeys(result) = {}
            \/ MissingTransactionCostTradeKeys(result, context) # {}
            \/ \E i \in DOMAIN result.trades : result.trades[i].notional = NoValue
         THEN NoValue
    ELSE FoldSet(LAMBDA i, sum : sum + result.trades[i].notional * TransactionCostCurvePoint(context, result.trades[i]).bps,
                 0, DOMAIN result.trades)

TransactionCostStatus(result, context) ==
    IF ~Given(context) THEN "DEGRADED"
    ELSE IF \/ MissingTransactionCostTradeKeys(result, context) # {}
            \/ ObservedTransactionCostEstimate(result, context) = NoValue
         THEN LowestStatus({context.status, "DEGRADED"})
    ELSE context.status

TransactionCostReasonCodes(result, context) ==
    IF ~Given(context) THEN {<<"TRANSACTION_COST", "CURVE_UNAVAILABLE">>}
    ELSE LET missing == MissingTransactionCostTradeKeys(result, context)
         IN {<<"SOURCE", reason>> : reason \in context.reasons}
            \cup (IF missing # {} THEN {<<"TRANSACTION_COST", "MISSING_REQUIRED_TRADE_SIDES">>} ELSE {})
            \cup (IF \E key \in missing : \A covered \in CoveredTransactionCostKeys(context) : covered[1] # key[1]
                  THEN {<<"TRANSACTION_COST", "MISSING_TRADED_SECURITIES">>} ELSE {})
            \cup {<<"TRANSACTION_COST", IF ObservedTransactionCostEstimate(result, context) = NoValue
                                         THEN "ESTIMATE_UNAVAILABLE" ELSE "APPLIED">>}

-----------------------------------------------------------------------------
(* Regime stress, and what enrichment leaves of each family                *)

RegimeStressStatus(context) ==
    IF ~Given(context) THEN "DEGRADED" ELSE IF context.loss > context.maximum THEN "PENDING_REVIEW" ELSE context.status

TaxEnrichmentStatus(required, available) == IF available THEN "READY" ELSE IF required THEN "BLOCKED" ELSE "DEGRADED"

LiquidityEnrichmentStatus(result, context) ==
    LowestStatus({IF PostTradeCashWeight(result) = NoValue THEN "DEGRADED" ELSE "READY"}
                    \cup (IF Given(context) THEN {context.status} ELSE {}))

OptionalAuthoritativeStatus(required, context) ==
    IF Given(context) THEN context.status ELSE IF required THEN "DEGRADED" ELSE "READY"

SummarizeEnrichmentPosture(method, result, context) ==
    [tax |-> TaxEnrichmentStatus(method = "TAX_AWARE", result.tax),
     fx |-> IF result.missingFx THEN "BLOCKED" ELSE "READY",
     liquidity |-> LiquidityEnrichmentStatus(result, IF method = "LIQUIDITY_AWARE" THEN context.liquidity ELSE NoContext),
     cost |-> IF Given(context.cost) THEN context.cost.status ELSE "DEGRADED",
     turnover |-> IF result.dropped THEN "PENDING_REVIEW" ELSE "READY",
     risk |-> OptionalAuthoritativeStatus(method = "RISK_AWARE", context.risk),
     performance |-> OptionalAuthoritativeStatus(FALSE, context.performance)]

-----------------------------------------------------------------------------
(* The contexts of one method                                              *)

\* `risk` is what the risk system answers, "NONE" when it is unavailable.
RiskContextForMethod(method, context, risk) ==
    IF Given(context.risk) THEN context.risk ELSE IF method = "RISK_AWARE" THEN risk.concentration ELSE NoContext

RegimeContextForMethod(method, context, risk) ==
    IF Given(context.regime) THEN context.regime ELSE IF method = "REGIME_STRESS_AWARE" THEN risk.regime ELSE NoContext

AuthorityContextForMethod(method, result, context, risk) ==
    [context EXCEPT
        !.risk = RiskContextForMethod(method, context, risk),
        !.liquidity = IF method = "LIQUIDITY_AWARE" /\ ~Given(@) THEN DeriveLiquidityContext ELSE @,
        !.currency = IF method = "CURRENCY_OVERLAY" /\ ~Given(@) THEN DeriveCurrencyOverlayContext(result) ELSE @,
        !.regime = RegimeContextForMethod(method, context, risk)]

\* The status a method owes its own evidence.
MethodSpecificStatus(request, method, result, context) ==
    CASE method = "ESG_AWARE" -> EsgRestrictionStatus(request, result, context)
      [] method = "REGIME_STRESS_AWARE" -> RegimeStressStatus(context.regime)
      [] method = "CURRENCY_OVERLAY" -> IF result.missingFx THEN "READY" ELSE CurrencyOverlayStatus(request, context.currency)
      [] method = "RISK_AWARE" -> SummarizeEnrichmentPosture(method, result, context).risk
      [] method = "COST_AWARE" -> TransactionCostStatus(result, context.cost)
      [] method = "LIQUIDITY_AWARE" -> LiquidityStatus(result, context.liquidity)
      [] OTHER -> "READY"

ContextReasonCodes(context, family) ==
    IF Given(context) THEN {<<"SOURCE", reason>> : reason \in context.reasons} ELSE {<<family, "UNAVAILABLE">>}

MethodSpecificReasonCodes(request, method, result, context) ==
    CASE method = "ESG_AWARE" -> EsgRestrictionReasonCodes(request, result, context)
      [] method = "REGIME_STRESS_AWARE" -> ContextReasonCodes(context.regime, "REGIME_SCENARIO_PACK")
      [] method = "CURRENCY_OVERLAY" -> CurrencyOverlayReasonCodes(request, result, context.currency)
      [] method = "RISK_AWARE" -> ContextReasonCodes(context.risk, "RISK_AUTHORITY")
      [] method = "COST_AWARE" -> TransactionCostReasonCodes(result, context.cost)
      [] method = "LIQUIDITY_AWARE" -> {<<"SETTLEMENT", "AWARENESS_ENABLED">>} \cup LiquidityReasonCodes(result, context.liquidity)
      [] method = "SOLVER_CONSTRAINED" -> {<<"SOLVER", code>> : code \in SolverReasonCodes(result)}
      [] OTHER -> {}

MethodEnrichmentStatuses(method, result, enrichment) ==
    CASE method = "TAX_AWARE" -> {enrichment.tax}
      [] method = "MIN_TURNOVER" -> {enrichment.turnover}
      [] method = "COST_AWARE" -> {enrichment.cost}
      [] method = "LIQUIDITY_AWARE" -> {enrichment.liquidity}
      [] method = "CURRENCY_OVERLAY" -> {enrichment.fx}
      [] method = "RISK_AWARE" -> {enrichment.risk}
      [] method = "SOLVER_CONSTRAINED" -> {SolverMethodStatus(result)}
      [] OTHER -> {}

AuthorityContextStatus(method, context) ==
    LET own == CASE method = "LIQUIDITY_AWARE" -> context.liquidity
                 [] method = "CURRENCY_OVERLAY" -> context.currency
                 [] method = "REGIME_STRESS_AWARE" -> context.regime
                 [] OTHER -> NoContext
    IN IF Given(own) THEN {own.status} ELSE {}

\* The weakest of the run, the plan, the method's evidence and the client's rules.
SupportabilityStatus(request, method, status, result, plan, context) ==
    LowestStatus({status, plan.status, MethodSpecificStatus(request, method, result, context)}
        \cup MethodEnrichmentStatuses(method, result, SummarizeEnrichmentPosture(method, result, context))
        \cup AuthorityContextStatus(method, context)
        \cup (IF ClientRestrictionPolicyRequired(context)
              THEN {ClientRestrictionStatus(request, result.trades, context.restriction)} ELSE {}))

-----------------------------------------------------------------------------
(* Alternatives                                                            *)

WeightIn(weights, instrument) == IF instrument \in DOMAIN weights THEN weights[instrument] ELSE 0

Distance(x, y) == IF x < y THEN y - x ELSE x - y

ActiveWeightDrift(actual, model) ==
    MapThenSumSet(LAMBDA i : Distance(WeightIn(actual, i), WeightIn(model, i)), DOMAIN actual \cup DOMAIN model)

\* Rounded to a basis point, half to even.
TurnoverWeight(result) ==
    LET traded == MapThenSumSet(LAMBDA i : IF result.trades[i].notional = NoValue THEN 0 ELSE result.trades[i].notional,
                                DOMAIN result.trades) * 10000
        floor == traded \div result.value
        twice == 2 * (traded % result.value)
    IN IF result.value <= 0 THEN 0
       ELSE IF twice > result.value \/ (twice = result.value /\ floor % 2 = 1) THEN floor + 1 ELSE floor

ComparisonMetrics(result, acted) ==
    LET before == ActiveWeightDrift(result.before, result.model)
        after == IF acted THEN ActiveWeightDrift(result.after, result.model) ELSE before
    IN [driftBefore |-> before, driftAfter |-> after, reduction |-> before - after,
        turnover |-> IF acted THEN TurnoverWeight(result) ELSE 0,
        trades |-> IF acted THEN Len(result.trades) ELSE 0, cost |-> NoValue]

ConstraintTrace(result) ==
    {<<"SOURCE_SUPPORTABILITY", MethodStatusFromRunStatus(result.status)>>, <<"ELIGIBILITY", MethodStatusFromRunStatus(result.status)>>}
        \cup (IF result.tax \/ result.taxEvents THEN {<<"TAX_BUDGET", MethodStatusFromRunStatus(result.status)>>} ELSE {})
        \cup (IF result.dropped THEN {<<"TURNOVER_BUDGET", "PENDING_REVIEW">>} ELSE {})

BuildDoNothingBaseline(result) ==
    [method |-> "DO_NOTHING_BASELINE", status |-> MethodStatusFromRunStatus(result.status), run |-> 0, evaluated |-> result.id,
     intents |-> 0, metrics |-> ComparisonMetrics(result, FALSE), constraints |-> ConstraintTrace(result),
     effective |-> "DO_NOTHING_BASELINE", reasons |-> {}, context |-> NoContext]

BuildRebalanceResultAlternative(result, method) ==
    [method |-> method, status |-> MethodStatusFromRunStatus(result.status), run |-> result.id, evaluated |-> 0,
     intents |-> Len(result.trades), metrics |-> ComparisonMetrics(result, TRUE), constraints |-> ConstraintTrace(result),
     effective |-> method, reasons |-> {}, context |-> NoContext]

WithObservedTransactionCostEstimate(alternative, result, context) ==
    [alternative EXCEPT !.metrics.cost = ObservedTransactionCostEstimate(result, context),
                        !.constraints = @ \cup {<<"ESTIMATED_COST", TransactionCostStatus(result, context)>>}]

WithClientRestrictionConstraint(alternative, request, trades, context) ==
    [alternative EXCEPT !.constraints = @ \cup {<<"CLIENT_RESTRICTION", ClientRestrictionStatus(request, trades, context.restriction)>>}]

WithEsgRestrictionConstraints(alternative, result, context) ==
    [alternative EXCEPT
        !.constraints = @ \cup {<<"SUSTAINABILITY_PREFERENCE", SustainabilityPreferenceStatus(result, context.sustainability)>>}]

ApplyConstructionSupportability(request, method, alternative, result, plan, context) ==
    LET costed == IF method = "COST_AWARE" THEN WithObservedTransactionCostEstimate(alternative, result, context.cost) ELSE alternative
        restricted == IF ClientRestrictionPolicyRequired(context)
                      THEN WithClientRestrictionConstraint(costed, request, result.trades, context) ELSE costed
        traced == IF method = "ESG_AWARE" THEN WithEsgRestrictionConstraints(restricted, result, context) ELSE restricted
    IN [traced EXCEPT
            !.status = SupportabilityStatus(request, method, @, result, plan, context),
            !.effective = plan.effective,
            !.reasons = MethodSpecificReasonCodes(request, method, result, context)
                        \cup (IF ClientRestrictionPolicyRequired(context)
                              THEN ClientRestrictionReasonCodes(request, result.trades, context.restriction) ELSE {}),
            !.context = context @@ [status |-> "READY"]]

BaselineForRequest(request, base, context) ==
    LET baseline == BuildDoNothingBaseline(base)
    IN IF ~ClientRestrictionPolicyRequired(context) THEN baseline
       ELSE [WithClientRestrictionConstraint(baseline, request, <<>>, context) EXCEPT
                !.status = LowestStatus({@, ClientRestrictionStatus(request, <<>>, context.restriction)})]

\* `runs` gives the simulated result of every method that is run.
BuildConstructionAlternativeForMethod(request, method, runs, context, solver, risk) ==
    IF method = "DO_NOTHING_BASELINE" THEN BaselineForRequest(request, runs["HEURISTIC_EXPLAINABLE"], context)
    ELSE LET plan == ResolveMethodPlan(method, solver)
             result == runs[plan.effective]
         IN ApplyConstructionSupportability(request, method, BuildRebalanceResultAlternative(result, method), result, plan,
                AuthorityContextForMethod(method, result, context, risk))

-----------------------------------------------------------------------------
(* The client's rules on a run that is kept                                *)

PolicyGate(result, blocked) ==
    IF blocked \/ result.gate = "BLOCKED" THEN "BLOCKED" ELSE "COMPLIANCE_REVIEW_REQUIRED"

ApplyClientRestrictionPolicy(request, result, source) ==
    IF source = NoSource THEN [result EXCEPT !.policy = "NOT_ASSESSED", !.gate = PolicyGate(result, FALSE)]
    ELSE LET context == IF Given(source.restriction) THEN ClientRestrictionProfileContext(source.restriction) ELSE NoContext
             status == ClientRestrictionStatus(request, result.trades, context)
             decision == IF ~Given(context) THEN "PENDING_REVIEW" ELSE IF status \in {"BLOCKED", "READY"} THEN status ELSE "PENDING_REVIEW"
         IN IF decision = "READY" THEN [result EXCEPT !.policy = decision]
            ELSE [result EXCEPT !.policy = decision, !.gate = PolicyGate(result, decision = "BLOCKED"),
                                !.status = IF decision = "BLOCKED" THEN "BLOCKED" ELSE IF @ = "BLOCKED" THEN @ ELSE "PENDING_REVIEW"]

=============================================================================
