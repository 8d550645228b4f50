----------------------------- MODULE MCEvidence -----------------------------
(***************************************************************************)
(* The stores of runs and of the evidence built on them, one component per *)
(* behaviour, each with its commands and small sets of values.             *)
(***************************************************************************)
EXTENDS Results, TLC

VARIABLES part, store, calls, replies

evidenceVars == <<part, store, calls, replies>>

-----------------------------------------------------------------------------
(* Run stores: runs 11.., correlations 21.., keys 31.., operations 41..     *)

RunOf(tenant, id, corr, key, portfolio) ==
    [tenant |-> tenant, id |-> id, corr |-> corr, hash |-> 51, key |-> key, portfolio |-> portfolio,
     at |-> 0, status |-> "PENDING_REVIEW"]

Record(tenant, id, corr, key, portfolio) == [op |-> "RECORD", run |-> RunOf(tenant, id, corr, key, portfolio)]

Scenario(tenant, id, corr, operation, attempt) ==
    [op |-> "SCENARIO", run |-> RunOf(tenant, id, corr, 0, "P1"), id |-> operation, attempt |-> attempt]

Submit(tenant, id, corr) ==
    [op |-> "SUBMIT", operation |-> [tenant |-> tenant, id |-> id, corr |-> corr, request |-> "P1", at |-> 0,
        status |-> "PENDING", attempt |-> 0, lease |-> 0, finished |-> 0, result |-> 0]]

Claim(tenant, id) == [op |-> "CLAIM", tenant |-> tenant, id |-> id]

Complete(tenant, id, attempt, result) ==
    [op |-> "COMPLETE", tenant |-> tenant, id |-> id, attempt |-> attempt, result |-> result]

ReadAll == [op |-> "READ"]

Decide(run) == [op |-> "DECIDE", run |-> run]

Artifact(run) == [op |-> "ARTIFACT", run |-> run]

RunWorkloads ==
    { \* runs come and go while their pages are read
      [walker |-> "ann", room |-> 1,
       commands |-> <<Record("ann", 11, 21, 0, "P1"), Record("bob", 12, 22, 0, "P2"), Record("ann", 13, 23, 0, "P2"), ReadAll>>],
      [walker |-> "", room |-> 1,
       commands |-> <<Record("", 11, 21, 0, "P1"), Record("", 12, 22, 0, "P1"), Record("", 13, 23, 0, "P2"), ReadAll>>],
      \* two tenants, the same correlation and the same key, and a correlation repeated
      [walker |-> "NOBODY", room |-> 1,
       commands |-> <<Record("ann", 11, 21, 31, "P1"), Record("bob", 12, 21, 31, "P1"), Record("ann", 13, 21, 0, "P1"), ReadAll>>],
      \* a tenant repeats a key while its first use is under way
      [walker |-> "NOBODY", room |-> 2,
       commands |-> <<Record("ann", 11, 21, 31, "P1"), Record("ann", 12, 22, 31, "P2"), ReadAll>>],
      \* an operation is claimed again, and both attempts record and publish
      [walker |-> "NOBODY", room |-> 1,
       commands |-> <<Submit("ann", 41, 21), Claim("ann", 41), Scenario("ann", 11, 25, 41, 1), Claim("ann", 41),
                      Scenario("ann", 12, 26, 41, 2), Complete("ann", 41, 1, 11), Complete("ann", 41, 2, 12),
                      Complete("ann", 41, 2, 12), Submit("ann", 42, 21)>>],
      \* a run expires between the check and the write of an action on it
      [walker |-> "NOBODY", room |-> 2,
       commands |-> <<Record("ann", 11, 21, 0, "P1"), Artifact(11), Decide(11), ReadAll>>] }

RS == INSTANCE RunStores WITH Workloads <- RunWorkloads, RetentionDays <- 1, TtlDays <- 1, LeaseDays <- 1,
        MaxDay <- 3, MaxCrashes <- 1, PageLimit <- 1,
        Features <- {"SUPPORT", "BUNDLE", "WORKFLOW", "ASYNC", "LINEAGE", "HISTORY", "SUMMARY"}

-----------------------------------------------------------------------------
(* Idea actions: a service sends intents, two managers review them.         *)

Principal(actor, role, tenant, portfolios, capabilities) ==
    [actor |-> actor, role |-> role, tenant |-> tenant, entity |-> "SG", active |-> TRUE, portfolios |-> portfolios,
     capabilities |-> capabilities, service |-> IF role = "SERVICE" THEN "lotus-idea" ELSE "desk"]

Idea == Principal("idea", "SERVICE", "ann", {"P1", "P2"}, {"accept", "read"})

IdeaElsewhere == [Idea EXCEPT !.tenant = "bob"]

Pm(actor, tenant, portfolios) == Principal(actor, "PORTFOLIO_MANAGER", tenant, portfolios, {"review", "read"})

Intent(intent, candidate, type, refs) ==
    [portfolio |-> "P1", candidate |-> candidate, intent |-> intent, type |-> type, refs |-> refs]

Plain == Intent("I1", "C1", "REVIEW_FOR_REBALANCE", <<1, 2>>)

Reordered == Intent("I1", "C1", "REVIEW_FOR_REBALANCE", <<2, 1>>)

Changed == Intent("I1", "C2", "REVIEW_FOR_REBALANCE", <<1, 2>>)

Draft == Intent("I2", "C1", "CREATE_MANAGEMENT_ACTION_DRAFT", <<1>>)

Second == Intent("I2", "C1", "REVIEW_FOR_REBALANCE", <<1>>)

Accept(principal, key, request) == [op |-> "ACCEPT", extra |-> FALSE, principal |-> principal, key |-> key, request |-> request]

Review(principal, request, decision, expected) ==
    [op |-> "REVIEW", extra |-> FALSE, principal |-> principal, decision |-> decision, expected |-> expected,
     intake |-> <<principal.tenant, "SG", <<request.portfolio, request.candidate, request.intent, request.type, <<1, 2>>>>>>]

IdeaWorkloads ==
    { \* two managers decide on the same version while the intent is sent again
      [idea |-> <<Accept(Idea, "k1", Plain), Accept(Idea, "k1", Reordered)>>,
       pm1 |-> <<Review(Pm("pm1", "ann", {"P1"}), Plain, "APPROVE", 1), Review(Pm("pm1", "ann", {"P1"}), Plain, "REQUEST_CHANGES", 2)>>,
       pm2 |-> <<Review(Pm("pm2", "ann", {"P1"}), Plain, "REJECT", 1), Review(Pm("pm2", "ann", {"P1"}), Plain, "REJECT", 2)>>],
      \* keys and intents are mixed up, within a tenant and across two
      [idea |-> <<Accept(Idea, "k1", Plain), Accept(Idea, "k1", Draft), Accept(Idea, "k1", Second), Accept(Idea, "", Plain)>>,
       rival |-> <<Accept(Idea, "k1", Changed), Accept(Idea, "k2", Plain), Accept(IdeaElsewhere, "k1", Plain)>>,
       pm1 |-> <<Review(Pm("pm1", "bob", {"P1"}), Plain, "APPROVE", 1), Accept([Idea EXCEPT !.portfolios = {"P2"}], "k3", Plain)>>] }

IA == INSTANCE IdeaActions WITH Workloads <- IdeaWorkloads, SupportApisEnabled <- TRUE, MaxLost <- 1

-----------------------------------------------------------------------------

(* Outcome reviews: answers of every kind previewed, and reviews created,   *)
(* refreshed, searched and handed on.                                       *)

OE == INSTANCE OutcomeEvidence

Row(key, value) == [key |-> key, value |-> value, reporting |-> OE!NoValue, unit |-> "USD"]

Answer(kind, measure, support, context, rows) ==
    [kind |-> kind, identified |-> TRUE, hash |-> 1, support |-> support, context |-> context, rows |-> rows, key |-> "K",
     measure |-> measure, total |-> OE!NoValue, count |-> 1]

RowLists == {<<>>, <<Row("K", 2)>>, <<Row("K", 9)>>, <<Row("K", OE!NoValue)>>, <<Row("K", OE!NotNumeric)>>,
             <<Row("L", 2), Row("K", 4)>>, <<[Row("K", 9) EXCEPT !.reporting = 2]>>}

PointLists == {<<>>, <<Row("K", 200)>>, <<Row("K", 900)>>, <<Row("K", OE!NoValue)>>, <<Row("L", 200), Row("K", 500)>>}

CoreSupport == {"COMPLETE", "STALE", "PARTIAL", "UNKNOWN"}

RiskSupport == {"ready", "stale", "degraded", "permission_blocked", "unsupported"}

PerformanceSupport == {"ready", "stale", "partial", "error", "unsupported"}

CoreAnswers ==
    {Answer(k[1], k[2], s, k[3], rows) : s \in CoreSupport, rows \in RowLists,
        k \in {<<"ledger", "trade_fee", "USD">>, <<"ledger", "trade_fee", "">>, <<"ledger", "realized_fx_pnl", "">>,
               <<"ledger", "cashflow_amount", "">>, <<"ledger", "withholding_tax_amount", "USD">>, <<"projection", "net", "true">>,
               <<"projection", "net", "">>, <<"movement", "amount", "">>, <<"tax", "total_tax_amount", "">>}}
    \cup {[Answer("cash", "total", s, "", <<Row("portfolio", v), Row("reporting", 4)>>) EXCEPT !.key = k] :
            s \in CoreSupport, v \in {2, 9, OE!NoValue}, k \in {"portfolio", "reporting", "base"}}
    \cup {[Answer("tax", "reporting_currency_total_tax_amount", s, unit, <<>>) EXCEPT !.total = v, !.count = n] :
            s \in CoreSupport, unit \in {"USD", ""}, v \in {2, 9, OE!NoValue}, n \in {-1, 3}}
    \cup {[Answer("tax", "total_tax_amount", s, "", rows) EXCEPT !.key = ""] : s \in CoreSupport, rows \in RowLists}
    \cup {[Answer("acknowledgement", "orders", s, "", rows) EXCEPT !.count = n] :
            s \in {"UNAVAILABLE", "READY"}, rows \in {<<>>, <<Row("fills", 0)>>}, n \in {-1, 2, 9}}

RiskAnswers ==
    {Answer(k[1], k[2], s, k[3], rows) : s \in RiskSupport, rows \in RowLists,
        k \in {<<"risk", "VOLATILITY", "">>, <<"drawdown", "max_drawdown", "">>, <<"drawdown", "ulcer_index", "">>,
               <<"drawdown", "relative_max_drawdown", "applied">>, <<"drawdown", "relative_max_drawdown", "no_benchmark">>,
               <<"concentration", "issuer_hhi_current", "complete">>, <<"concentration", "issuer_hhi_current", "partial">>,
               <<"concentration", "position_hhi", "partial">>, <<"rolling", "ROLLING_BETA", "NO_ALIGNED_OBSERVATIONS">>,
               <<"rolling", "ROLLING_BETA", "APPLIED">>, <<"rolling", "ROLLING_VOLATILITY", "">>, <<"history", "total_risk", "">>,
               <<"history", "total_risk", "PERIOD_ERROR">>, <<"history", "contributor_weight_average", "QUALITY_FLAGS">>}}
    \cup {[Answer(k, "VOLATILITY", "ready", "", <<Row("K", 2)>>) EXCEPT !.hash = 0] :
            k \in {"risk", "drawdown", "concentration", "rolling", "history"}}
    \cup {[Answer("history", "contributor_weight_average", "ready", "", <<Row("K", 2)>>) EXCEPT !.key = ""]}

PerformanceAnswers ==
    {Answer(k[1], k[2], s, "", rows) : s \in PerformanceSupport, rows \in PointLists,
        k \in {<<"contribution", "total">>, <<"attribution", "level_total_effect">>}}
    \cup {Answer(k, "cumulative_return", "", "", rows) : k \in {"twr", "active", "mwr"}, rows \in PointLists}
    \cup {[Answer("attribution", "reconciliation", s, "", <<>>) EXCEPT !.total = v] : s \in PerformanceSupport, v \in {200, 900, OE!NoValue}}

GapAnswers == {Answer(k, "TIMEOUT", "UPSTREAM_TIMEOUT", "", <<>>) : k \in {"no-cash", "no-projection", "no-risk", "no-performance"}}

DimensionOf(a) ==
    CASE a.kind \in {"cash", "projection", "movement", "no-cash", "no-projection"} -> "CASH_RESIDUAL"
      [] a.kind = "ledger" -> OE!TransactionDimension(a.measure)
      [] a.kind = "tax" -> "TAX"
      [] a.kind = "acknowledgement" -> "EXECUTION_QUALITY"
      [] a.kind \in {"risk", "drawdown", "concentration", "rolling", "history", "no-risk"} -> "RISK_REDUCTION"
      [] OTHER -> "PERFORMANCE"

Config(dimension, direction) == [dimension |-> dimension, direction |-> direction, soft |-> 1, hard |-> 3]

Posted(state, portfolio) ==
    [identity |-> [portfolio |-> portfolio, mandate |-> 3, run |-> 7, item |-> {}], state |-> state,
     values |-> [d \in {"CASH_RESIDUAL", "COST", "TAX", "FX_RESIDUAL", "EXECUTION_QUALITY", "RISK_REDUCTION", "PERFORMANCE"} |->
                    OE!Metric(2, "USD", state, {}, {})]]

Evidence(responses, state, configs) ==
    [portfolio |-> 1, responses |-> responses, artifacts |-> <<>>, posted |-> Posted(state, 1), configs |-> configs, omitted |-> {}]

PreviewOf(evidence) == [pm |-> <<[op |-> "PREVIEW", evidence |-> evidence]>>]

Volatility(value) == Answer("risk", "VOLATILITY", "ready", "", <<Row("K", value)>>)

Stale(a) == [a EXCEPT !.support = "stale"]

Fee(value) == Answer("ledger", "trade_fee", "COMPLETE", "USD", <<Row("K", value)>>)

\* The artifacts behind an expectation: consistent, or with one thing wrong.
Alternative == [id |-> 5, method |-> "MINIMUM_TURNOVER", status |-> "READY", run |-> 7, drift |-> OE!NoValue, cost |-> 2, cash |-> OE!NoValue]

Artifacts ==
    [set |-> [id |-> 4, portfolio |-> 1, status |-> "READY", source |-> "READY", alternatives |-> <<Alternative>>],
     selection |-> [set |-> 4, alternative |-> 5],
     pack |-> [id |-> 6, portfolio |-> 1, set |-> 4, alternative |-> 5, run |-> 7, mandate |-> 3, status |-> "READY"],
     wave |-> [id |-> 8, items |-> {[id |-> 9, portfolio |-> 1, mandate |-> 3, set |-> 4, alternative |-> 5, pack |-> 6, state |-> "APPROVED"]},
               handoffs |-> {[id |-> 10, wave |-> 8, items |-> {9}, claimed |-> FALSE]}],
     item |-> 9, handoff |-> 10]

ArtifactCases ==
    {Artifacts, [Artifacts EXCEPT !.handoff = 0], [Artifacts EXCEPT !.item = 0], [Artifacts EXCEPT !.pack.run = 0],
     [Artifacts EXCEPT !.pack.run = 2], [Artifacts EXCEPT !.pack.portfolio = 2], [Artifacts EXCEPT !.pack.status = "BLOCKED"],
     [Artifacts EXCEPT !.selection.alternative = 2], [Artifacts EXCEPT !.set.alternatives[1].cost = OE!NoValue],
     [Artifacts EXCEPT !.set.alternatives[1].method = "DO_NOTHING_BASELINE"], [Artifacts EXCEPT !.set.status = "DEGRADED"],
     [Artifacts EXCEPT !.set.source = "BLOCKED"], [Artifacts EXCEPT !.wave.items = {}], [Artifacts EXCEPT !.handoff = 11]}

PreviewWorkloads ==
    {PreviewOf(Evidence(<<a>>, "READY", <<Config(DimensionOf(a), "TARGET")>>)) :
        a \in CoreAnswers \cup RiskAnswers \cup PerformanceAnswers \cup GapAnswers}
    \cup {PreviewOf(Evidence(<<Volatility(v)>>, state, <<Config("RISK_REDUCTION", direction)>>)) : v \in {-2, 0, 2, 4, 9},
            state \in {"READY", "PENDING_REVIEW", "DEGRADED", "BLOCKED"}, direction \in {"LOWER_IS_BETTER", "HIGHER_IS_BETTER", "TARGET"}}
    \cup {PreviewOf(Evidence(rs, "READY", <<Config("RISK_REDUCTION", "TARGET"), Config("COST", "LOWER_IS_BETTER")>>)) :
            rs \in {<<>>, <<Volatility(2)>>, <<Fee(2)>>, <<Volatility(2), Fee(2)>>, <<Volatility(9), Fee(2)>>, <<Volatility(2), Fee(9)>>,
                    <<Volatility(2), Volatility(2), Fee(2)>>, <<Volatility(2), Stale(Volatility(2)), Fee(2)>>,
                    <<Stale(Volatility(2)), Fee(2)>>, <<Volatility(2), Volatility(4), Fee(2)>>}}
    \cup {PreviewOf([Evidence(<<Fee(v)>>, "READY", <<Config("COST", "LOWER_IS_BETTER")>>) EXCEPT !.artifacts = <<a>>]) :
            a \in ArtifactCases, v \in {2, 9}}
    \cup {PreviewOf([Evidence(<<Fee(2)>>, "READY", <<Config("COST", "TARGET")>>) EXCEPT !.omitted = {"COST"}])}

Ready == Evidence(<<Volatility(2)>>, "READY", <<Config("RISK_REDUCTION", "TARGET")>>)

Breached == Evidence(<<Volatility(9)>>, "READY", <<Config("RISK_REDUCTION", "TARGET")>>)

Costly == [Evidence(<<Fee(9)>>, "READY", <<Config("COST", "TARGET")>>) EXCEPT !.posted = [Posted("READY", 1) EXCEPT !.identity.run = 0]]

Create(key, evidence) == [op |-> "CREATE", key |-> key, evidence |-> evidence]

Refresh(key, evidence) == [op |-> "REFRESH", key |-> key, evidence |-> evidence]

Handoff(key) == [op |-> "HANDOFF", key |-> key]

ReviewWorkloads ==
    { \* two clients send the same review, and its sources change
      [pm |-> <<Create("k1", Ready), Handoff("k1")>>, ops |-> <<Create("k1", Ready), Refresh("k1", Breached), Handoff("k1")>>],
      \* a key is used again with other evidence, while other reviews are made
      [pm |-> <<Create("k1", Ready), Handoff("k1"), Create("k2", Breached), Handoff("k1")>>,
       ops |-> <<Create("k1", Breached), Create("k3", Costly), Refresh("k3", Costly)>>] }

OR == INSTANCE OutcomeReviews WITH Workloads <- PreviewWorkloads \cup ReviewWorkloads, ScanLimit <- 3, MaxLost <- 1

-----------------------------------------------------------------------------
(* Construction alternatives and proof packs                               *)

CE == INSTANCE ConstructionEvidence WITH CurvePointLimit <- 2

Absent == CE!NoContext

Shelf == [A |-> [class |-> "EQUITY", issuer |-> "I1", country |-> "US"], B |-> [class |-> "UNKNOWN", issuer |-> "", country |-> "US"]]

Request ==
    [portfolio |-> "P1", base |-> "USD", prices |-> {"USD", "EUR"}, fx |-> {"EUR"}, shelf |-> Shelf,
     options |-> [turnover |-> -1, tax |-> FALSE, solver |-> FALSE, settlement |-> FALSE, cash |-> 0, blockFx |-> FALSE, fx |-> 0, position |-> -1]]

Trade(instrument, side, notional) == [instrument |-> instrument, side |-> side, notional |-> notional]

Result ==
    [id |-> 0, status |-> "READY", gate |-> "NONE", policy |-> "NONE", tax |-> TRUE, taxEvents |-> FALSE, dropped |-> FALSE,
     missingFx |-> FALSE, breaches |-> FALSE, short |-> FALSE, warnings |-> {}, compared |-> FALSE, total |-> 1000, value |-> 1000,
     currency |-> "USD", before |-> [A |-> 4000, B |-> 6000], after |-> [A |-> 5000, B |-> 4700], model |-> [A |-> 5000, B |-> 5000],
     classes |-> [EQUITY |-> 5000, UNKNOWN |-> 4700, CASH |-> 300], holdings |-> {"USD", "EUR"},
     trades |-> <<Trade("A", "BUY", 100), Trade("B", "SELL", 130)>>, rules |-> {}, excluded |-> FALSE, lineage |-> "NONE"]

RunResults ==
    {Result, [Result EXCEPT !.status = "PENDING_REVIEW", !.gate = "RISK_REVIEW_REQUIRED"], [Result EXCEPT !.status = "BLOCKED", !.gate = "BLOCKED"],
     [Result EXCEPT !.tax = FALSE], [Result EXCEPT !.dropped = TRUE], [Result EXCEPT !.missingFx = TRUE], [Result EXCEPT !.breaches = TRUE],
     [Result EXCEPT !.short = TRUE], [Result EXCEPT !.warnings = {"INFEASIBLE"}], [Result EXCEPT !.warnings = {"SOLVER_OTHER"}, !.compared = TRUE],
     [Result EXCEPT !.total = 0, !.value = 0], [Result EXCEPT !.classes = [EQUITY |-> 5000, UNKNOWN |-> 5000]],
     [Result EXCEPT !.classes = [EQUITY |-> 5000, UNKNOWN |-> 4750, CASH |-> 250]], [Result EXCEPT !.holdings = {"USD"}],
     [Result EXCEPT !.trades = <<>>], [Result EXCEPT !.trades = <<Trade("A", "BUY", -1)>>], [Result EXCEPT !.trades = <<Trade("C", "BUY", 10)>>],
     [Result EXCEPT !.rules = {[failed |-> TRUE, hard |-> TRUE, code |-> "R1"]}], [Result EXCEPT !.excluded = TRUE]}

NoAuthority == CE!ConstructionAuthorityContext

Rule(sides, from, to) ==
    [code |-> "X", active |-> TRUE, from |-> from, to |-> to, sides |-> sides, instruments |-> {}, classes |-> {}, issuers |-> {}, countries |-> {}]

Rules ==
    {[Rule({"BUY"}, 0, 9) EXCEPT !.instruments = {"A"}], [Rule({"BUY"}, 0, 5) EXCEPT !.issuers = {"I1"}], [Rule({"BUY"}, 0, 4) EXCEPT !.issuers = {"I1"}],
     [Rule({"SELL"}, 5, -1) EXCEPT !.classes = {"BOND"}], [Rule({"BUY", "SELL"}, 0, -1) EXCEPT !.countries = {"US"}, !.active = FALSE],
     [Rule({"SELL"}, 0, -1) EXCEPT !.issuers = {"I2"}], [Rule({"SELL"}, 6, -1) EXCEPT !.instruments = {"B"}], Rule({"SELL"}, 0, -1)}

Restriction(status, rules) == CE!ClientRestrictionContext(status, 5, rules, {}, {"PROFILE"}, 1)

Preference(minimum, maximum, codes) ==
    [code |-> "G", active |-> TRUE, classes |-> {"EQUITY"}, minimum |-> minimum, maximum |-> maximum, codes |-> codes]

Sustainability(status, preferences) == CE!SustainabilityPreferenceContext(status, preferences, {}, {"PROFILE"}, 1)

Cashflow(amount, currency, projected) == CE!LiquidityCashflowProjection("READY", amount, currency, projected)

Liquidity(status, minimum, cashflow) == CE!LiquidityContext(status, minimum, cashflow, <<>>, {"POLICY"})

CurvePoint(instrument, side) == [key |-> <<instrument, side>>, bps |-> 5]

Curve(status, points) == CE!TransactionCostContext(status, points, {"CURVE"}, 1)

Overlay(status, currencies) == CE!CurrencyOverlayContext(status, currencies, {}, {<<"OVERLAY", 0>>})

Regime(status, loss, reasons) == CE!RegimeStressContext(status, loss, 5, reasons, TRUE, TRUE, TRUE)

BothSides == <<CurvePoint("A", "BUY"), CurvePoint("B", "SELL")>>

Authority ==
    [NoAuthority EXCEPT !.risk = CE!RiskContext("READY", {}), !.performance = CE!PerformanceContext("READY", {}), !.cost = Curve("READY", BothSides),
        !.restriction = Restriction("READY", {}), !.sustainability = Sustainability("READY", {}),
        !.liquidity = Liquidity("READY", 300, Absent), !.currency = Overlay("READY", {"EUR"}), !.regime = Regime("READY", 5, {})]

Contexts ==
    {NoAuthority, Authority, [NoAuthority EXCEPT !.required = TRUE]}
    \cup {[Authority EXCEPT !.restriction = Restriction(status, {rule})] : status \in {"READY", "DEGRADED"}, rule \in Rules}
    \cup {[Authority EXCEPT !.sustainability = Sustainability(status, {Preference(p[1], p[2], FALSE)})] :
            status \in {"READY", "DEGRADED", "BLOCKED"}, p \in {<<-1, -1>>, <<5000, 5000>>, <<5001, -1>>, <<-1, 4999>>}}
    \cup {[Authority EXCEPT !.sustainability = Sustainability("READY", {Preference(-1, -1, TRUE)})]}
    \cup {[Authority EXCEPT !.liquidity = Liquidity("READY", minimum, Cashflow(amount, currency, projected))] :
            minimum \in {200, 300}, amount \in {-10, -11, 0, 20}, currency \in {"USD", "EUR"}, projected \in BOOLEAN}
    \cup {[Authority EXCEPT !.cost = Curve(status, points)] : status \in {"READY", "DEGRADED"}, points \in {<<>>, <<CurvePoint("A", "BUY")>>, BothSides}}
    \cup {[Authority EXCEPT !.currency = Overlay(status, currencies)] : status \in {"READY", "DEGRADED"}, currencies \in {{}, {"EUR"}, {"GBP"}}}
    \cup {[Authority EXCEPT !.regime = Regime(status, loss, reasons)] : status \in {"READY", "DEGRADED"}, loss \in {5, 6},
            reasons \in {{}, {"INAPPLICABLE"}, {"EFFECTIVE_PERIOD"}}}
    \cup {[Authority EXCEPT !.risk = CE!RiskContext(status, {})] : status \in {"DEGRADED", "BLOCKED", "NONE"}}

Product(fields) == fields @@ [status |-> "GIVEN", fingerprint |-> 0, lineage |-> 0, hash |-> 1]

Source ==
    [state |-> "READY", schedules |-> <<>>, cashflow |-> Absent, acknowledgement |-> Absent,
     curve |-> Product([state |-> "READY", reason |-> "CURVE", points |-> BothSides]),
     treasury |-> [i \in 1..5 |-> Absent],
     restriction |-> Product([state |-> "READY", asOf |-> 5, rules |-> {}, missing |-> {}, reason |-> "PROFILE"]),
     sustainability |-> Product([state |-> "READY", preferences |-> {}, missing |-> {}, reason |-> "PROFILE"])]

Treasury(state, currencies) == [status |-> "GIVEN", state |-> state, reason |-> "TREASURY", currencies |-> currencies, missing |-> {"FORWARDS"}]

Sources ==
    {Source, [Source EXCEPT !.state = "DEGRADED"], [Source EXCEPT !.restriction = Absent], [Source EXCEPT !.curve = Absent],
     [Source EXCEPT !.restriction.state = "INCOMPLETE"], [Source EXCEPT !.restriction.missing = {"issuer_classification"}],
     [Source EXCEPT !.curve.points = <<CurvePoint("A", "BUY"), CurvePoint("B", "SELL"), CurvePoint("A", "BUY")>>],
     [Source EXCEPT !.curve.points = <<CurvePoint("C", "BUY"), CurvePoint("A", "BUY"), CurvePoint("B", "SELL")>>],
     [Source EXCEPT !.treasury[2] = Treasury("READY", {"EUR"})], [Source EXCEPT !.treasury[1] = Treasury("UNAVAILABLE", {}), !.treasury[2] = Treasury("READY", {"EUR"})],
     [Source EXCEPT !.cashflow = [status |-> "GIVEN", quality |-> "READY", amount |-> -11, currency |-> "USD", projected |-> TRUE]],
     [Source EXCEPT !.cashflow = [status |-> "GIVEN", quality |-> "UNKNOWN", amount |-> 5, currency |-> "USD", projected |-> TRUE]],
     [Source EXCEPT !.schedules = <<Product([state |-> "DEGRADED"])>>],
     [Source EXCEPT !.acknowledgement = [status |-> "GIVEN", state |-> "UNAVAILABLE", reason |-> "NOT_ASKED"]]}
    \cup {[Source EXCEPT !.restriction.rules = {rule}] : rule \in Rules}

AllMethods ==
    <<"DO_NOTHING_BASELINE", "HEURISTIC_EXPLAINABLE", "MIN_TURNOVER", "COST_AWARE", "TAX_AWARE", "SOLVER_CONSTRAINED", "LIQUIDITY_AWARE",
      "RISK_AWARE", "ESG_AWARE", "CURRENCY_OVERLAY", "REGIME_STRESS_AWARE">>

NoPrint == [status |-> "NONE", tenant |-> "ann", print |-> 0]

RiskAnswer == [concentration |-> CE!RiskContext("READY", {}), regime |-> Regime("READY", 6, {})]

RiskSilent == [concentration |-> Absent, regime |-> Absent]

ConstructWith(result, context, source, solver, risk) ==
    [op |-> "construct", tenant |-> "ann", key |-> 1, correlation |-> 0, request |-> Request, methods |-> AllMethods,
     results |-> [m \in CE!Methods |-> result], context |-> context, source |-> source, solver |-> solver, risk |-> risk, authority |-> NoPrint]

PackOf(key, method) ==
    [op |-> "pack", tenant |-> "ann", key |-> key, source |-> "SELECTED_ALTERNATIVE", of |-> <<"ann", 1>>, method |-> method, run |-> 0,
     mandate |-> 1, reason |-> TRUE, regime |-> Absent, wanted |-> <<>>, actor |-> "pm"]

Alone(commands) == [runs |-> <<>>, todo |-> [pm |-> commands], losses |-> 0]

ConstructionCases ==
    {Alone(<<ConstructWith(result, context, source, TRUE, RiskAnswer), PackOf(1, "REGIME_STRESS_AWARE")>>) :
        result \in RunResults, context \in {NoAuthority, Authority}, source \in {CE!NoSource, Source}}
    \cup {Alone(<<ConstructWith(result, context, CE!NoSource, FALSE, RiskSilent), PackOf(1, "COST_AWARE")>>) :
        result \in {Result, [Result EXCEPT !.total = 2000], [Result EXCEPT !.currency = "EUR"]}, context \in Contexts}
    \cup {Alone(<<ConstructWith(result, NoAuthority, source, TRUE, RiskAnswer), PackOf(1, "ESG_AWARE")>>) :
        result \in {Result, [Result EXCEPT !.trades = <<Trade("A", "BUY", 1)>>], [Result EXCEPT !.trades = <<Trade("B", "SELL", 1)>>]}, source \in Sources}
    \cup {Alone(<<[ConstructWith(Result, Authority, CE!NoSource, TRUE, RiskAnswer) EXCEPT !.request.prices = {"USD"} \cup prices, !.request.fx = fx],
                  PackOf(1, "CURRENCY_OVERLAY")>>) : prices \in SUBSET {"EUR", "GBP"}, fx \in SUBSET {"EUR", "GBP"}}
    \cup {Alone(<<[ConstructWith(Result, Authority, CE!NoSource, TRUE, RiskAnswer) EXCEPT
                       !.request.options.turnover = turnover, !.request.options.position = turnover, !.request.options.cash = cash,
                       !.request.options.fx = cash, !.request.options.tax = flag, !.request.options.blockFx = flag]>>) :
            turnover \in {-1, 500, 5000}, cash \in {0, 500}, flag \in BOOLEAN}

\* A set of two methods, for the requests that race.
Construct(tenant, key, correlation) ==
    [ConstructWith(Result, Authority, CE!NoSource, TRUE, RiskSilent) EXCEPT
        !.tenant = tenant, !.key = key, !.correlation = correlation, !.methods = <<"HEURISTIC_EXPLAINABLE", "MIN_TURNOVER">>,
        !.results["MIN_TURNOVER"].status = "BLOCKED"]

Select(tenant, of, method) == [op |-> "select", tenant |-> tenant, of |-> of, method |-> method, actor |-> "pm"]

ReadSet(tenant, of) == [op |-> "readSet", tenant |-> tenant, of |-> of]

PackRun(tenant, key, run) == [PackOf(key, "HEURISTIC_EXPLAINABLE") EXCEPT !.tenant = tenant, !.source = "REBALANCE_RUN", !.run = run]

ReadPack(tenant, view) ==
    [op |-> "readPack", tenant |-> tenant, owner |-> "ann", source |-> "SELECTED_ALTERNATIVE", of |-> <<"ann", 1>>,
     method |-> "HEURISTIC_EXPLAINABLE", run |-> 0, view |-> view]

ReadRunPack(tenant, owner, run) == [ReadPack(tenant, "PACK") EXCEPT !.owner = owner, !.source = "REBALANCE_RUN", !.run = run]

ListPacks(tenant, mandate, status, limit, offset) ==
    [op |-> "listPacks", tenant |-> tenant, portfolio |-> "P1", mandate |-> mandate, status |-> status, limit |-> limit, offset |-> offset]

ReportRef == "DPM_PROOF_PACK_REPORT_INPUT"

AiRef == "DPM_PROOF_PACK_AI_EVIDENCE_INPUT"

Mine == <<"ann", 1>>

Chosen == "HEURISTIC_EXPLAINABLE"

SeededRun(id, tenant) ==
    (id :> ([Result EXCEPT !.id = id, !.gate = "COMPLIANCE_REVIEW_REQUIRED", !.policy = "NOT_ASSESSED"] @@ [tenant |-> tenant, portfolio |-> "P1", at |-> 0, decisions |-> <<0>>, correlation |-> <<0, "NONE">>]))

PackRaces ==
    { \* two clients generate one set, with the same caller's correlation, and one of them may crash
      [runs |-> <<>>, losses |-> 1,
       todo |-> [pm |-> <<Construct("ann", 1, 7), ReadSet("ann", Mine)>>, ops |-> <<Construct("ann", 1, 7), PackOf(1, Chosen), ListPacks("ann", 0, "ANY", 2, 0)>>]],
      [runs |-> <<>>, losses |-> 1, todo |-> [pm |-> <<Construct("ann", 1, 0), [Construct("ann", 1, 0) EXCEPT !.request.portfolio = "P2"],
                                                       [Construct("ann", 2, 0) EXCEPT !.authority = [status |-> "GIVEN", tenant |-> "bob", print |-> 1]]>>]],
      \* a selection is made and changed while the pack is generated
      [runs |-> <<>>, losses |-> 0,
       todo |-> [pm |-> <<Construct("ann", 1, 0), Select("ann", Mine, Chosen), Select("ann", Mine, "MIN_TURNOVER"), Select("ann", Mine, "TAX_AWARE")>>,
                 ops |-> <<PackOf(1, Chosen), PackOf(1, "MIN_TURNOVER"), PackOf(2, "TAX_AWARE"), PackOf(3, "MIN_TURNOVER")>>]],
      [runs |-> <<>>, losses |-> 0,
       todo |-> [pm |-> <<[Construct("ann", 1, 0) EXCEPT !.results["MIN_TURNOVER"].status = "READY"], Select("ann", Mine, Chosen)>>,
                 ops |-> <<Select("ann", Mine, "MIN_TURNOVER"), PackOf(1, "MIN_TURNOVER")>>]],
      \* two clients generate one pack with its references, and one of them may crash
      [runs |-> SeededRun(15, "ann"), losses |-> 1,
       todo |-> [pm |-> <<[PackRun("ann", 1, 15) EXCEPT !.wanted = <<ReportRef, AiRef>>]>>, ops |-> <<[PackRun("ann", 2, 15) EXCEPT !.wanted = <<ReportRef>>]>>]],
      \* one key for two sources, and two clients with it
      [runs |-> SeededRun(15, "ann") @@ SeededRun(14, "ann"), losses |-> 0,
       todo |-> [pm |-> <<PackRun("ann", 1, 15), PackRun("ann", 1, 14)>>, ops |-> <<PackRun("ann", 1, 14), ListPacks("ann", 1, "PENDING_REVIEW", 2, 0)>>]],
      \* what there is to say of a mandate, and of a source that is not there
      Alone(<<Construct("ann", 1, 0), [PackOf(1, Chosen) EXCEPT !.mandate = 2], [PackOf(2, "MIN_TURNOVER") EXCEPT !.mandate = 3, !.reason = FALSE],
              [PackOf(3, Chosen) EXCEPT !.mandate = 4, !.source = "REBALANCE_RUN", !.regime = Regime("READY", 5, {"CONTRIBUTION_PARTIAL"})],
              PackRun("ann", 4, 9), [PackRun("ann", 5, 0) EXCEPT !.of = <<"ann", 9>>], [PackOf(6, Chosen) EXCEPT !.of = <<"ann", 9>>], ListPacks("ann", 0, "ANY", 1, 1),
              ListPacks("ann", 0, "ANY", 2, 4)>>),
      Alone(<<[Construct("ann", 1, 0) EXCEPT !.methods = <<"DO_NOTHING_BASELINE">>], [PackOf(1, "DO_NOTHING_BASELINE") EXCEPT !.mandate = 0],
              PackOf(1, "DO_NOTHING_BASELINE")>>),
      \* two tenants use one key, and each asks for what is the other's
      [runs |-> <<>>, losses |-> 0,
       todo |-> [pm |-> <<Construct("ann", 1, 0), PackOf(1, Chosen), ReadPack("ann", ReportRef), ReadPack("ann", AiRef), ReadPack("ann", "PACK"), ListPacks("bob", 0, "ANY", 5, 0)>>,
                 other |-> <<Construct("bob", 1, 0), ReadSet("bob", Mine), Select("bob", Mine, Chosen), [PackOf(1, Chosen) EXCEPT !.tenant = "bob"], ReadPack("bob", "PACK")>>]],
      \* a tenant packs a run of another
      [runs |-> SeededRun(15, "ann"), losses |-> 0,
       todo |-> [pm |-> <<ReadRunPack("ann", "bob", 15), PackRun("ann", 1, 15), ListPacks("ann", 0, "ANY", 5, 0)>>,
                 other |-> <<PackRun("bob", 1, 15), ReadRunPack("bob", "bob", 15), ReadRunPack("bob", "ann", 15)>>]] }

MandateEvidence ==
    (<<"ann", 1>> :> [twin |-> [status |-> "GIVEN", portfolio |-> "P1", gaps |-> {}], health |-> [status |-> "READY", readiness |-> "READY", reasons |-> {}]])
        @@ (<<"ann", 2>> :> [twin |-> [status |-> "GIVEN", portfolio |-> "P2", gaps |-> {}], health |-> Absent])
        @@ (<<"ann", 3>> :> [twin |-> [status |-> "GIVEN", portfolio |-> "P1", gaps |-> {"GAP"}], health |-> Absent])
        @@ (<<"ann", 4>> :> [twin |-> [status |-> "GIVEN", portfolio |-> "P1", gaps |-> {}], health |-> [status |-> "BLOCKED", readiness |-> "READY", reasons |-> {"H"}]])

CP == INSTANCE ConstructionPacks WITH CurvePointLimit <- 2, Workloads <- ConstructionCases \cup PackRaces, Mandates <- MandateEvidence

-----------------------------------------------------------------------------
(* Portfolio memory: portfolios 1..3, tenants ann and bob.                  *)

CoreRef == {<<"lotus-core", "PORTFOLIO">>}

PackRow(tenant, id, portfolio, at, status) ==
    [id |-> id, tenant |-> tenant, portfolio |-> portfolio, at |-> at, status |-> status, reasons |-> {"PACK"}, refs |-> CoreRef, artifacts |-> {},
     hash |-> at, timeline |-> {[id |-> 1, at |-> at, system |-> "lotus-manage", type |-> "RUN_RECORDED", status |-> status, reasons |-> {}]}]

TwinRow(tenant, portfolio, mandate, asOf) ==
    [tenant |-> tenant, portfolio |-> portfolio, mandate |-> mandate, asOf |-> asOf, lineage |-> CoreRef]

HealthRow(tenant, id, mandate, at, status) ==
    [id |-> id, tenant |-> tenant, mandate |-> mandate, at |-> at, status |-> status, reasons |-> {"HEALTH"}, hash |-> at]

ExceptionRow(tenant, id, portfolio, mandate, at, state, severity) ==
    [id |-> id, tenant |-> tenant, portfolio |-> portfolio, mandate |-> mandate, at |-> at, state |-> state, severity |-> severity,
     reason |-> "DRIFT", lineage |-> CoreRef, hash |-> at]

SetRow(tenant, id, portfolio, at, status) ==
    [id |-> id, tenant |-> tenant, portfolio |-> portfolio, at |-> at, status |-> status, methods |-> {"READY"}, hash |-> at]

SelectionRow(tenant, set, id, at) == [id |-> id, tenant |-> tenant, set |-> set, at |-> at, reason |-> "PM_CHOICE", hash |-> at]

WaveRow(tenant, id, at, state, portfolios, moves) ==
    [id |-> id, tenant |-> tenant, at |-> at, state |-> state, refs |-> {},
     items |-> {[id |-> 10 * id + portfolio, portfolio |-> portfolio, reasons |-> {"ITEM"}, refs |-> CoreRef] : portfolio \in portfolios},
     events |-> {[id |-> move[1], at |-> move[1], type |-> "WAVE_MOVED", to |-> move[2], reason |-> "MOVED"] : move \in moves},
     handoffs |-> IF state = "HANDOFF_READY" THEN {[id |-> 1, at |-> at, items |-> {10 * id + 1}, reason |-> "HANDOFF", hash |-> at]} ELSE {}]

CampaignRow(tenant, id, at, portfolios, task, outcome) ==
    [id |-> id, tenant |-> tenant, at |-> at, asOf |-> at, status |-> "ACTIVE", hash |-> at, refs |-> {<<"lotus-idea", "CAMPAIGN">>},
     members |-> {[portfolio |-> portfolio, refs |-> CoreRef] : portfolio \in portfolios},
     decisions |-> {[id |-> 1, at |-> at, type |-> "APPROVED", refs |-> {}, hash |-> at]},
     actions |-> {[id |-> 1, at |-> at, type |-> "ASSIGN", sla |-> "ON_TRACK", refs |-> {}, hash |-> at]},
     tasks |-> {[id |-> 1, at |-> at, status |-> task, sla |-> "ON_TRACK", refs |-> {}, hash |-> at,
                 transitions |-> {[id |-> 1, at |-> at, type |-> "MOVE", to |-> task, sla |-> "ON_TRACK", refs |-> {}, hash |-> at]}]},
     controls |-> {[id |-> 1, at |-> at, action |-> "SUBMIT", outcome |-> outcome, refs |-> {}, hash |-> at]}]

ReviewRow(id, portfolio, at, state) ==
    LET entry(to) == [id |-> 1, at |-> at, type |-> "OUTCOME_REVIEW_CREATED", state |-> to, reasons |-> {}, refs |-> {}]
    IN [id |-> id, portfolio |-> portfolio, at |-> at, state |-> state, reasons |-> {"REVIEW"}, refs |-> {<<"lotus-performance", "RETURNS">>},
        hash |-> at, events |-> {entry("DRAFT")}, persisted |-> {entry(state)}]

ScoreRow(tenant, id, at, state, book) ==
    [id |-> id, tenant |-> tenant, at |-> at, state |-> state, reasons |-> {"SCORE"}, refs |-> {}, hash |-> at, book |-> book, bookRefs |-> book]

ActionRow(tenant, id, at, target, state) ==
    [id |-> id, tenant |-> tenant, at |-> at, kind |-> "SCORE_RUN", target |-> target, type |-> "NOTE", state |-> state, refs |-> {}, hash |-> at]

InvocationRow(tenant, id, at, score, state) ==
    [id |-> id, tenant |-> tenant, at |-> at, score |-> score, state |-> state, refs |-> {}, hash |-> at, summarised |-> state = "COMPLETED"]

MemorySeed ==
    [packs |-> {PackRow("ann", 1, 1, 1, "READY"), PackRow("bob", 2, 3, 2, "BLOCKED")},
     twins |-> {TwinRow("ann", 1, 1, 1), TwinRow("ann", 2, 2, 1)},
     health |-> {HealthRow("ann", 1, 1, 2, "READY"), HealthRow("bob", 2, 2, 2, "BLOCKED")},
     exceptions |-> {ExceptionRow("ann", 1, 1, 1, 3, "RESOLVED", "CRITICAL"), ExceptionRow("ann", 2, 2, 2, 4, "ACTIVE", "WARNING")},
     sets |-> {SetRow("ann", 1, 1, 3, "READY")},
     selections |-> {SelectionRow("ann", 1, 1, 4)},
     waves |-> {WaveRow("ann", 1, 4, "HANDOFF_READY", {1, 3}, {<<5, "HANDOFF_READY">>}), WaveRow("bob", 2, 6, "REJECTED", {1}, {})},
     campaigns |-> {CampaignRow("ann", 1, 3, {3}, "RESOLVED", "PASSED")},
     reviews |-> {ReviewRow(1, 1, 5, "READY")},
     scores |-> {ScoreRow("ann", 1, 5, "READY", {1})},
     actions |-> {ActionRow("ann", 1, 6, 1, "RECORDED"), ActionRow("bob", 2, 6, 1, "ESCALATED")},
     invocations |-> {InvocationRow("ann", 1, 6, 1, "COMPLETED")}]

Recorded(family, row) == [op |-> "record", family |-> family, row |-> row]

MemoryWrites ==
    {Recorded("packs", PackRow("ann", 3, 3, 11, "BLOCKED")), Recorded("packs", PackRow("bob", 4, 1, 11, "BLOCKED")),
     Recorded("waves", WaveRow("ann", 1, 4, "REJECTED", {1, 3}, {<<5, "HANDOFF_READY">>, <<12, "REJECTED">>})),
     Recorded("exceptions", ExceptionRow("ann", 2, 2, 2, 4, "RESOLVED", "WARNING")),
     Recorded("exceptions", ExceptionRow("ann", 3, 1, 1, 13, "ACTIVE", "CRITICAL")),
     Recorded("twins", TwinRow("ann", 1, 4, 2)), Recorded("health", HealthRow("ann", 3, 2, 12, "PENDING_REVIEW")),
     Recorded("sets", SetRow("ann", 2, 2, 13, "DEGRADED")), Recorded("selections", SelectionRow("ann", 1, 2, 14)),
     Recorded("campaigns", CampaignRow("ann", 1, 3, {3}, "CANCELLED", "FAILED")),
     Recorded("reviews", ReviewRow(2, 2, 15, "BREACHED")), Recorded("scores", ScoreRow("ann", 2, 14, "DEGRADED", {1, 2})),
     Recorded("actions", ActionRow("ann", 3, 15, 1, "ESCALATED")), Recorded("invocations", InvocationRow("ann", 2, 15, 1, "FAILED"))}

MemoryQuery(type, state, system, source, explicit, limit, offset) ==
    [type |-> type, state |-> state, system |-> system, source |-> source, explicit |-> explicit, limit |-> limit, offset |-> offset, scan |-> 40]

MemorySearch(query) == [op |-> "search", tenant |-> "ann", query |-> query]

MemoryRead(op, portfolio, limit) == [op |-> op, tenant |-> "ann", portfolio |-> portfolio, limit |-> limit]

\* Walks by page, hits that are looked up, and the views of one portfolio.
MemoryReads ==
    {<<MemorySearch(MemoryQuery("ANY", "ANY", "ANY", "ANY", {}, 1, 0)), MemorySearch(MemoryQuery("ANY", "ANY", "ANY", "ANY", {}, 1, 1)),
       MemorySearch(MemoryQuery("ANY", "ANY", "ANY", "ANY", {}, 1, 2))>>,
     <<MemorySearch(MemoryQuery("ANY", "ANY", "ANY", "ANY", {2}, 2, 0)), MemorySearch(MemoryQuery("ANY", "ANY", "ANY", "ANY", {2}, 2, 2))>>,
     <<MemoryRead("timeline", 1, 100), MemoryRead("report", 1, 100), MemoryRead("timeline", 3, 100)>>,
     <<MemoryRead("timeline", 2, 100), MemoryRead("timeline", 1, 2), MemoryRead("timeline", 1, 0)>>,
     <<MemorySearch([MemoryQuery("ANY", "ANY", "ANY", "ANY", {}, 2, 0) EXCEPT !.scan = 2]), MemorySearch(MemoryQuery("ANY", "ANY", "ANY", "ANY", {}, 3, 0))>>}
    \cup {<<MemorySearch(query), MemoryRead("lookup", 1, 100)>> :
              query \in {MemoryQuery("ANY", "ANY", "ANY", "ANY", {}, 1, 0), MemoryQuery("WAVE_CREATED", "ANY", "ANY", "ANY", {}, 1, 1),
                         MemoryQuery("ANY", "READY", "ANY", "ANY", {}, 2, 0), MemoryQuery("ANY", "EMPTY", "ANY", "ANY", {4}, 2, 0),
                         MemoryQuery("ANY", "ANY", "lotus-idea", "ANY", {}, 2, 0), MemoryQuery("ANY", "ANY", "ANY", "RUN_RECORDED", {3}, 2, 0),
                         MemoryQuery("MANDATE_MONITORING_EXCEPTION", "ANY", "ANY", "ANY", {}, 2, 0)}}

MemoryWorkloads ==
    {[seed |-> MemorySeed, calls |-> [reader |-> reads, writer |-> <<first, second>>]] :
         reads \in MemoryReads, first \in MemoryWrites, second \in {write \in MemoryWrites : write.family \in {"packs", "twins", "exceptions", "scores"}}}

PM == INSTANCE PortfolioMemory WITH Workloads <- MemoryWorkloads, SearchLimitMax <- 2, ScanLimitMax <- 1000, ReadLimitMax <- 1000, ReportEventLimit <- 4

-----------------------------------------------------------------------------

EvidenceInit ==
    \/ part = "runs" /\ RS!Init
    \/ part = "ideas" /\ IA!Init
    \/ part = "outcomes" /\ OR!Init
    \/ part = "packs" /\ CP!Init
    \/ part = "memory" /\ PM!Init

RunStep == part = "runs" /\ RS!Next /\ UNCHANGED part

IdeaStep == part = "ideas" /\ IA!Next /\ UNCHANGED part

OutcomeStep == part = "outcomes" /\ OR!Next /\ UNCHANGED part

PackStep == part = "packs" /\ CP!Next /\ UNCHANGED part

MemoryStep == part = "memory" /\ PM!Next /\ UNCHANGED part

EvidenceNext == RunStep \/ IdeaStep \/ OutcomeStep \/ PackStep \/ MemoryStep

EvidenceSpec == EvidenceInit /\ [][EvidenceNext]_evidenceVars

\* The repositories of runs answer alike, and so do those of idea actions,
\* outcome reviews, construction alternatives and proof packs, up to the
\* differences their modules name.
BackendsAgree ==
    /\ part = "runs" => RS!BackendsAgree
    /\ part = "ideas" => IA!RepositoriesAgree
    /\ part = "outcomes" => OR!RepositoriesAgree
    /\ part = "packs" => CP!BackendsAgree

\* A run that expires takes its evidence with it, up to writes already under
\* way, and the rest is kept; the history of an idea action loses no
\* acknowledged decision, an outcome review and its handoffs stay as
\* acknowledged, and a set or proof pack that was answered is still there, as
\* is a selection until a later one replaces it.
EvidenceIsRetained ==
    /\ part = "runs" => RS!EvidenceIsRetained
    /\ part = "ideas" => IA!HistoryIsKept /\ IA!ReplaysAreStable
    /\ part = "outcomes" => OR!ReviewsAreKept /\ OR!HandoffsAreStable
    /\ part = "packs" => CP!EvidenceIsRetained

\* A walk through the run inventory misses no run that stayed, a search of
\* outcome reviews none that matches, and a search of portfolio memory no
\* portfolio whose evidence stayed; the timeline agrees with the search and
\* the event of a hit is found.
WalkMissesNothing ==
    /\ part = "runs" => RS!WalkMissesNothing
    /\ part = "outcomes" => OR!SearchCoversAll
    /\ part = "memory" => PM!WalkShowsUnmoved /\ PM!SearchAgreesWithTimeline /\ PM!HitsAreFound

\* An outcome, a construction alternative, a proof pack and a portfolio's
\* memory are READY only on evidence that shows it.
OutcomeIsEarned ==
    /\ part = "outcomes" => OR!OutcomeIsEarned
    /\ part = "packs" => CP!OutcomeIsEarned
    /\ part = "memory" => PM!MemoryIsEarned

\* A support bundle and a timeline hold only what belongs to the tenant that
\* asked, an idea action is shown to those entitled to it, and a tenant is
\* answered only its own sets, selections and packs, which show only its own
\* runs, except that a pack asked for by run id is built from any tenant's run.
TenantsAreSeparate ==
    /\ part = "runs" => RS!TenantsAreSeparate
    /\ part = "ideas" => IA!OutcomesStayInScope
    /\ part = "packs" => CP!TenantsAreSeparate
    /\ part = "memory" => PM!TenantsAreSeparate

=============================================================================
