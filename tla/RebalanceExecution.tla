------------------------- MODULE RebalanceExecution -------------------------
(***************************************************************************)
(* The second half of the rebalance engine: security intents under the tax *)
(* budget and the minimum trade size, the turnover limit, the currency     *)
(* trades that fund them, the settlement ladder, the simulated after-state *)
(* with its rules and reconciliation, and the workflow gate.               *)
(***************************************************************************)
EXTENDS RebalanceTargets

-----------------------------------------------------------------------------
(* Selling under the tax budget.                                           *)

\* Lots by cost in the instrument's currency, the dearest first.
HifoSortedLots(in, lots, ccy) ==
    LET Cost(l) == Convert(l.cost.amt, GetFxRate(in.quotes, l.cost.ccy, ccy))
        Dearer(a, b) == \/ Cost(a) > Cost(b)
                        \/ Cost(a) = Cost(b) /\ a.date > b.date
                        \/ Cost(a) = Cost(b) /\ a.date = b.date /\ a.id > b.id
    IN  [k \in DOMAIN SetToSortSeq(lots, Dearer) |->
            LET l == SetToSortSeq(lots, Dearer)[k] IN [qty |-> l.qty, cost |-> Cost(l)]]

LotCostsConvert(in, lots, ccy) ==
    \A l \in lots : GetFxRate(in.quotes, l.cost.ccy, ccy) # NoRate

\* How much of a lot may be sold at this gain per share within what is left of the budget.
AllowedLotQuantity(qty, gain, used, limit) ==
    IF limit = Unset \/ gain <= 0 THEN qty
    ELSE IF used >= limit THEN 0
    ELSE Min({qty, (limit - used) \div gain})

\* One lot of the scan; a lot that may not be sold in full ends it.
SellLot(acc, lot, price, rate, limit) ==
    LET wanted == Min({acc.left, lot.qty})
        gain == Convert(price - lot.cost, rate)
        allowed == AllowedLotQuantity(wanted, gain, acc.tax.used, limit)
        realized == gain * allowed
    IN  IF acc.stop \/ acc.left <= 0 THEN [acc EXCEPT !.stop = TRUE]
        ELSE IF lot.qty <= 0 THEN acc
        ELSE [left |-> acc.left - allowed,
              allowed |-> acc.allowed + allowed,
              tax |-> IF realized >= 0
                      THEN [acc.tax EXCEPT !.gain = @ + realized, !.used = @ + realized]
                      ELSE [acc.tax EXCEPT !.loss = @ - realized],
              stop |-> allowed < wanted \/ allowed <= 0]

NoTax == [gain |-> 0, loss |-> 0, used |-> 0]

\* A sale without lots that cover it, or whose cost has no rate, is refused.
TaxLotGap(in, i, wanted) ==
    LET lots == in.held[i].lots
    IN  IF i \notin DOMAIN in.held THEN "TAX_LOT_POSITION_MISSING"
        ELSE IF lots = {} THEN "TAX_LOTS_MISSING"
        ELSE IF MapThenSumSet(LAMBDA l : Max({l.qty, 0}), lots) < wanted THEN "TAX_LOTS_INCOMPLETE"
        ELSE IF ~LotCostsConvert(in, lots, in.price[i].ccy) THEN "TAX_LOT_COST_FX_MISSING"
        ELSE "NONE"

\* The quantity left of a requested sale after the holding and the tax budget.
SellQuantity(in, i, requested, price, rate, tax) ==
    LET available == IF i \in DOMAIN in.held THEN in.held[i].qty ELSE 0
        clamped == IF requested <= available THEN requested ELSE Max({available, 0})
        gap == TaxLotGap(in, i, clamped)
        scan == FoldLeft(LAMBDA acc, lot : SellLot(acc, lot, price, rate, in.opt.gains),
                         [left |-> clamped, allowed |-> 0, tax |-> tax, stop |-> FALSE],
                         HifoSortedLots(in, in.held[i].lots, in.price[i].ccy))
    IN  IF ~in.opt.taxAware THEN [qty |-> clamped, before |-> clamped, tax |-> tax, gap |-> "NONE"]
        ELSE IF gap # "NONE" THEN [qty |-> 0, before |-> clamped, tax |-> tax, gap |-> gap]
        ELSE [qty |-> scan.allowed, before |-> clamped, tax |-> scan.tax, gap |-> "NONE"]

-----------------------------------------------------------------------------
(* Security intents.                                                       *)

\* The current value of a holding and the value of one of its shares.
UnitValue(in, i) ==
    LET p == in.held[i]
        price == in.price[i].amt
    IN  IF i \notin DOMAIN in.held THEN [current |-> 0, unit |-> price]
        ELSE IF p.mv = NoMoney THEN [current |-> p.qty * price, unit |-> price]
        ELSE [current |-> p.mv.amt, unit |-> IF p.qty > 0 THEN p.mv.amt \div p.qty ELSE price]

\* Whole shares between the current and the target value.
TargetTradeDelta(in, i, weight, total, rate) ==
    LET v == UnitValue(in, i)
        delta == total * weight * rate.d - v.current * Whole * rate.n
        size == IF delta > 0 THEN delta ELSE -delta
    IN  [side |-> IF delta > 0 THEN "BUY" ELSE "SELL",
         qty |-> Unit * (size \div (v.unit * Unit * Whole * rate.n))]

TradeNotionalThreshold(in, i) ==
    IF in.opt.minNotional # NoMoney THEN in.opt.minNotional
    ELSE IF i \in DOMAIN in.shelf THEN in.shelf[i].min ELSE NoMoney

\* The rate from the threshold's currency; unlike GetFxRate a direct quote of zero wins.
ThresholdFxQuote(in, from, to) ==
    IF from = to THEN [n |-> 1, d |-> 1]
    ELSE IF <<from, to>> \in DOMAIN in.quotes THEN in.quotes[<<from, to>>]
    ELSE IF <<to, from>> \in DOMAIN in.quotes /\ in.quotes[<<to, from>>].n > 0
         THEN [n |-> in.quotes[<<to, from>>].d, d |-> in.quotes[<<to, from>>].n]
    ELSE NoRate

\* Whether the minimum trade size keeps, suppresses or cannot judge a trade.
MinimumTradeThreshold(in, i, amount, ccy) ==
    LET threshold == TradeNotionalThreshold(in, i)
        rate == ThresholdFxQuote(in, threshold.ccy, ccy)
    IN  IF threshold = NoMoney \/ ~in.opt.suppressDust THEN "KEPT"
        ELSE IF rate.n <= 0 THEN "BLOCKED"
        ELSE IF amount * rate.d >= threshold.amt * rate.n THEN "KEPT" ELSE "SUPPRESSED"

SecurityIntent(id, i, side, qty, unit, ccy, rate) ==
    [id |-> id, kind |-> "SECURITY_TRADE", instrument |-> i, side |-> side, qty |-> qty,
     amt |-> qty * unit, ccy |-> ccy, base |-> Convert(qty * unit, rate), deps |-> {}]

NoIntents == [intents |-> <<>>, tax |-> NoTax, noPrice |-> {}, noFx |-> {}, noThreshold |-> {},
              gaps |-> {}, suppressed |-> {}]

\* One target: sized, limited, measured against the minimum trade size and appended.
AddIntent(in, trace, total, acc, i) ==
    LET ccy == in.price[i].ccy
        rate == GetFxRate(in.quotes, ccy, Base)
        unit == UnitValue(in, i).unit
        delta == TargetTradeDelta(in, i, trace[i], total, rate)
        sold == IF delta.side = "SELL" /\ delta.qty > 0
                THEN SellQuantity(in, i, delta.qty, unit, rate, acc.tax)
                ELSE [qty |-> delta.qty, before |-> delta.qty, tax |-> acc.tax, gap |-> "NONE"]
        verdict == MinimumTradeThreshold(in, i, sold.qty * unit, ccy)
        taxed == [acc EXCEPT !.tax = sold.tax,
                             !.gaps = @ \cup (IF sold.gap = "NONE" THEN {} ELSE {i}),
                             !.noFx = @ \cup (IF sold.gap = "TAX_LOT_COST_FX_MISSING"
                                              THEN {ccy} ELSE {})]
    IN  IF i \notin DOMAIN in.price THEN [acc EXCEPT !.noPrice = @ \cup {i}]
        ELSE IF rate = NoRate THEN [acc EXCEPT !.noFx = @ \cup {ccy}]
        ELSE IF verdict = "BLOCKED" THEN [taxed EXCEPT !.noThreshold = @ \cup {i}]
        ELSE IF verdict = "SUPPRESSED" THEN [taxed EXCEPT !.suppressed = @ \cup {i}]
        ELSE IF sold.qty <= 0 THEN taxed
        ELSE [taxed EXCEPT !.intents = Append(@, SecurityIntent(<<"oi", Len(@) + 1>>, i, delta.side,
                                                                sold.qty, unit, ccy, rate))]

GenerateIntents(in, trace, total) ==
    FoldLeft(LAMBDA acc, i : AddIntent(in, trace, total, acc, i), NoIntents, Ascending(DOMAIN trace))

\* The data-quality gaps that block a run.
CheckBlockingDq(opt, dq) ==
    \/ dq.shelfMissing # {}
    \/ dq.noPrice # {} /\ opt.blockPrices
    \/ dq.noFx # {} /\ opt.blockFx
    \/ dq.noThreshold # {}
    \/ dq.gaps # {} /\ opt.taxAware

-----------------------------------------------------------------------------
(* The turnover limit.                                                     *)

\* The largest trades come first; without a portfolio value, the smallest.
TurnoverRank(total, a, b) ==
    \/ a.base # b.base /\ (IF total > 0 THEN a.base > b.base ELSE a.base < b.base)
    \/ a.base = b.base /\ a.instrument < b.instrument

WithinTurnover(opt, total, used) == used * Whole <= total * opt.turnover

\* A trade that does not fit is dropped and the next ones are still tried.
SelectIntent(opt, total, acc, x) ==
    IF WithinTurnover(opt, total, acc.used + x.base)
    THEN [acc EXCEPT !.selected = Append(@, x), !.used = @ + x.base]
    ELSE acc

ProposedTurnover(intents) == MapThenSumSet(LAMBDA k : intents[k].base, DOMAIN intents)

ApplyTurnoverLimit(opt, total, intents) ==
    IF opt.turnover = Unset \/ WithinTurnover(opt, total, ProposedTurnover(intents)) THEN intents
    ELSE FoldLeft(LAMBDA acc, x : SelectIntent(opt, total, acc, x),
                  [selected |-> <<>>, used |-> 0, full |-> FALSE],
                  SortSeq(intents, LAMBDA a, b : TurnoverRank(total, a, b))).selected

-----------------------------------------------------------------------------
(* Currency trades and their order.                                        *)

CurrencyOrder == <<"BASE", "EUR", "JPY">>

Signed(x) == IF x.side = "SELL" THEN x.amt ELSE -x.amt

Trades(intents) == {k \in DOMAIN intents : intents[k].kind = "SECURITY_TRADE"}

\* Cash by currency once every security trade has been paid.
ProjectCash(in, intents) ==
    [c \in DOMAIN in.cash \cup {intents[k].ccy : k \in DOMAIN intents} |->
        (IF c \in DOMAIN in.cash THEN in.cash[c] ELSE 0)
          + MapThenSumSet(LAMBDA k : IF intents[k].ccy = c THEN Signed(intents[k]) ELSE 0,
                          DOMAIN intents)]

FxIntent(id, buyCcy, buyAmt, sellCcy, sellAmt) ==
    [id |-> id, kind |-> "FX_SPOT", buyCcy |-> buyCcy, buyAmt |-> buyAmt,
     sellCcy |-> sellCcy, sellAmt |-> sellAmt, deps |-> {}]

\* A deficit is bought with a buffer, a surplus is swept into the base currency.
FxForBalance(opt, id, c, balance, rate) ==
    LET bought == (-balance * (Whole + opt.fxBuffer)) \div Whole
    IN  IF balance < 0 THEN <<FxIntent(id, c, bought, Base, Convert(bought, rate))>>
        ELSE IF balance > 0 THEN <<FxIntent(id, Base, Convert(balance, rate), c, balance)>>
        ELSE <<>>

\* One currency; a missing rate stops the loop when the options block on it.
AddFx(in, projected, acc, c) ==
    LET rate == GetFxRate(in.quotes, c, Base)
        fx == FxForBalance(in.opt, <<"fx", Len(acc.intents) + 1>>, c, projected[c], rate)
    IN  IF acc.blocked \/ c = Base \/ c \notin DOMAIN projected THEN acc
        ELSE IF rate = NoRate
             THEN [acc EXCEPT !.noFx = @ \cup {c}, !.blocked = in.opt.blockFx]
        ELSE [acc EXCEPT !.intents = @ \o fx,
                         !.funds = IF projected[c] < 0 /\ fx # <<>>
                                   THEN @ \cup {<<c, fx[1].id>>} ELSE @]

AppendProjectedCashFx(in, intents) ==
    FoldLeft(LAMBDA acc, c : AddFx(in, ProjectCash(in, intents), acc, c),
             [intents |-> intents, funds |-> {}, noFx |-> {}, blocked |-> FALSE], CurrencyOrder)

\* A buy waits for the currency trade that funds it and the last sale in its currency.
LinkDependencies(opt, intents, funds) ==
    LET sells(c) == {k \in Trades(intents) : intents[k].side = "SELL" /\ intents[k].ccy = c}
        deps(c) == {f[2] : f \in {g \in funds : g[1] = c}}
                     \cup (IF opt.linkSells /\ sells(c) # {} THEN {intents[Max(sells(c))].id} ELSE {})
    IN  [k \in DOMAIN intents |->
            IF k \in Trades(intents) /\ intents[k].side = "BUY"
            THEN [intents[k] EXCEPT !.deps = deps(intents[k].ccy)] ELSE intents[k]]

\* Mutant: buys come before the currency trades that fund them.
BuysFirst(x) == IF x.kind = "FX_SPOT" THEN 2 ELSE IF x.side = "SELL" THEN 0 ELSE 1

\* Sales first, then currency trades, then purchases.
ExecutionRank(x) == IF x.kind = "FX_SPOT" THEN 1 ELSE IF x.side = "SELL" THEN 0 ELSE 2

SortExecutionIntents(intents) ==
    LET Of(r) == SelectSeq(intents, LAMBDA x : ExecutionRank(x) = r) IN Of(0) \o Of(1) \o Of(2)

-----------------------------------------------------------------------------
(* The settlement ladder.                                                  *)

SettlementDays(in, i) == IF i \in DOMAIN in.shelf THEN in.shelf[i].days ELSE 2

SettlementHorizon(in, intents) ==
    Max({in.opt.horizon, in.opt.fxDays}
          \cup {SettlementDays(in, intents[k].instrument) : k \in Trades(intents)})

\* What an intent moves in currency c on a day.
SettlementFlow(in, x, c, day) ==
    IF x.kind = "SECURITY_TRADE"
    THEN IF x.ccy = c /\ SettlementDays(in, x.instrument) = day THEN Signed(x) ELSE 0
    ELSE IF in.opt.fxDays # day THEN 0
    ELSE (IF x.buyCcy = c THEN x.buyAmt ELSE 0) - (IF x.sellCcy = c THEN x.sellAmt ELSE 0)

\* The daily flows of a currency start with its settled cash.
SettlementCashFlows(in, intents, c) ==
    [day \in 0..SettlementHorizon(in, intents) |->
        (IF day = 0 /\ c \in DOMAIN in.cash
         THEN (IF in.settled[c] # Unset THEN in.settled[c] ELSE in.cash[c]) ELSE 0)
          + MapThenSumSet(LAMBDA k : SettlementFlow(in, intents[k], c, day), DOMAIN intents)]

LadderCurrencies(in, intents) ==
    DOMAIN in.cash \cup {intents[k].ccy : k \in Trades(intents)}
      \cup UNION {{intents[k].buyCcy, intents[k].sellCcy} : k \in DOMAIN intents \ Trades(intents)}

MaxOverdraft(opt, c) == IF c \in DOMAIN opt.overdraft THEN opt.overdraft[c] ELSE 0

\* The currencies and days on which the running balance is below the allowed floor.
LadderBreaches(in, intents) ==
    LET horizon == SettlementHorizon(in, intents)
        Step(flows, acc, day) ==
            LET balance == acc.balance + flows[day]
            IN  [balance |-> balance,
                 days |-> acc.days \cup
                    (IF balance < -MaxOverdraft(in.opt, acc.ccy) THEN {day} ELSE {}),
                 ccy |-> acc.ccy]
        Breached(c) ==
            LET flows == SettlementCashFlows(in, intents, c)
            IN  FoldLeft(LAMBDA acc, day : Step(flows, acc, day),
                         [balance |-> 0, days |-> {}, ccy |-> c],
                         [k \in 1..(horizon + 1) |-> k - 1]).days
    IN  UNION {{<<c, day>> : day \in Breached(c)} : c \in LadderCurrencies(in, intents)}

-----------------------------------------------------------------------------
(* The after-state, its rules and the outcome.                             *)

With(f, k, v) == [x \in DOMAIN f \cup {k} |-> IF x = k THEN v ELSE f[x]]

CashOf(cash, c) == IF c \in DOMAIN cash THEN cash[c] ELSE 0

\* A purchase grows, and a sale shrinks, a market value in the same currency.
MarketValueAfter(mv, x) ==
    IF mv = NoMoney THEN (IF x.side = "BUY" THEN [amt |-> x.amt, ccy |-> x.ccy] ELSE mv)
    ELSE IF mv.ccy # x.ccy THEN mv
    ELSE [mv EXCEPT !.amt = IF x.side = "BUY" THEN @ + x.amt ELSE Max({0, @ - x.amt})]

ApplySecurityTrade(s, x) ==
    LET p == IF x.instrument \in DOMAIN s.held THEN s.held[x.instrument]
             ELSE [qty |-> 0, mv |-> NoMoney, lots |-> {}]
    IN  [held |-> With(s.held, x.instrument,
                       [p EXCEPT !.qty = @ + (IF x.side = "BUY" THEN x.qty ELSE -x.qty),
                                 !.mv = MarketValueAfter(@, x)]),
         cash |-> With(s.cash, x.ccy, CashOf(s.cash, x.ccy) + Signed(x))]

ApplyFxSpot(s, x) ==
    LET paid == With(s.cash, x.sellCcy, CashOf(s.cash, x.sellCcy) - x.sellAmt)
    IN  [s EXCEPT !.cash = With(paid, x.buyCcy, CashOf(paid, x.buyCcy) + x.buyAmt)]

ApplyExecutionIntents(in, intents) ==
    FoldLeft(LAMBDA s, x : IF x.kind = "FX_SPOT" THEN ApplyFxSpot(s, x) ELSE ApplySecurityTrade(s, x),
             [held |-> in.held, cash |-> in.cash], intents)

\* The hard rules a state fails.
HardRuleFailures(opt, state, dq) ==
    (IF /\ opt.maxWeight # Unset
        /\ \E i \in DOMAIN state.held : state.weight[i] > opt.maxWeight + 10
     THEN {"SINGLE_POSITION_MAX"} ELSE {})
      \cup (IF \/ (opt.blockPrices /\ dq.noPrice # {}) \/ (opt.blockFx /\ dq.noFx # {})
               \/ dq.shelfMissing # {} \/ dq.noThreshold # {}
            THEN {"DATA_QUALITY"} ELSE {})
      \cup (IF \E i \in DOMAIN state.held : state.held[i].qty < 0 THEN {"NO_SHORTING"} ELSE {})
      \cup (IF \E c \in DOMAIN state.cash : state.cash[c] < 0 THEN {"INSUFFICIENT_CASH"} ELSE {})

\* The soft rules a state fails.
SoftRuleFailures(opt, state) ==
    (IF state.cashWeight < opt.bandMin \/ state.cashWeight > opt.bandMax THEN {"CASH_BAND"} ELSE {})
      \cup (IF /\ opt.reserve # Unset
               /\ state.cashWeight - opt.reserve \notin -opt.reserveTolerance..opt.reserveTolerance
            THEN {"CASH_RESERVE_TARGET"} ELSE {})

\* Within half a currency unit and five basis points of the expected value.
Reconciles(expected, after) ==
    LET diff == IF after > expected THEN after - expected ELSE expected - after
    IN  2 * Whole * diff <= Whole * Unit + 10 * expected

\* The gate of a result: the first route of the precedence that applies.
GateRoute(opt, status, hard, soft) ==
    IF status = "BLOCKED" \/ hard # {} THEN "BLOCKED"
    ELSE IF soft # {} THEN "RISK_REVIEW_REQUIRED"
    ELSE IF opt.approved THEN "EXECUTION_READY"
    ELSE IF opt.requiresApproval THEN "MANDATE_APPROVAL_REQUIRED"
    ELSE "EXECUTION_READY"

Outcome(intents, state, status, hard, soft) ==
    [intents |-> intents, state |-> state, status |-> status, hard |-> hard, soft |-> soft]

\* Funds, orders, checks and applies the security intents of a run.
GenerateFxAndSimulate(in, securities, before, dq) ==
    LET funded == AppendProjectedCashFx(in, securities)
        intents == SortExecutionIntents(LinkDependencies(in.opt, funded.intents, funded.funds))
        after == ApplyExecutionIntents(in, intents)
        state == BuildSimulatedState(in, in.opt, after.held, after.cash)
        seen == [dq EXCEPT !.noPrice = @ \cup state.noPrice,
                           !.noFx = @ \cup state.noFx \cup funded.noFx]
        hard == HardRuleFailures(in.opt, state, seen)
        soft == SoftRuleFailures(in.opt, state)
        status == IF soft # {} THEN "PENDING_REVIEW" ELSE "READY"
    IN  IF funded.blocked THEN Outcome(funded.intents, before, "BLOCKED", {}, {})
        ELSE IF in.opt.settlement /\ LadderBreaches(in, intents) # {}
             THEN Outcome(intents, before, "BLOCKED", {"SETTLEMENT_CASH_LADDER"}, {})
        ELSE IF hard # {} THEN Outcome(intents, state, "BLOCKED", hard, soft)
        ELSE IF ~Reconciles(before.total, state.total)
             THEN Outcome(intents, state, "BLOCKED", {"RECONCILIATION"}, soft)
        ELSE Outcome(intents, state, status, {}, soft)

=============================================================================
