-------------------------- MODULE RebalanceTargets --------------------------
(***************************************************************************)
(* The first half of the rebalance engine: the valuation of a portfolio,   *)
(* the universe of instruments a run may trade and the target weights,     *)
(* heuristic or from the optimisation solver.                              *)
(*                                                                         *)
(* Weights are basis points (Whole is weight 1).  Quantities are parts of  *)
(* a share and amounts parts of a currency unit, Unit parts to the whole,  *)
(* so a quantity times a whole price is an amount.  A Decimal division     *)
(* rounds at 28 digits; a division here rounds down at these parts.        *)
(* Instruments are 1..n: the model lists its targets in that order, and    *)
(* the holdings outside the model follow.  No instrument is of the asset   *)
(* class CASH.                                                             *)
(***************************************************************************)
EXTENDS Integers, Sequences, FiniteSets, FiniteSetsExt, SequencesExt, Functions

Whole == 10000
Unit == 12
Unset == -1
Base == "BASE"
NoMoney == [amt |-> 0, ccy |-> "NONE"]

Sum(f, S) == MapThenSumSet(LAMBDA i : f[i], S)

Ascending(S) == SetToSortSeq(S, <)

-----------------------------------------------------------------------------
(* The data of a run.                                                      *)

\* A holding: its quantity, a market value the snapshot may carry and its tax lots.
Positions(quantities, moneys, lots) == [qty : quantities, mv : moneys, lots : lots]

TaxLots(ids, quantities, moneys, dates) == [id : ids, qty : quantities, cost : moneys, date : dates]

Prices(amounts, currencies) == [amt : amounts, ccy : currencies]

ShelfStatuses == {"APPROVED", "RESTRICTED", "BANNED", "SUSPENDED", "SELL_ONLY"}

\* attrs tags the instrument for group constraints, days is its settlement lag.
ShelfEntries(attrs, days, moneys) ==
    [status : ShelfStatuses, attrs : attrs, days : days, min : moneys]

\* The options a run uses, at their defaults.
EngineOptions ==
    [mode |-> "CALCULATED", method |-> "HEURISTIC", compare |-> FALSE, tolerance |-> 1,
     bandMin |-> 0, bandMax |-> Whole, maxWeight |-> Unset, minNotional |-> NoMoney,
     allowRestricted |-> FALSE, suppressDust |-> TRUE, fxBuffer |-> 100,
     blockPrices |-> TRUE, blockFx |-> TRUE, cashBuffer |-> 0, reserve |-> Unset,
     reserveTolerance |-> 1, turnover |-> Unset, taxAware |-> FALSE, gains |-> Unset,
     settlement |-> FALSE, gates |-> TRUE, requiresApproval |-> FALSE, approved |-> FALSE,
     linkSells |-> TRUE, horizon |-> 5, fxDays |-> 2, overdraft |-> <<>>, groups |-> <<>>]

-----------------------------------------------------------------------------
(* Valuation.                                                              *)

NoRate == [n |-> 0, d |-> 1]

\* A quote of zero counts as missing; a quote of the inverse pair is inverted.
GetFxRate(quotes, from, to) ==
    LET Quoted(pair) == pair \in DOMAIN quotes /\ quotes[pair].n # 0
    IN  IF from = to THEN [n |-> 1, d |-> 1]
        ELSE IF Quoted(<<from, to>>) THEN quotes[<<from, to>>]
        ELSE IF Quoted(<<to, from>>)
             THEN [n |-> quotes[<<to, from>>].d, d |-> quotes[<<to, from>>].n]
        ELSE NoRate

\* An amount without a rate is worth nothing.
Convert(amount, rate) == (amount * rate.n) \div rate.d

UsesTrustedMarketValue(opt, p) == opt.mode = "TRUST_SNAPSHOT" /\ p.mv # NoMoney

PositionCurrency(in, opt, i, p) ==
    IF UsesTrustedMarketValue(opt, p) THEN p.mv.ccy
    ELSE IF i \in DOMAIN in.price THEN in.price[i].ccy ELSE Base

ValueInInstrumentCcy(in, opt, i, p) ==
    IF UsesTrustedMarketValue(opt, p) THEN p.mv.amt
    ELSE IF i \in DOMAIN in.price THEN p.qty * in.price[i].amt ELSE 0

ValuePosition(in, opt, i, p) ==
    Convert(ValueInInstrumentCcy(in, opt, i, p),
            GetFxRate(in.quotes, PositionCurrency(in, opt, i, p), Base))

TotalCashValue(in, cash) ==
    MapThenSumSet(LAMBDA c : Convert(cash[c], GetFxRate(in.quotes, c, Base)), DOMAIN cash)

SafeTotalValue(total) == IF total = 0 THEN Unit ELSE total

\* The valued portfolio, with the prices and rates that were missing.
BuildSimulatedState(in, opt, held, cash) ==
    LET value == [i \in DOMAIN held |-> ValuePosition(in, opt, i, held[i])]
        cashValue == TotalCashValue(in, cash)
        total == Sum(value, DOMAIN held) + cashValue
        Weight(v) == (v * Whole) \div SafeTotalValue(total)
        used == {PositionCurrency(in, opt, i, held[i]) : i \in DOMAIN held} \cup DOMAIN cash
    IN  [total |-> total, held |-> held, cash |-> cash,
         weight |-> [i \in DOMAIN held |-> Weight(value[i])],
         cashWeight |-> Weight(cashValue),
         noPrice |-> DOMAIN held \ DOMAIN in.price,
         noFx |-> {c \in used : GetFxRate(in.quotes, c, Base) = NoRate}]

-----------------------------------------------------------------------------
(* The universe.                                                           *)

StatusOf(in, i) == IF i \in DOMAIN in.shelf THEN in.shelf[i].status ELSE "MISSING"

ModelTargetExcluded(in, i) ==
    \/ StatusOf(in, i) \in {"BANNED", "SUSPENDED"}
    \/ StatusOf(in, i) = "RESTRICTED" /\ ~in.opt.allowRestricted

LockedPosition(in, i) == StatusOf(in, i) \in {"MISSING", "SUSPENDED", "BANNED", "RESTRICTED"}

\* Model targets the shelf lets us buy keep their weight, those it only lets us sell
\* go to zero and leave their weight over.  Other holdings are locked at their current
\* weight or sold.
BuildUniverse(in, before) ==
    LET listed == DOMAIN in.model \cap DOMAIN in.shelf
        kept == {i \in listed : ~ModelTargetExcluded(in, i)}
        sellOnly == {i \in kept : StatusOf(in, i) = "SELL_ONLY"}
        rest == {i \in DOMAIN in.held : in.held[i].qty # 0 /\ i \notin kept}
        locked == {i \in rest : LockedPosition(in, i)}
    IN  [weight |-> [i \in kept \cup rest |->
                        IF i \in kept \ sellOnly THEN in.model[i]
                        ELSE IF i \in locked THEN before.weight[i] ELSE 0],
         buy |-> kept \ sellOnly,
         locked |-> locked,
         excess |-> Sum(in.model, sellOnly),
         shelfMissing |-> DOMAIN in.model \ DOMAIN in.shelf]

-----------------------------------------------------------------------------
(* Heuristic targets: each step maps weights w to weights and a status.    *)

Targets(w, status) == [w |-> w, status |-> status]

WorseStatus(a, b) ==
    IF "BLOCKED" \in {a, b} THEN "BLOCKED"
    ELSE IF "PENDING_REVIEW" \in {a, b} THEN "PENDING_REVIEW" ELSE "READY"

\* Adds `extra` to the instruments of S in proportion to their weight.
Spread(w, S, extra) ==
    [i \in DOMAIN w |-> IF i \in S THEN w[i] + ((extra * w[i]) \div Sum(w, S)) ELSE w[i]]

\* Scales the instruments of S so that together they weigh `room`.
Scale(w, S, room) == [i \in DOMAIN w |-> IF i \in S THEN (w[i] * room) \div Sum(w, S) ELSE w[i]]

RedistributeSellOnlyExcess(w, buy, excess) ==
    IF excess <= 0 THEN Targets(w, "READY")
    ELSE IF Sum(w, buy) <= 0 THEN Targets(w, "PENDING_REVIEW")
    ELSE Targets(Spread(w, buy, excess), "READY")

KnownAttrs(in) == UNION {DOMAIN in.shelf[i].attrs : i \in DOMAIN in.shelf}

GroupMembers(in, w, g) ==
    {i \in DOMAIN w \cap DOMAIN in.shelf :
        g.attr \in DOMAIN in.shelf[i].attrs /\ in.shelf[i].attrs[g.attr] = g.value}

\* Caps an overweight group and hands its excess to the instruments outside it.
ApplyGroupConstraint(in, buy, acc, g) ==
    LET members == GroupMembers(in, acc.w, g)
        current == Sum(acc.w, members)
        candidates == (DOMAIN acc.w \cap buy) \ members
    IN  IF \/ acc.status = "BLOCKED"
           \/ g.attr \notin KnownAttrs(in)
           \/ members = {}
           \/ current <= g.cap + 1
        THEN acc
        ELSE IF Sum(acc.w, candidates) <= 0
             THEN Targets(Scale(acc.w, members, g.cap), "BLOCKED")
        ELSE Targets(Spread(Scale(acc.w, members, g.cap), candidates, current - g.cap), acc.status)

\* The constraints come in the order of their keys.
ApplyGroupConstraints(in, buy, w) ==
    FoldLeft(LAMBDA acc, g : ApplyGroupConstraint(in, buy, acc, g), Targets(w, "READY"), in.opt.groups)

LockedWeight(w, buy) == Sum(w, DOMAIN w \ buy)

AvailableTradeableWeight(w, buy) == Max({0, Whole - LockedWeight(w, buy)})

CapTradeableToAvailable(w, buy) ==
    LET tradeable == Sum(w, buy)
        available == AvailableTradeableWeight(w, buy)
    IN  IF tradeable + LockedWeight(w, buy) <= Whole + 1 THEN Targets(w, "READY")
        ELSE IF tradeable > available
             THEN Targets(IF tradeable > 0 THEN Scale(w, buy, available) ELSE w, "PENDING_REVIEW")
        ELSE Targets(w, IF LockedWeight(w, buy) > Whole THEN "PENDING_REVIEW" ELSE "READY")

\* Mutant: a recipient takes its share even past the limit.
ShareUncapped(remainder, weight, total, max) == (remainder * weight) \div total

\* What a candidate takes of the remaining excess, up to the limit.
ShareOfExcess(remainder, weight, total, max) ==
    Min({(remainder * weight) \div total, max - weight})

\* Every weight is cut to the limit; the excess goes to the lighter buyable targets
\* in turn, each taking its share of what is then left.
ApplySinglePositionMaxWeight(w, buy, max) ==
    LET excess == MapThenSumSet(LAMBDA i : Max({0, w[i] - max}), DOMAIN w)
        capped == [i \in DOMAIN w |-> Min({w[i], max})]
        candidates == {i \in buy : capped[i] < max}
        total == Sum(capped, candidates)
        Give(acc, i) ==
            LET share == ShareOfExcess(acc.left, capped[i], total, max)
            IN  [w |-> [acc.w EXCEPT ![i] = @ + share], left |-> acc.left - share]
        given == IF total <= 0 THEN [w |-> capped, left |-> excess]
                 ELSE FoldLeft(Give, [w |-> capped, left |-> excess], Ascending(candidates))
    IN  IF excess <= 0 THEN Targets(capped, "READY")
        ELSE Targets(given.w, IF given.left > 10 THEN "PENDING_REVIEW" ELSE "READY")

EffectiveCashReserveFloor(opt) == Max({opt.cashBuffer, opt.reserve, 0})

\* A scale-down for the source's own reserve target needs no review.
ApplyMinCashBuffer(w, buy, opt) ==
    LET floor == EffectiveCashReserveFloor(opt)
        room == Max({0, AvailableTradeableWeight(w, buy) - floor})
        tradeable == Sum(w, buy)
    IN  IF floor <= 0 \/ tradeable <= room \/ tradeable <= 0 THEN Targets(w, "READY")
        ELSE Targets(Scale(w, buy, room),
                     IF opt.reserve # Unset /\ floor = opt.reserve
                     THEN "READY" ELSE "PENDING_REVIEW")

GenerateTargetsHeuristic(in, u) ==
    LET fed == RedistributeSellOnlyExcess(u.weight, u.buy, u.excess)
        grouped == ApplyGroupConstraints(in, u.buy, fed.w)
        fitted == CapTradeableToAvailable(grouped.w, u.buy)
        capped == IF in.opt.maxWeight = Unset THEN Targets(fitted.w, "READY")
                  ELSE ApplySinglePositionMaxWeight(fitted.w, u.buy, in.opt.maxWeight)
        buffered == ApplyMinCashBuffer(capped.w, u.buy, in.opt)
    IN  IF grouped.status = "BLOCKED" THEN Targets(<<>>, "BLOCKED")
        ELSE Targets(buffered.w,
                     WorseStatus(WorseStatus(fed.status, fitted.status),
                                 WorseStatus(capped.status, buffered.status)))

-----------------------------------------------------------------------------
(* Targets from the solver, a library outside the repository: it answers   *)
(* with weights near some that meet the constraints, or it fails.          *)

\* The weights the solver works with, a bound of the model.
Grid == {k * 2500 : k \in 0..4}

\* By how much an answer that is accepted, optimal or optimal_inaccurate and then
\* rounded to a basis point, may miss a weight; a bound of the model, above the
\* tolerance of the rules on the after-state.
SolverSlack == 20

SolverInvestedBounds(in, locked) ==
    [min |-> Whole - in.opt.bandMax - locked,
     max |-> Whole - Max({in.opt.bandMin, EffectiveCashReserveFloor(in.opt)}) - locked]

SolverGroupConstraintHolds(in, w, g) ==
    \/ g.attr \notin KnownAttrs(in)
    \/ Sum(w, GroupMembers(in, w, g)) <= g.cap

SolverConstraintsHold(in, buy, w) ==
    LET bounds == SolverInvestedBounds(in, LockedWeight(w, buy))
    IN  /\ bounds.min <= Sum(w, buy) /\ Sum(w, buy) <= bounds.max
        /\ in.opt.maxWeight # Unset => \A i \in buy : w[i] <= in.opt.maxWeight
        /\ \A k \in DOMAIN in.opt.groups :
              SolverGroupConstraintHolds(in, w, in.opt.groups[k])

\* Every answer the solver may give, with the locked weights kept: all weights may be
\* off by the slack, and none is negative.
SolverAnswers(in, buy, w) ==
    LET solutions == {v \in [DOMAIN w -> Grid \cup Range(w)] :
                        /\ \A i \in DOMAIN w \ buy : v[i] = w[i]
                        /\ \A i \in buy : v[i] \in Grid
                        /\ SolverConstraintsHold(in, buy, v)}
    IN  {[i \in DOMAIN w |-> IF i \in buy THEN Max({0, v[i] + off}) ELSE v[i]] :
            v \in solutions, off \in {-SolverSlack, 0, SolverSlack}}

\* The outcomes of generate_targets_solver: no solver installed, nothing to trade,
\* every attempt failed, or the answer of the first attempt that is optimal.
GenerateTargetsSolver(in, u) ==
    LET fed == RedistributeSellOnlyExcess(u.weight, u.buy, u.excess)
        failed == Targets(<<>>, "BLOCKED")
    IN  IF in.solver = "ABSENT" THEN {failed}
        ELSE IF u.buy = {} THEN {fed}
        ELSE {failed} \cup {Targets(v, fed.status) : v \in SolverAnswers(in, u.buy, fed.w)}

GenerateTargets(in, u, method) ==
    IF method = "SOLVER" THEN GenerateTargetsSolver(in, u) ELSE {GenerateTargetsHeuristic(in, u)}

OtherMethod(method) == IF method = "HEURISTIC" THEN "SOLVER" ELSE "HEURISTIC"

\* The final weight of every model target and of every other eligible instrument.
\* A blocked generation has no trace.
BuildTargetTrace(in, t) ==
    IF t.status = "BLOCKED" THEN <<>>
    ELSE [i \in DOMAIN in.model \cup DOMAIN t.w |-> IF i \in DOMAIN t.w THEN t.w[i] ELSE 0]

\* The warnings of a comparison with the other method.
CompareTargetMethods(in, t, other) ==
    LET a == BuildTargetTrace(in, t)
        b == BuildTargetTrace(in, other)
        W(f, i) == IF i \in DOMAIN f THEN f[i] ELSE 0
        differing == {i \in DOMAIN a \cup DOMAIN b :
                        W(a, i) - W(b, i) \notin -in.opt.tolerance..in.opt.tolerance}
    IN  (IF t.status # other.status THEN {"TARGET_METHOD_STATUS_DIVERGENCE"} ELSE {})
            \cup (IF differing # {} THEN {"TARGET_METHOD_WEIGHT_DIVERGENCE"} ELSE {})

=============================================================================
