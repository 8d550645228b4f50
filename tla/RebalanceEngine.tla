--------------------------- MODULE RebalanceEngine ---------------------------
(***************************************************************************)
(* run_simulation: one rebalance run from its inputs to its result, one    *)
(* action per stage.  The only choice is the solver's answer.              *)
(***************************************************************************)
EXTENDS RebalanceExecution

CONSTANTS
    Run(_)            \* whether a record is the input of a run

VARIABLES
    case,             \* the input of the run
    answer            \* what the stages have computed so far

vars == <<case, answer>>

Pending == [verdict |-> "PENDING"]

Init ==
    /\ Run(case)
    /\ answer = Pending

\* The gaps found before intents are generated.
EarlyDq(before, u) ==
    [shelfMissing |-> u.shelfMissing, noPrice |-> before.noPrice, noFx |-> before.noFx,
     noThreshold |-> {}, gaps |-> {}]

\* Values the portfolio and builds the universe.
Prepare ==
    /\ answer = Pending
    /\ \E before \in {BuildSimulatedState(case, case.opt, case.held, case.cash)} :
       \E u \in {BuildUniverse(case, before)} :
          answer' = [verdict |-> "PREPARED", before |-> before, u |-> u, dq |-> EarlyDq(before, u)]
    /\ UNCHANGED case

\* A blocked result carries no intents and is judged by the rules on the before-state.
BlockedResult(in, before, dq) ==
    [status |-> "BLOCKED", intents |-> <<>>, state |-> before,
     gate |-> IF in.opt.gates
              THEN GateRoute(in.opt, "BLOCKED", HardRuleFailures(in.opt, before, dq),
                             SoftRuleFailures(in.opt, before))
              ELSE "NONE"]

\* Generates the targets and, if asked, compares the two methods.
Target ==
    /\ answer.verdict = "PREPARED"
    /\ \E t \in GenerateTargets(case, answer.u, case.opt.method) :
       \E other \in (IF case.opt.compare
                     THEN GenerateTargets(case, answer.u, OtherMethod(case.opt.method)) ELSE {t}) :
       \E warned \in {IF case.opt.compare THEN CompareTargetMethods(case, t, other) ELSE {}} :
          answer' = [verdict |-> IF CheckBlockingDq(case.opt, answer.dq) \/ t.status = "BLOCKED"
                                 THEN "STOPPED" ELSE "TARGETED",
                     targets |-> t, warned |-> warned, u |-> answer.u, before |-> answer.before,
                     dq |-> answer.dq]
    /\ UNCHANGED case

\* Generates the security intents; gaps found on the way stop the run.
Intend ==
    /\ answer.verdict = "TARGETED"
    /\ \E g \in {GenerateIntents(case, BuildTargetTrace(case, answer.targets), answer.before.total)} :
       \E dq \in {[answer.dq EXCEPT !.noPrice = @ \cup g.noPrice, !.noFx = @ \cup g.noFx,
                                    !.noThreshold = g.noThreshold, !.gaps = g.gaps]} :
          answer' = [verdict |-> IF CheckBlockingDq(case.opt, dq) THEN "STOPPED" ELSE "INTENDED",
                     targets |-> answer.targets, warned |-> answer.warned, u |-> answer.u,
                     before |-> answer.before, dq |-> dq, proposed |-> g.intents, tax |-> g.tax]
    /\ UNCHANGED case

\* A stopped run is blocked.
Block ==
    /\ answer.verdict = "STOPPED"
    /\ answer' = [verdict |-> "BLOCKED", targets |-> answer.targets, warned |-> answer.warned,
                  before |-> answer.before,
                  result |-> BlockedResult(case, answer.before, answer.dq)]
    /\ UNCHANGED case

\* A target that needs review makes a ready execution pending.
FinalGateStatus(target, execution) ==
    IF target = "PENDING_REVIEW" /\ execution = "READY" THEN "PENDING_REVIEW" ELSE execution

\* Limits turnover, funds and simulates the trades and gates the result.
Execute ==
    /\ answer.verdict = "INTENDED"
    /\ \E kept \in {ApplyTurnoverLimit(case.opt, answer.before.total, answer.proposed)} :
       \E o \in {GenerateFxAndSimulate(case, kept, answer.before, answer.dq)} :
       \E status \in {FinalGateStatus(answer.targets.status, o.status)} :
          answer' = [verdict |-> "EXECUTED", targets |-> answer.targets, warned |-> answer.warned,
                     u |-> answer.u, before |-> answer.before, proposed |-> answer.proposed,
                     kept |-> kept, tax |-> answer.tax,
                     result |-> [status |-> status, intents |-> o.intents, state |-> o.state,
                                 gate |-> IF case.opt.gates
                                          THEN GateRoute(case.opt, status, o.hard, o.soft)
                                          ELSE "NONE"]]
    /\ UNCHANGED case

Next == Prepare \/ Target \/ Intend \/ Block \/ Execute

Spec == Init /\ [][Next]_vars

-----------------------------------------------------------------------------
Executed == answer.verdict = "EXECUTED"

\* A limit that cuts the weight of a locked holding like any other: the single-position
\* limit, or the cap of a group it is in.
Cut(i, w) ==
    \/ w[i] = case.opt.maxWeight
    \/ \E k \in DOMAIN case.opt.groups : i \in GroupMembers(case, w, case.opt.groups[k])

\* Heuristic targets that leave the stage unblocked respect the limits together: no weight
\* above the single-position limit, and the buyable weights fit in what the locked ones and
\* the cash reserve leave, whatever the sell-only excess, the group caps and the
\* redistribution did on the way.  A locked holding never gains weight, the solver leaves
\* it alone, and the heuristic takes from it only what one of the two limits cuts; that
\* much it does take, from a SUSPENDED holding too.
TargetsWithinLimits ==
    answer.verdict = "TARGETED" =>
        LET w == answer.targets.w
            buy == answer.u.buy
            heuristic == case.opt.method = "HEURISTIC"
            room == Whole - LockedWeight(w, buy) - EffectiveCashReserveFloor(case.opt)
        IN  /\ heuristic =>
                  /\ case.opt.maxWeight # Unset => \A i \in DOMAIN w : w[i] <= case.opt.maxWeight
                  /\ Sum(w, buy) <= Max({0, room}) + 1
            /\ \A i \in DOMAIN w : w[i] >= 0
            /\ \A i \in answer.u.locked :
                  /\ w[i] <= answer.before.weight[i]
                  /\ w[i] < answer.before.weight[i] => heuristic /\ Cut(i, w)

\* The gain realized by selling `qty` of the dearest lots: what each lot gives is the part
\* of it that the dearer lots do not already cover.
RealizedGain(in, i, qty, unit, rate) ==
    LET lots == HifoSortedLots(in, in.held[i].lots, in.price[i].ccy)
        Dearer(k) == MapThenSumSet(LAMBDA j : lots[j].qty, 1..(k - 1))
        Taken(k) == Max({0, Min({lots[k].qty, qty - Dearer(k)})})
    IN  MapThenSumSet(LAMBDA k : Taken(k) * Max({0, Convert(unit - lots[k].cost, rate)}),
                      DOMAIN lots)

\* The trades a tax-aware run hands out never realize more gains than its budget, over all
\* instruments together, and a holding without complete lots is not sold.
TaxWithinBudget ==
    (Executed /\ case.opt.taxAware /\ case.opt.gains # Unset) =>
        LET sales == {k \in Trades(answer.kept) : answer.kept[k].side = "SELL"}
            Gain(x) == RealizedGain(case, x.instrument, x.qty, x.amt \div x.qty,
                                    GetFxRate(case.quotes, x.ccy, Base))
        IN  /\ MapThenSumSet(LAMBDA k : Gain(answer.kept[k]), sales) <= case.opt.gains
            /\ answer.tax.used <= case.opt.gains

\* The turnover limit keeps a set of the proposed trades within the budget to which none of
\* the dropped trades could be added.
TurnoverIsMaximal ==
    (Executed /\ case.opt.turnover # Unset) =>
        LET kept == Range(answer.kept)
            dropped == Range(answer.proposed) \ kept
            used == ProposedTurnover(answer.kept)
        IN  /\ kept \subseteq Range(answer.proposed)
            /\ kept # {} => WithinTurnover(case.opt, answer.before.total, used)
            /\ \A x \in dropped : ~WithinTurnover(case.opt, answer.before.total, used + x.base)

\* Cash in currency c once everything due by a day has settled.
SettledBy(in, intents, c, day) ==
    LET Due(x) == MapThenSumSet(LAMBDA d : SettlementFlow(in, x, c, d), 0..day)
    IN  (IF c \notin DOMAIN in.cash THEN 0
         ELSE IF in.settled[c] # Unset THEN in.settled[c] ELSE in.cash[c])
          + MapThenSumSet(LAMBDA k : Due(intents[k]), DOMAIN intents)

\* A locked holding stays as it is, with two exceptions the code makes whatever the shelf
\* says: a limit has cut its target, and is sold down to; or the snapshot carries a market
\* value, which sizes trades even when the targets were computed from prices.
LockedHoldingsStay(x) ==
    x.instrument \in answer.u.locked =>
        \/ case.held[x.instrument].mv # NoMoney
        \/ /\ x.side = "SELL"
           /\ answer.targets.w[x.instrument] < answer.before.weight[x.instrument]

\* A result that is not blocked can be carried out in the order it lists: the trades a buy
\* depends on stand before it, what is bought is a buyable target (LockedHoldingsStay for
\* the others), no holding and no cash ends below zero, no position ends above the
\* single-position limit and its tolerance however inexact the solver was, the portfolio
\* keeps its value and, when settlement counts, no day of the ladder overdraws the
\* allowance.
ExecutableAsPlanned ==
    (Executed /\ answer.result.status # "BLOCKED") =>
        LET s == answer.result.intents
            state == answer.result.state
        IN  /\ \A k \in DOMAIN s : s[k].deps \subseteq {s[j].id : j \in 1..(k - 1)}
            /\ \A k \in Trades(s) :
                  /\ LockedHoldingsStay(s[k])
                  /\ s[k].side = "BUY" => s[k].instrument \in answer.u.buy \cup answer.u.locked
            /\ case.opt.maxWeight # Unset =>
                  \A i \in DOMAIN state.held : state.weight[i] <= case.opt.maxWeight + 10
            /\ \A i \in DOMAIN state.held : state.held[i].qty >= 0
            /\ \A c \in DOMAIN state.cash : state.cash[c] >= 0
            /\ case.opt.mode = "CALCULATED" /\ (\A i \in DOMAIN case.held : case.held[i].mv = NoMoney)
                  => state.total = answer.before.total
            /\ case.opt.settlement =>
                  \A c \in LadderCurrencies(case, s), day \in 0..SettlementHorizon(case, s) :
                     SettledBy(case, s, c, day) >= -MaxOverdraft(case.opt, c)
            /\ answer.result.gate # "BLOCKED"

=============================================================================
