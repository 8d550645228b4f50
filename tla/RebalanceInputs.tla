--------------------------- MODULE RebalanceInputs ---------------------------
(***************************************************************************)
(* Bounded inputs for RebalanceEngine, in three families: targets under    *)
(* shelf, group, single-position and cash limits; sales under a tax budget *)
(* and trades under a turnover limit; foreign currencies and settlement.   *)
(***************************************************************************)
EXTENDS RebalanceTargets, TLC

Instruments == 1..3

Local(amounts) == Prices(amounts, {Base})

Tech == "sector" :> "tech"

Listed(statuses) == {e \in ShelfEntries({Tech, <<>>}, {2}, {NoMoney}) : e.status \in statuses}

Tenable == [qty |-> 24, mv |-> NoMoney, lots |-> {}]

Plain ==
    [op |-> "REBALANCE", model |-> (1 :> 5000) @@ (2 :> 3000) @@ (3 :> 1000),
     shelf |-> [i \in Instruments |-> [status |-> "APPROVED", attrs |-> Tech, days |-> 2, min |-> NoMoney]],
     held |-> <<>>, price |-> [i \in Instruments |-> [amt |-> 10, ccy |-> Base]],
     quotes |-> <<>>, cash |-> (Base :> 1200), settled |-> (Base :> Unset), solver |-> "OPTIMAL",
     opt |-> EngineOptions]

-----------------------------------------------------------------------------
Group(cap) == [attr |-> "sector", value |-> "tech", cap |-> cap]
Unknown == [attr |-> "region", value |-> "emea", cap |-> 0]

\* Instrument 3 is held; it is a model target or only a holding.
TargetRun(in) ==
    \E m \in {(1 :> 5000) @@ (2 :> 3000) @@ (3 :> 2000), (1 :> 9000) @@ (2 :> 1000),
             (1 :> 4000) @@ (3 :> 6000), (2 :> 7000)},
      h \in {[Tenable EXCEPT !.qty = 72]},
      e \in Listed({"APPROVED", "SELL_ONLY"}),
      f \in Listed({"APPROVED", "RESTRICTED"}),
      g \in Listed({"APPROVED", "SUSPENDED", "SELL_ONLY"}),
      gs \in {<<>>, <<Group(4000)>>, <<Unknown, Group(2500)>>},
      mx \in {Unset, 3500}, b \in {0, 1000}, r \in {Unset, 2000} :
      in = [Plain EXCEPT !.model = m, !.held = 3 :> h,
                               !.shelf = (1 :> e) @@ (2 :> f) @@ (3 :> g),
                               !.opt = [EngineOptions EXCEPT !.groups = gs, !.maxWeight = mx,
                                                             !.cashBuffer = b, !.reserve = r]]

SolverRun(in) ==
    \E e \in Listed({"APPROVED", "SELL_ONLY"}), g \in Listed({"APPROVED", "BANNED"}),
      s \in {"OPTIMAL", "ABSENT"}, m \in {"SOLVER", "HEURISTIC"},
      gs \in {<<>>, <<Group(5000)>>}, mx \in {Unset, 5000}, r \in {Unset, 1000} :
      in = [Plain EXCEPT !.held = 3 :> Tenable, !.shelf[1] = e, !.shelf[3] = g, !.solver = s,
                               !.opt = [EngineOptions EXCEPT !.method = m, !.compare = TRUE, !.groups = gs,
                                                             !.maxWeight = mx, !.reserve = r]]

\* A holding the shelf locks, worth what its price says or a little less by the snapshot.
LockedRun(in) ==
    \E s \in {"SUSPENDED", "BANNED", "RESTRICTED"}, v \in {NoMoney, [amt |-> 1080, ccy |-> Base]},
      m \in {"CALCULATED", "TRUST_SNAPSHOT"}, mx \in {Unset, 500} :
      in = [Plain EXCEPT !.held = 3 :> [Tenable EXCEPT !.qty = 120, !.mv = v], !.shelf[3].status = s,
                               !.cash = Base :> 13200,
                               !.opt = [EngineOptions EXCEPT !.mode = m, !.maxWeight = mx]]

-----------------------------------------------------------------------------
Lots(costs) == TaxLots({1, 2}, {12, 24}, [amt : costs, ccy : {Base}], {1})

\* Pairs of lots of one holding.
Bought == {{a, b} : a \in {l \in Lots({2, 7}) : l.id = 1}, b \in {l \in Lots({2, 12}) : l.id = 2 /\ l.qty = 24}}

\* Two holdings with lots are reduced, the freed cash buys the third.
SaleRun(in) ==
    \E w \in {0, 2000}, v \in {NoMoney, [amt |-> 432, ccy |-> Base]}, l \in Bought,
      k \in {{}, {[id |-> 1, qty |-> 24, cost |-> [amt |-> 4, ccy |-> Base], date |-> 1]}},
      p \in Local({10, 12}), d \in {NoMoney, [amt |-> 130, ccy |-> Base], [amt |-> 1, ccy |-> "EUR"]},
      x \in BOOLEAN, n \in {Unset, 0, 100, 150}, t \in {Unset, 2500, 4000} :
      in = [Plain EXCEPT !.model = (1 :> w) @@ (2 :> 0) @@ (3 :> 7000),
                               !.held = (1 :> [qty |-> 36, mv |-> v, lots |-> l]) @@ (2 :> [qty |-> 24, mv |-> NoMoney, lots |-> k]),
                               !.price = (1 :> p) @@ (2 :> p) @@ (3 :> [amt |-> 5, ccy |-> Base]),
                               !.shelf[1].min = d, !.cash = Base :> 240,
                               !.opt = [EngineOptions EXCEPT !.taxAware = x, !.gains = n, !.turnover = t]]

-----------------------------------------------------------------------------
Rates ==
    LET eur == <<"EUR", Base>> IN
    { eur :> [n |-> 2, d |-> 1], <<Base, "EUR">> :> [n |-> 1, d |-> 2],
      (eur :> [n |-> 0, d |-> 1]) @@ (<<Base, "EUR">> :> [n |-> 1, d |-> 2]), <<>> }

Balances == {Base :> 1200, (Base :> 600) @@ ("EUR" :> 120), (Base :> 600) @@ ("EUR" :> -60)}

\* Instrument 1 is sold, instrument 2 bought in a foreign currency.
CurrencyRun(in) ==
    \E h \in {<<>>, 3 :> [Tenable EXCEPT !.mv = [amt |-> 240, ccy |-> "EUR"]]},
      f \in {{1}, {2}, {1, 2}}, q \in Rates, c \in Balances, s \in {Unset, 120, 600},
      d \in {1, 2, 3}, b \in BOOLEAN, o \in {<<>>, Base :> 360}, m \in {Whole, 3000} :
      in = [Plain EXCEPT !.model = (1 :> 1000) @@ (2 :> 5000),
                               !.held = (1 :> [Tenable EXCEPT !.qty = 60]) @@ h,
                               !.price = [i \in Instruments |-> [amt |-> 10, ccy |-> IF i \in f THEN "EUR" ELSE Base]],
                               !.quotes = q, !.cash = c,
                               !.settled = [x \in DOMAIN c |-> IF x = Base THEN s ELSE Unset],
                               !.shelf[1].days = d,
                               !.opt = [EngineOptions EXCEPT !.settlement = TRUE, !.blockFx = b, !.overdraft = o,
                                                             !.bandMax = m, !.requiresApproval = TRUE]]

RunInput(in) == TargetRun(in) \/ SolverRun(in) \/ LockedRun(in) \/ SaleRun(in) \/ CurrencyRun(in)

=============================================================================
