--------------------------- MODULE MCCalculations ---------------------------
(***************************************************************************)
(* The calculations of the system, each on bounded inputs.  A behaviour    *)
(* belongs to one part and runs one calculation on one input.              *)
(* Composites: two portfolios and a calendar of DateMax days, layers of    *)
(* three levels, and short lists of flow events.                           *)
(***************************************************************************)
EXTENDS CompositeRules, TLC

VARIABLES
    part              \* the calculation this behaviour runs

-----------------------------------------------------------------------------
Decision(p, from, to, e) == [portfolio |-> p, from |-> from, to |-> to, evidence |-> e]

\* Every decision of portfolio p, bounded or open.
DecisionsOf(p, evidence) ==
    { d \in {Decision(p, f, t, e) : f \in 1..DateMax, t \in 0..DateMax, e \in evidence} :
        d.to = Open \/ d.to >= d.from }

\* The revisions of one portfolio with at most two, and at most three, decisions.
TwoOf(p, evidence) ==
    { ds \in {{}} \cup {{d, e} : d, e \in DecisionsOf(p, evidence)} : ValidDecisionWindows(ds) }

ThreeOf(p, evidence) ==
    { ds \in {r \cup {d} : r \in TwoOf(p, evidence), d \in DecisionsOf(p, evidence)} :
        ValidDecisionWindows(ds) }

\* A neighbour whose decisions are adjacent to those of portfolio 1 in sort order.
Neighbour == {Decision(2, DateMax, Open, "a")}

MCRevisions ==
    {r \in TwoOf(1, {"a", "b"}) : \E d \in r : d.to # Open}
        \cup {r \cup Neighbour : r \in TwoOf(1, {"a"})}

MCParents ==
    {p \cup q : p \in ThreeOf(1, {"a"}), q \in {{}, {Decision(2, 1, Open, "b")}, {Decision(2, 2, 3, "b")}}}

MCStatuses == {(1 :> "INCLUDED"), (1 :> "INCLUDED") @@ (2 :> "EXCLUDED")}

MCWindows == {<<1, 1>>, <<2, 3>>, <<3, 3>>}

Layer(level, flow, cash, permits) ==
    [level |-> level, effective |-> TRUE, scoped |-> TRUE, flow |-> flow, cash |-> cash,
     permits |-> permits]

LayersAt(level) ==
    { Layer(level, f, c, p) : f \in {0, 11, 12, 21}, c \in {0, 11}, p \in SUBSET Fields }

Misplaced ==
    { <<Layer(1, 11, 11, Fields)>>,
      <<Layer(0, 11, 11, Fields), Layer(2, 21, 0, Fields), Layer(1, 0, 0, Fields)>>,
      <<Layer(0, 11, 11, Fields), Layer(1, 21, 0, {}), Layer(1, 0, 0, Fields)>>,
      <<[Layer(0, 11, 11, Fields) EXCEPT !.effective = FALSE]>>,
      <<Layer(0, 11, 11, Fields), [Layer(1, 21, 0, Fields) EXCEPT !.scoped = FALSE]>> }

MCStacks ==
    Misplaced \cup {<<a, b>> : a \in LayersAt(0), b \in LayersAt(2)}
        \cup {<<a, b, c>> : a \in {l \in LayersAt(0) : l.flow \in {0, 11} /\ l.cash = 11},
                            b \in {l \in LayersAt(1) : l.flow # 11},
                            c \in {l \in LayersAt(4) : l.cash = 0 /\ l.permits = {}}}

Flow(id, class, amount, reverses) ==
    [id |-> id, clean |-> TRUE, class |-> class, posted |-> TRUE, amount |-> amount,
     reverses |-> reverses]

Events ==
    { Flow(1, "EXTERNAL_CASH", 1, 0), Flow(1, "EXTERNAL_CASH", 2, 0),
      Flow(2, "EXTERNAL_CASH", -1, 0), Flow(2, "INTERNAL_TRANSFER", 5, 0),
      Flow(3, "REVERSAL", -1, 1), Flow(4, "REVERSAL", -1, 1), Flow(4, "REVERSAL", 1, 2),
      [Flow(3, "REVERSAL", -1, 1) EXCEPT !.posted = FALSE],
      [Flow(1, "EXTERNAL_CASH", 1, 0) EXCEPT !.posted = FALSE],
      Flow(5, "IN_KIND", 1, 0), [Flow(5, "EXTERNAL_CASH", 1, 0) EXCEPT !.clean = FALSE] }

Ready == [flows |-> <<>>, covered |-> TRUE, priorDated |-> TRUE, prior |-> 10, assets |-> 10,
          cash |-> 0, cashDated |-> TRUE, ready |-> {"TRUE"}, readyDated |-> TRUE,
          threshold |-> 2, present |-> TRUE, finalized |-> TRUE]

FlowObservations ==
    {[Ready EXCEPT !.flows = s] : s \in UNION {[1..n -> Events] : n \in 0..3}}

FactObservations ==
    { [Ready EXCEPT !.flows = f, !.covered = v, !.priorDated = d, !.prior = p, !.assets = a,
                    !.cash = c, !.cashDated = d, !.ready = r, !.readyDated = v,
                    !.present = o, !.finalized = o] :
      f \in {<<>>, <<Flow(1, "EXTERNAL_CASH", 1, 0)>>, <<Flow(1, "EXTERNAL_CASH", 2, 0)>>},
      v \in BOOLEAN, d \in BOOLEAN, o \in BOOLEAN, p \in {0, 5, 10}, a \in {0, 10},
      c \in {-1, 2, 3}, r \in {{"TRUE"}, {"TRUE", "NONE"}, {"FALSE", "NONE"}} }

MCObservations == FlowObservations \cup FactObservations

-----------------------------------------------------------------------------
I == INSTANCE RebalanceInputs
E == INSTANCE RebalanceEngine WITH Run <- I!RunInput
V == INSTANCE Verdicts

CalculationsInit ==
    \/ part = "composite" /\ Init
    \/ part = "engine" /\ E!Init
    \/ part = "verdict" /\ V!Init

CompositeRule == part = "composite" /\ Next /\ UNCHANGED part

RebalanceRun == part = "engine" /\ E!Next /\ UNCHANGED part

Verdict == part = "verdict" /\ V!Next /\ UNCHANGED part

CalculationsNext == CompositeRule \/ RebalanceRun \/ Verdict

CalculationsSpec == CalculationsInit /\ [][CalculationsNext]_<<part, vars>>

-----------------------------------------------------------------------------
\* A correction of membership changes nothing outside its window, a month is
\* replaced on exactly its days, and the evaluation of a portfolio does not
\* depend on the order or repetition of its flow events (CompositeRules).
CompositeIsExact == part = "composite" => CorrectionIsExact /\ MonthIsReplaced /\ EvaluationIsExact

\* What a higher layer of governance locked, no lower one changes (CompositeRules).
LocksAreKept == part = "composite" => LocksHold

\* Targets respect the single-position limit and the room that locked holdings
\* and the cash reserve leave, and locked weights are only ever cut by a limit;
\* realized gains stay in the tax budget, and the
\* turnover limit drops no trade that still fits (RebalanceEngine).
LimitsAreKept == part = "engine" => E!TargetsWithinLimits /\ E!TaxWithinBudget /\ E!TurnoverIsMaximal

\* A result that is not blocked can be carried out in its order (RebalanceEngine).
ExecutableAsPlanned == part = "engine" => E!ExecutableAsPlanned

\* Health verdicts are explained by what they publish (Verdicts).
HealthIsExplained == part = "verdict" => V!HealthIsExplained

=============================================================================
