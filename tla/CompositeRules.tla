--------------------------- MODULE CompositeRules ---------------------------
(***************************************************************************)
(* The pure calculations behind composite membership: the correction       *)
(* window of a superseding revision, the reconciliation of a revision with *)
(* its expected universe, the projection of one evaluated month onto a     *)
(* parent revision, the resolution of layered thresholds and the monthly   *)
(* eligibility rules.  A behaviour picks one input and evaluates it; the   *)
(* invariants compare the answer with a day-by-day or set-based reference. *)
(*                                                                         *)
(* Days are ordinals 1..DateMax, and DateMax is date.max.  A revision is   *)
(* the set of its decisions: every calculation sorts before it reads.      *)
(* Amounts are integers and ratios are tenths; a threshold is a decimal    *)
(* text, so two texts may denote one amount (Amount).                      *)
(***************************************************************************)
EXTENDS Integers, Sequences, FiniteSets, SequencesExt, FiniteSetsExt

CONSTANTS
    DateMax,          \* date.max as an ordinal
    Revisions,        \* parents and corrections given to require_correction_window
    Parents,          \* parent revisions of a monthly projection
    Statuses,         \* evaluated months: portfolio -> membership status
    Windows,          \* correction windows and months, <<first, last>>
    Stacks,           \* sequences of layers given to resolve_monthly_policy
    Observations      \* what a source reports about one portfolio

VARIABLES
    case,             \* the chosen input
    answer            \* what the code computed for it

vars == <<case, answer>>

Open == 0
None == 0
Pending == [verdict |-> "PENDING"]

-----------------------------------------------------------------------------
(* Interval decisions: [portfolio, from, to, evidence], to = Open for an   *)
(* unbounded decision.                                                     *)

EffectiveTo(d) == IF d.to = Open THEN DateMax ELSE d.to

\* The decision windows of one portfolio may not overlap.
ValidDecisionWindows(ds) ==
    \A d, e \in ds :
        (d # e /\ d.portfolio = e.portfolio /\ d.from <= e.from) =>
            d.to # Open /\ e.from > d.to

\* The parts of the decisions before `start` and after `end`.
Fragments(ds, start, end) ==
    LET Parts(d) == { <<d.from, Min({EffectiveTo(d), start - 1})>>,
                      <<Max({d.from, end + 1}), EffectiveTo(d)>> }
    IN  UNION { { [portfolio |-> d.portfolio, first |-> p[1], last |-> p[2],
                   evidence |-> d.evidence] :
                  p \in {q \in Parts(d) : q[1] <= q[2]} } : d \in ds }

Precedes(a, b) ==
    \/ a.portfolio < b.portfolio
    \/ a.portfolio = b.portfolio /\ a.first < b.first
    \/ a.portfolio = b.portfolio /\ a.first = b.first /\ a.last < b.last

\* Mutant: adjacent fragments are joined whatever evidence they carry.
MergeAcrossEvidence(merged, f) ==
    IF /\ merged # <<>>
       /\ Last(merged).portfolio = f.portfolio
       /\ Last(merged).last + 1 = f.first
    THEN Append(Front(merged), [Last(merged) EXCEPT !.last = f.last])
    ELSE Append(merged, f)

\* A fragment adjacent to the last one with the same evidence extends it.
MergeFragment(merged, f) ==
    IF /\ merged # <<>>
       /\ Last(merged).portfolio = f.portfolio
       /\ Last(merged).last + 1 = f.first
       /\ Last(merged).evidence = f.evidence
    THEN Append(Front(merged), [Last(merged) EXCEPT !.last = f.last])
    ELSE Append(merged, f)

UnaffectedIntervals(ds, start, end) ==
    FoldLeft(MergeFragment, <<>>, SetToSortSeq(Fragments(ds, start, end), Precedes))

CorrectionStaysInWindow(parent, revision, start, end) ==
    UnaffectedIntervals(parent, start, end) = UnaffectedIntervals(revision, start, end)

-----------------------------------------------------------------------------
(* Reconciliation with the expected universe.                              *)

\* The decision windows of p that overlap the coverage window, clipped to it.
Overlapping(ds, p, first, last) ==
    { <<Max({d.from, first}), Min({EffectiveTo(d), last})>> :
      d \in {e \in ds : e.portfolio = p /\ e.from <= last /\ EffectiveTo(e) >= first} }

\* One pass over the sorted windows; it stops at the first hole.
SweepWindow(acc, w) ==
    LET reached == Max({acc.covered, w[2]})
    IN  IF acc.done \/ acc.hole THEN acc
        ELSE IF w[1] > acc.covered + 1 THEN [acc EXCEPT !.hole = TRUE]
        ELSE [acc EXCEPT !.covered = reached, !.done = reached >= acc.goal]

CoversWindow(windows, first, last) ==
    LET Earlier(a, b) == a[1] < b[1] \/ (a[1] = b[1] /\ a[2] < b[2])
        start == [covered |-> first - 1, goal |-> last, hole |-> FALSE, done |-> FALSE]
    IN  FoldLeft(LAMBDA acc, w : SweepWindow(acc, w), start,
                 SetToSortSeq(windows, Earlier)).done

ReconcileUniverse(ds, first, last, expected) ==
    LET observed == {p \in {d.portfolio : d \in ds} : Overlapping(ds, p, first, last) # {}}
    IN  [observed |-> observed,
         missing |-> expected \ observed,
         unexpected |-> observed \ expected,
         gaps |-> {p \in expected \cap observed :
                     ~CoversWindow(Overlapping(ds, p, first, last), first, last)}]

Reconciles(ds, first, last, expected) ==
    LET r == ReconcileUniverse(ds, first, last, expected)
    IN  r.missing = {} /\ r.unexpected = {} /\ r.gaps = {}

-----------------------------------------------------------------------------
(* The monthly projection.                                                 *)

\* A decision that spans the month leaves a head and a tail.
RetainOutsideMonth(ds, first, last) ==
    LET Kept(d) ==
            IF d.from > last \/ EffectiveTo(d) < first THEN {d}
            ELSE (IF d.from < first THEN {[d EXCEPT !.to = first - 1]} ELSE {})
                 \cup (IF EffectiveTo(d) > last THEN {[d EXCEPT !.from = last + 1]} ELSE {})
    IN  UNION {Kept(d) : d \in ds}

MonthlyDecisions(statuses, first, last) ==
    { [portfolio |-> p, from |-> first, to |-> last, evidence |-> statuses[p]] :
      p \in DOMAIN statuses }

\* A month is published only over a parent that covers exactly the expected universe.
BuildMonthlyPublication(parent, statuses, first, last) ==
    LET revision == RetainOutsideMonth(parent, first, last)
                    \cup MonthlyDecisions(statuses, first, last)
    IN  IF ~Reconciles(parent, first, last, DOMAIN statuses)
        THEN [verdict |-> "PUBLICATION_UNIVERSE_INCOMPLETE"]
        ELSE IF ~ValidDecisionWindows(revision)
        THEN [verdict |-> "DECISION_WINDOWS_OVERLAP"]
        ELSE IF ~Reconciles(revision, first, last, DOMAIN statuses)
        THEN [verdict |-> "PROJECTED_UNIVERSE_MISMATCH"]
        ELSE [verdict |-> "PUBLISHED", revision |-> revision]

-----------------------------------------------------------------------------
(* Layered thresholds.  A layer is [level, effective, scoped, flow, cash,  *)
(* permits]; flow and cash are decimal texts or None.                      *)

Fields == {"flow", "cash"}

\* The amount a decimal text denotes: 11 and 12 are two spellings of 1.
Amount(text) == text \div 10

RequireLayerWindows(layers) ==
    /\ layers # <<>>
    /\ layers[1].level = 0
    /\ \A i \in 1..(Len(layers) - 1) : layers[i].level < layers[i + 1].level
    /\ \A i \in DOMAIN layers : layers[i].effective

\* Mutant: a layer grants again what a layer above it has locked.
ApplyLayerRegranting(acc, layer) ==
    LET Changes(f) == layer[f] # None /\
                      (acc.values[f] = None \/ Amount(acc.values[f]) # Amount(layer[f]))
        bad == ~layer.scoped \/ (acc.overrides /\ \E f \in Fields : Changes(f) /\ f \notin acc.permitted)
    IN  IF acc.refused \/ bad THEN [acc EXCEPT !.refused = TRUE]
        ELSE [acc EXCEPT !.values = [f \in Fields |-> IF layer[f] = None THEN @[f] ELSE layer[f]],
                         !.permitted = layer.permits,
                         !.overrides = TRUE]

\* A layer below the first may change a field only when every layer above permits it.
ApplyLayer(acc, layer) ==
    LET Changes(f) == layer[f] # None /\
                      (acc.values[f] = None \/ Amount(acc.values[f]) # Amount(layer[f]))
        bad == ~layer.scoped \/ (acc.overrides /\ \E f \in Fields : Changes(f) /\ f \notin acc.permitted)
    IN  IF acc.refused \/ bad THEN [acc EXCEPT !.refused = TRUE]
        ELSE [acc EXCEPT !.values = [f \in Fields |-> IF layer[f] = None THEN @[f] ELSE layer[f]],
                         !.permitted = (IF acc.overrides THEN @ ELSE layer.permits) \cap layer.permits,
                         !.overrides = TRUE]

ResolveMonthlyPolicy(layers) ==
    LET start == [refused |-> FALSE, overrides |-> FALSE, permitted |-> {},
                  values |-> [f \in Fields |-> None]]
        end == FoldLeft(LAMBDA acc, layer : ApplyLayer(acc, layer), start, layers)
    IN  IF ~RequireLayerWindows(layers) \/ end.refused \/ \E f \in Fields : end.values[f] = None
        THEN [verdict |-> "REFUSED"]
        ELSE [verdict |-> "RESOLVED", flow |-> end.values.flow, cash |-> end.values.cash]

-----------------------------------------------------------------------------
(* The monthly rules for one portfolio.  A flow is [id, clean, class,      *)
(* posted, amount, reverses]; clean says that its date, receipt time and   *)
(* currency are those of the month, the cut and the portfolio.             *)

\* The last observation of an event id, in list order.
ById(flows) ==
    [i \in {flows[k].id : k \in DOMAIN flows} |->
        flows[Max({k \in DOMAIN flows : flows[k].id = i})]]

DuplicateConflict(flows) ==
    \E j, k \in DOMAIN flows : flows[j].id = flows[k].id /\ flows[j] # flows[k]

MatchesOriginal(byId, r) ==
    /\ r.reverses \in DOMAIN byId
    /\ byId[r.reverses].class = "EXTERNAL_CASH"
    /\ byId[r.reverses].posted
    /\ byId[r.reverses].amount = -r.amount

ReversalProblem(byId) ==
    LET reversals == {i \in DOMAIN byId : byId[i].class = "REVERSAL" /\ byId[i].posted}
    IN  \/ \E i \in reversals : ~MatchesOriginal(byId, byId[i])
        \/ \E i, j \in reversals : i # j /\ byId[i].reverses = byId[j].reverses

FlowReasons(flows) ==
    \/ DuplicateConflict(flows)
    \/ \E k \in DOMAIN flows : ~flows[k].clean \/ flows[k].class = "IN_KIND"
    \/ ReversalProblem(ById(flows))

AdmittedNet(byId) ==
    LET admitted == {i \in DOMAIN byId :
                        byId[i].posted /\ byId[i].class \in {"EXTERNAL_CASH", "REVERSAL"}}
    IN  MapThenSumSet(LAMBDA i : byId[i].amount, admitted)

Magnitude(n) == IF n < 0 THEN -n ELSE n

\* Reaching the threshold is a breach of the flow rule; assets are those of the prior month end.
FlowRule(o) ==
    IF FlowReasons(o.flows) \/ ~o.covered \/ ~o.priorDated \/ o.prior <= 0 THEN "UNKNOWN"
    ELSE IF 10 * Magnitude(AdmittedNet(ById(o.flows))) >= o.threshold * o.prior THEN "FAIL"
    ELSE "PASS"

\* Only more than the threshold is a breach of the cash rule.
CashRule(o) ==
    IF ~o.cashDated \/ o.assets <= 0 \/ o.cash < 0 THEN "UNKNOWN"
    ELSE IF 10 * o.cash > o.threshold * o.assets THEN "FAIL" ELSE "PASS"

\* A missing fact does not hide a failed one.
ReadinessRule(o) ==
    IF ~o.readyDated THEN "UNKNOWN"
    ELSE IF "FALSE" \in o.ready THEN "FAIL"
    ELSE IF "NONE" \in o.ready THEN "UNKNOWN" ELSE "PASS"

Assessments(o) ==
    IF ~o.present \/ ~o.finalized THEN {"UNKNOWN"}
    ELSE {FlowRule(o), CashRule(o), ReadinessRule(o)}

MembershipStatus(assessments) ==
    IF "FAIL" \in assessments THEN "EXCLUDED"
    ELSE IF "UNKNOWN" \in assessments THEN "PENDING_REVIEW" ELSE "INCLUDED"

-----------------------------------------------------------------------------
Init ==
    /\ \/ case \in [op : {"CORRECTION"}, parent : Revisions, revision : Revisions,
                    window : Windows]
       \/ case \in [op : {"MONTH"}, parent : Parents, statuses : Statuses, window : Windows]
       \/ case \in [op : {"POLICY"}, layers : Stacks]
       \/ case \in [op : {"PORTFOLIO"}, observation : Observations]
    /\ answer = Pending

RequireCorrectionWindow ==
    /\ case.op = "CORRECTION"
    /\ answer' = [verdict |-> IF CorrectionStaysInWindow(case.parent, case.revision,
                                                         case.window[1], case.window[2])
                              THEN "ACCEPTED" ELSE "OUTSIDE_WINDOW"]

PublishMonth ==
    /\ case.op = "MONTH"
    /\ answer' = BuildMonthlyPublication(case.parent, case.statuses, case.window[1], case.window[2])

ResolvePolicy ==
    /\ case.op = "POLICY"
    /\ answer' = ResolveMonthlyPolicy(case.layers)

EvaluatePortfolio ==
    /\ case.op = "PORTFOLIO"
    /\ answer' = [verdict |-> MembershipStatus(Assessments(case.observation))]

Next ==
    /\ answer = Pending
    /\ RequireCorrectionWindow \/ PublishMonth \/ ResolvePolicy \/ EvaluatePortfolio
    /\ UNCHANGED case

Spec == Init /\ [][Next]_vars

-----------------------------------------------------------------------------
(* References and properties.                                              *)

EvidenceOn(ds, p, day) ==
    {d.evidence : d \in {e \in ds : e.portfolio = p /\ e.from <= day /\ day <= EffectiveTo(e)}}

PortfoliosOf(ds) == {d.portfolio : d \in ds}

\* require_correction_window compares clipped and merged intervals instead of
\* expanding days; it accepts a correction exactly when every day outside the
\* window keeps its decision evidence, for every portfolio.
CorrectionIsExact ==
    (case.op = "CORRECTION" /\ answer # Pending) =>
        ((answer.verdict = "ACCEPTED") <=>
            \A p \in PortfoliosOf(case.parent) \cup PortfoliosOf(case.revision) :
                \A day \in (1..DateMax) \ (case.window[1]..case.window[2]) :
                    EvidenceOn(case.parent, p, day) = EvidenceOn(case.revision, p, day))

\* build_monthly_publication publishes a month exactly when the parent covers
\* every day of the month for the expected portfolios and for no other; what it
\* publishes has the evaluated status on every day of the month, the parent's
\* evidence on every other day, and passes the correction-window test that the
\* store applies to it afterwards.
MonthIsReplaced ==
    (case.op = "MONTH" /\ answer # Pending) =>
        LET month == case.window[1]..case.window[2]
            expected == DOMAIN case.statuses
            decided(p) == {day \in month : EvidenceOn(case.parent, p, day) # {}}
            publishable == \A p \in expected \cup PortfoliosOf(case.parent) :
                               decided(p) = IF p \in expected THEN month ELSE {}
        IN  /\ (answer.verdict = "PUBLISHED") <=> publishable
            /\ publishable =>
                 /\ CorrectionStaysInWindow(case.parent, answer.revision, case.window[1], case.window[2])
                 /\ \A p \in expected \cup PortfoliosOf(case.parent) : \A day \in 1..DateMax :
                        EvidenceOn(answer.revision, p, day) =
                            IF day \in month /\ p \in expected THEN {case.statuses[p]}
                            ELSE EvidenceOn(case.parent, p, day)

\* The amount of field f after the first n layers.
InForce(layers, f, n) ==
    LET set == {i \in 1..n : layers[i][f] # None}
    IN  IF set = {} THEN None ELSE Amount(layers[Max(set)][f])

\* A field that some layer does not permit to be overridden keeps the amount it
\* had at that layer, whatever the layers below permit; a stack is refused only
\* for a misplaced, ineffective or foreign layer, a missing field or such a change.
LocksHold ==
    (case.op = "POLICY" /\ answer # Pending) =>
        LET layers == case.layers
            n == Len(layers)
            locked == \A f \in Fields : \A i \in 1..n :
                          f \notin layers[i].permits =>
                              \A j \in i..n : InForce(layers, f, j) = InForce(layers, f, i)
            wellFormed == /\ n > 0 /\ layers[1].level = 0
                          /\ \A i \in 1..n : layers[i].effective /\ layers[i].scoped
                          /\ \A i, j \in 1..n : i < j => layers[i].level < layers[j].level
            complete == \A f \in Fields : InForce(layers, f, n) # None
        IN  /\ (answer.verdict = "RESOLVED") <=> (wellFormed /\ complete /\ locked)
            /\ answer.verdict = "RESOLVED" =>
                 /\ Amount(answer.flow) = InForce(layers, "flow", n)
                 /\ Amount(answer.cash) = InForce(layers, "cash", n)

\* Whether a portfolio may be included does not depend on how the source orders
\* or repeats its flow events, an event and its reversal weigh nothing, and a
\* portfolio is included only on complete, dated evidence inside both thresholds.
EvaluationIsExact ==
    (case.op = "PORTFOLIO" /\ answer # Pending) =>
        LET o == case.observation
            events == Range(o.flows)
            posted == {e \in events : e.posted}
            reversed == {e.reverses : e \in {r \in posted : r.class = "REVERSAL"}}
            known == /\ \A e \in events : e.clean /\ e.class # "IN_KIND"
                     /\ \A e, f \in events : e.id = f.id => e = f
                     /\ \A r \in posted : r.class = "REVERSAL" =>
                          /\ \E e \in posted : /\ e.id = r.reverses
                                               /\ e.class = "EXTERNAL_CASH"
                                               /\ e.amount + r.amount = 0
                          /\ \A q \in posted : (q.class = "REVERSAL" /\ q.reverses = r.reverses) => q = r
                     /\ o.covered /\ o.priorDated /\ o.prior > 0
            net == MapThenSumSet(LAMBDA e : e.amount,
                     {e \in posted : e.class = "EXTERNAL_CASH" /\ e.id \notin reversed})
            flowBreach == known /\ 10 * Magnitude(net) >= o.threshold * o.prior
            cashKnown == o.cashDated /\ o.assets > 0 /\ o.cash >= 0
            cashBreach == cashKnown /\ 10 * o.cash > o.threshold * o.assets
            unready == o.readyDated /\ "FALSE" \in o.ready
            judged == o.present /\ o.finalized
        IN  /\ (answer.verdict = "EXCLUDED") <=> (judged /\ (flowBreach \/ cashBreach \/ unready))
            /\ (answer.verdict = "INCLUDED") <=>
                 /\ judged /\ known /\ cashKnown /\ o.readyDated /\ o.ready = {"TRUE"}
                 /\ ~flowBreach /\ ~cashBreach

=============================================================================
