------------------------------ MODULE Verdicts ------------------------------
(***************************************************************************)
(* The verdicts the service computes from evidence alone, each on bounded  *)
(* inputs: a behaviour picks one case and works out its answer.            *)
(***************************************************************************)
EXTENDS Integers, Sequences, FiniteSets, FiniteSetsExt, SequencesExt, TLC

VARIABLES
    case,      \* the input
    answer     \* what the calculation returns

H == INSTANCE MandateHealth

Pending == [verdict |-> "PENDING"]

Given(op) == answer.verdict = "GIVEN" /\ case.op = op

-----------------------------------------------------------------------------
(* Mandate health.                                                         *)

\* The limits of a mandate: stated, waived, unsourced, or of unknown origin.
Limits(kind) ==
    LET t == [H!TwinOf("m", "p", <<1>>, 5) EXCEPT !.maxTE = 50] IN
    CASE kind = "stated" -> [t EXCEPT !.cashMin = 200, !.cashMax = 1000, !.turnover = 10, !.tax = 10,
                                      !.taxPeriod = 1]
      [] kind = "waived" -> [t EXCEPT !.cashMin = 200, !.cashMax = 1000, !.turnoverApplicable = "NO",
                                      !.maxTE = H!NotStated]
      [] kind = "unsourced" -> [t EXCEPT !.gaps = H!ConstraintGaps, !.tax = 10]
      [] kind = "ambiguous" -> [t EXCEPT !.cashMin = 200, !.cashMax = 1000, !.turnover = 10, !.tax = 10,
                                         !.gaps = {H!Ambiguous}]

HealthCase(c) ==
    \E kind \in {"stated", "waived", "unsourced", "ambiguous"}, due \in {0, 4},
       source \in {"READY", "DEGRADED", "INCOMPLETE"}, drift \in {250, 252, 1500},
       te \in {H!NotStated, 60}, cash \in {<<500, 0>>, <<500, -1>>, <<100, 0>>},
       lots \in BOOLEAN, tax \in {H!NotStated, 9, 11}, turnover \in {8, 10, 11}, held \in {{}, {"b"}},
       workflow \in {"", "approval", "blocked"} :
          c = [op |-> "HEALTH",
               input |-> [H!HealthInput([Limits(kind) EXCEPT !.reviewDue = due]) EXCEPT
                            !.current = [a |-> 5000], !.target = [a |-> 5000 - drift],
                            !.cash = cash[1], !.cashflow = cash[2], !.readiness = source,
                            !.restrictedHeld = held, !.lotsMissing = lots, !.te = te,
                            !.taxUsed = tax, !.taxUsedPeriod = 1, !.turnoverUsed = turnover,
                            !.underReview = (due = 4), !.modelTo = due,
                            !.workflowBlocked = (workflow = "blocked"),
                            !.approval = (workflow = "approval")]]

AssessHealth ==
    /\ case.op = "HEALTH"
    /\ \E snapshot \in {H!CalculateHealth(case.input, "t")} :
          answer' = [verdict |-> "GIVEN", snapshot |-> snapshot, exceptions |-> H!MonitoringExceptions(snapshot, "t")]

-----------------------------------------------------------------------------
Init ==
    /\ HealthCase(case)
    /\ answer = Pending

Next == answer = Pending /\ AssessHealth /\ UNCHANGED case

-----------------------------------------------------------------------------
Elements(s) == {s[k] : k \in DOMAIN s}

\* A mandate is READY only when all ten dimensions are, every blocking dimension and every budget
\* that is not met is published as an exception under an id of its own, and a missing limit that
\* decides the headline is named among the exceptions unless its dimension reports something else
\* (calculate_mandate_health, monitoring_exceptions_from_health).
HealthIsExplained ==
    Given("HEALTH") =>
        LET s == answer.snapshot
            raised == Elements(answer.exceptions)
            scores == Elements(s.scores)
            budgets == UNION {Elements(d.budgets) : d \in scores}
        IN  /\ s.state = "READY" <=> \A d \in scores : d.state = "READY"
            /\ s.action = "NONE" <=> s.state = "READY"
            /\ s.state = "READY" => s.score = 100 /\ raised = {}
            /\ \A d \in scores : d.state = "BLOCKED" =>
                  \E x \in raised : x.dimension = d.dimension /\ x.code = d.code /\ x.severity = "CRITICAL"
            /\ \A b \in budgets : b.state # "READY" => \E x \in raised : x.code = b.code
            /\ Cardinality({x.id : x \in raised}) = Len(answer.exceptions)
            /\ (\E d \in scores : d.code \in H!SourceGaps) => \E x \in raised : x.code \in H!SourceGaps
            /\ s.state = "BLOCKED" => \E x \in raised : x.severity = "CRITICAL" /\ x.action = s.action

=============================================================================
