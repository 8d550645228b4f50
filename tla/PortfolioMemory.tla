--------------------------- MODULE PortfolioMemory ---------------------------
(****************************************************************************)
(* The portfolio-memory read model: every family of evidence that the other *)
(* components persist is projected to events, and a portfolio's events are  *)
(* merged into a timeline, looked up one by one, cut down for a report, or  *)
(* summarised in a search over all portfolios.                              *)
(*                                                                          *)
(* `store` holds the persisted rows family by family.  Its writers are the  *)
(* other components, so here a "record" command puts one row in its final   *)
(* form: a row with a known key replaces the earlier one (a wave moves on,  *)
(* an exception is resolved, a selection is made again).  Event ids are     *)
(* tuples of integers <<family, source, kind, part>>; the code compares the *)
(* same fields as text, the model in lexicographic order.                   *)
(****************************************************************************)
EXTENDS Results, TLC

CONSTANTS Workloads,        \* records [seed, calls]
          SearchLimitMax,   \* PORTFOLIO_MEMORY_SEARCH_LIMIT_MAX
          ScanLimitMax,     \* PORTFOLIO_MEMORY_SOURCE_SCAN_LIMIT_MAX
          ReadLimitMax,     \* PORTFOLIO_MEMORY_READ_LIMIT_MAX
          ReportEventLimit  \* PORTFOLIO_MEMORY_REPORT_CONTEXT_EVENT_LIMIT

VARIABLES store, calls, replies

Families == {"packs", "twins", "health", "exceptions", "sets", "selections", "waves",
             "campaigns", "reviews", "scores", "actions", "invocations"}

AnyFilter == "ANY"

NoOffset == -1

NoLatest == [at |-> -1, type |-> "NONE", id |-> <<0, 0, 0, 0>>]

-----------------------------------------------------------------------------
(* Supportability of the persisted states.                                  *)

\* The code looks for parts of words (BLOCK, DEGRADED, BREACHED, PARTIAL,
\* REVIEW); these are the states of the persisted families that hold one.
SourceSupportabilityState(state) ==
    IF state \in {"BLOCKED", "HANDOFF_BLOCKED", "FAILED", "REJECTED", "CANCELLED"} THEN "BLOCKED"
    ELSE IF state \in {"DEGRADED", "BREACHED", "PARTIALLY_SIMULATED"} THEN "DEGRADED"
    ELSE IF state \in {"PENDING_REVIEW", "REVIEW_REQUIRED", "CREATED", "DRAFT", "PREVIEWED", "CANDIDATE"} THEN "PENDING_REVIEW"
    ELSE "READY"

MonitoringExceptionState(exception) ==
    IF exception.state = "RESOLVED" THEN "READY"
    ELSE IF exception.severity = "CRITICAL" THEN "BLOCKED"
    ELSE IF exception.severity = "WARNING" THEN "DEGRADED"
    ELSE "PENDING_REVIEW"

PmQualityReviewActionState(action) ==
    IF action.state = "ESCALATED" THEN "DEGRADED"
    ELSE IF action.state = "REVIEW_REQUIRED" THEN "PENDING_REVIEW"
    ELSE "READY"

PmQualitySummaryInvocationState(invocation) ==
    IF invocation.state = "COMPLETED" THEN "READY"
    ELSE IF invocation.state = "FAILED" THEN "DEGRADED"
    ELSE "PENDING_REVIEW"

AssignmentSlaState(sla) == IF sla = "BREACHED_OR_BLOCKED" THEN "DEGRADED" ELSE "READY"

AssignmentTaskState(status, sla) ==
    IF status = "CANCELLED" THEN "BLOCKED"
    ELSE IF status = "BLOCKED" \/ sla = "BREACHED_OR_BLOCKED" THEN "DEGRADED"
    ELSE IF status \in {"OPEN", "ACKNOWLEDGED", "IN_PROGRESS"} THEN "PENDING_REVIEW"
    ELSE "READY"

MakerCheckerState(outcome) ==
    IF outcome = "FAILED" THEN "BLOCKED"
    ELSE IF outcome = "EXCEPTION_OPEN" THEN "DEGRADED"
    ELSE IF outcome = "PENDING" THEN "PENDING_REVIEW"
    ELSE "READY"

PortfolioMemorySupportabilityState(events) ==
    LET states == {event.state : event \in events}
    IN IF states = {} THEN "EMPTY"
       ELSE IF "BLOCKED" \in states THEN "BLOCKED"
       ELSE IF "DEGRADED" \in states THEN "DEGRADED"
       ELSE IF "PENDING_REVIEW" \in states THEN "PENDING_REVIEW"
       ELSE "READY"

-----------------------------------------------------------------------------
(* Projections.  A reference is a pair <<source system, source type>>.      *)

DpmPortfolioMemorySourceRef(system, type) == <<system, type>>

Manage(type) == DpmPortfolioMemorySourceRef("lotus-manage", type)

DpmPortfolioMemoryEvent(id, type, at, system, source, state, reasons, refs, artifacts, hash) ==
    [id |-> id, type |-> type, at |-> at, system |-> system, source |-> source, state |-> state,
     reasons |-> reasons, refs |-> refs, artifacts |-> artifacts, hash |-> hash]

EventSourceSystems(event) == {event.system} \cup {ref[1] : ref \in event.refs \cup event.artifacts}

EventSourceTypes(event) == {event.source} \cup {ref[2] : ref \in event.refs \cup event.artifacts}

ProofPackCreatedEvent(pack) ==
    DpmPortfolioMemoryEvent(<<1, pack.id, 1, 0>>, "PROOF_PACK_CREATED", pack.at, "lotus-manage", "DPM_PRE_TRADE_PROOF_PACK",
                            SourceSupportabilityState(pack.status), pack.reasons, pack.refs, pack.artifacts, pack.hash)

ProofPackTimelineEvent(pack, entry) ==
    DpmPortfolioMemoryEvent(<<1, pack.id, 2, entry.id>>, "PROOF_PACK_TIMELINE_EVENT", entry.at, entry.system, entry.type,
                            SourceSupportabilityState(entry.status), entry.reasons, pack.refs, {}, pack.hash)

ProofPackEvents(pack) == {ProofPackCreatedEvent(pack)} \cup {ProofPackTimelineEvent(pack, entry) : entry \in pack.timeline}

MandateHealthEvent(health, lineage) ==
    DpmPortfolioMemoryEvent(<<2, health.mandate, 1, health.id>>, "MANDATE_HEALTH_SNAPSHOT", health.at, "lotus-manage", "DPM_MANDATE_HEALTH_SNAPSHOT",
                            SourceSupportabilityState(health.status), health.reasons, lineage, {Manage("DPM_MANDATE_HEALTH_EVIDENCE_REF")}, health.hash)

MandateExceptionEvent(exception) ==
    DpmPortfolioMemoryEvent(<<2, exception.mandate, 2, exception.id>>, "MANDATE_MONITORING_EXCEPTION", exception.at, "lotus-manage", "DPM_MONITORING_EXCEPTION",
                            MonitoringExceptionState(exception), {exception.reason, exception.severity}, exception.lineage,
                            {Manage("DPM_MONITORING_RUN")}, exception.hash)

ConstructionAlternativeSetEvent(set) ==
    DpmPortfolioMemoryEvent(<<3, set.id, 1, 0>>, "CONSTRUCTION_ALTERNATIVE_SET", set.at, "lotus-manage", "DPM_CONSTRUCTION_ALTERNATIVE_SET",
                            SourceSupportabilityState(set.status), {"CONSTRUCTION_ALTERNATIVE_SET_READY", set.status} \cup set.methods,
                            {}, {Manage("DPM_CONSTRUCTION_ALTERNATIVE_SET")}, set.hash)

ConstructionSelectionEvent(set, selection) ==
    DpmPortfolioMemoryEvent(<<3, set.id, 2, selection.id>>, "CONSTRUCTION_ALTERNATIVE_SELECTED", selection.at, "lotus-manage",
                            "DPM_CONSTRUCTION_ALTERNATIVE_SELECTION", "READY", {selection.reason}, {},
                            {Manage("DPM_CONSTRUCTION_ALTERNATIVE_SET"), Manage("DPM_CONSTRUCTION_ALTERNATIVE_SELECTION")}, selection.hash)

WaveSourceRefs(wave, items) == wave.refs \cup UNION {item.refs : item \in items}

\* The created event carries the state the wave is in now.
WaveCreatedEvent(wave, items) ==
    DpmPortfolioMemoryEvent(<<4, wave.id, 1, 0>>, "WAVE_CREATED", wave.at, "lotus-manage", "DPM_REBALANCE_WAVE",
                            SourceSupportabilityState(wave.state), UNION {item.reasons : item \in items}, WaveSourceRefs(wave, items), {}, 0)

WaveStateEvents(wave, items) ==
    {DpmPortfolioMemoryEvent(<<4, wave.id, 2, moved.id>>, "WAVE_EVENT", moved.at, "lotus-manage", moved.type,
                             SourceSupportabilityState(moved.to), {moved.reason}, WaveSourceRefs(wave, items), {}, 0) : moved \in wave.events}

HandoffEvent(wave, items, handoff) ==
    DpmPortfolioMemoryEvent(<<4, wave.id, 3, handoff.id>>, "WAVE_HANDOFF_READY", handoff.at, "lotus-manage", "DPM_WAVE_INTERNAL_OPERATIONS_HANDOFF",
                            SourceSupportabilityState(wave.state), {handoff.reason}, WaveSourceRefs(wave, items),
                            {Manage("DPM_WAVE_INTERNAL_OPERATIONS_HANDOFF")}, handoff.hash)

WaveEvents(wave, portfolio) ==
    LET items == {item \in wave.items : item.portfolio = portfolio}
        ids == {item.id : item \in items}
        handoffs == {handoff \in wave.handoffs : ids = {} \/ ids \cap handoff.items # {}}
    IN {WaveCreatedEvent(wave, items)} \cup WaveStateEvents(wave, items) \cup {HandoffEvent(wave, items, handoff) : handoff \in handoffs}

CampaignDefinitionSourceRefs(definition, portfolio) ==
    definition.refs \cup UNION {member.refs : member \in {m \in definition.members : m.portfolio = portfolio}}

CampaignDefinitionArtifactRef == Manage("BulkReviewCampaignDefinition")

CampaignEvent(id, type, at, state, reasons, refs, artifacts, hash) ==
    DpmPortfolioMemoryEvent(id, type, at, "lotus-manage", type, state, reasons, refs, artifacts, hash)

CampaignDefinitionEvent(definition, portfolio) ==
    CampaignEvent(<<5, definition.id, 1, 0>>, "BULK_REVIEW_CAMPAIGN_DEFINITION", definition.at, SourceSupportabilityState(definition.status),
                  {"BULK_REVIEW_CAMPAIGN_DEFINITION_PERSISTED", definition.status}, CampaignDefinitionSourceRefs(definition, portfolio),
                  {CampaignDefinitionArtifactRef}, definition.hash)

CampaignApprovalDecisionEvent(definition, decision) ==
    CampaignEvent(<<5, definition.id, 2, decision.id>>, "BULK_REVIEW_CAMPAIGN_APPROVAL_DECISION", decision.at,
                  SourceSupportabilityState(decision.type), {"BULK_REVIEW_CAMPAIGN_APPROVAL_DECISION_RECORDED", decision.type},
                  decision.refs, {CampaignDefinitionArtifactRef}, decision.hash)

CampaignAssignmentActionEvent(definition, action) ==
    CampaignEvent(<<5, definition.id, 3, action.id>>, "BULK_REVIEW_CAMPAIGN_ASSIGNMENT_ACTION", action.at, AssignmentSlaState(action.sla),
                  {"BULK_REVIEW_CAMPAIGN_ASSIGNMENT_ACTION_RECORDED", action.type, action.sla}, action.refs,
                  {CampaignDefinitionArtifactRef}, action.hash)

CampaignAssignmentTaskEvent(definition, task) ==
    CampaignEvent(<<5, definition.id, 4, task.id>>, "BULK_REVIEW_CAMPAIGN_ASSIGNMENT_TASK", task.at, AssignmentTaskState(task.status, task.sla),
                  {"BULK_REVIEW_CAMPAIGN_ASSIGNMENT_TASK_RECORDED", task.status, task.sla}, task.refs,
                  {CampaignDefinitionArtifactRef}, task.hash)

CampaignAssignmentTaskTransitionEvent(definition, task, moved) ==
    CampaignEvent(<<5, definition.id, 5, 10 * task.id + moved.id>>, "BULK_REVIEW_CAMPAIGN_ASSIGNMENT_TASK_TRANSITION", moved.at,
                  AssignmentTaskState(moved.to, moved.sla), {"BULK_REVIEW_CAMPAIGN_ASSIGNMENT_TASK_TRANSITION_RECORDED", moved.type, moved.to, moved.sla},
                  moved.refs, {CampaignDefinitionArtifactRef, Manage("BULK_REVIEW_CAMPAIGN_ASSIGNMENT_TASK")}, moved.hash)

CampaignMakerCheckerControlEvent(definition, control) ==
    CampaignEvent(<<5, definition.id, 6, control.id>>, "BULK_REVIEW_CAMPAIGN_MAKER_CHECKER_CONTROL", control.at, MakerCheckerState(control.outcome),
                  {"BULK_REVIEW_CAMPAIGN_MAKER_CHECKER_CONTROL_RECORDED", control.action, control.outcome}, control.refs,
                  {CampaignDefinitionArtifactRef}, control.hash)

CampaignDefinitionEvents(definition, portfolio) ==
    {CampaignDefinitionEvent(definition, portfolio)}
    \cup {CampaignApprovalDecisionEvent(definition, decision) : decision \in definition.decisions}
    \cup {CampaignAssignmentActionEvent(definition, action) : action \in definition.actions}
    \cup {CampaignAssignmentTaskEvent(definition, task) : task \in definition.tasks}
    \cup UNION {{CampaignAssignmentTaskTransitionEvent(definition, task, moved) : moved \in task.transitions} : task \in definition.tasks}
    \cup {CampaignMakerCheckerControlEvent(definition, control) : control \in definition.controls}

OutcomeReviewCreatedEvent(review) ==
    DpmPortfolioMemoryEvent(<<6, review.id, 1, 0>>, "OUTCOME_REVIEW_CREATED", review.at, "lotus-manage", "DPM_POST_TRADE_OUTCOME_REVIEW",
                            SourceSupportabilityState(review.state), review.reasons, review.refs, {}, review.hash)

OutcomeReviewEvent(review, entry) ==
    DpmPortfolioMemoryEvent(<<6, review.id, 2, entry.id>>, "OUTCOME_REVIEW_EVENT", entry.at, "lotus-manage", entry.type,
                            SourceSupportabilityState(entry.state), entry.reasons, entry.refs, {}, review.hash)

\* A persisted event takes the place of the one embedded in the review.
OutcomeReviewEvents(review) ==
    LET embedded == {entry \in review.events : ~\E other \in review.persisted : other.id = entry.id}
    IN {OutcomeReviewCreatedEvent(review)} \cup {OutcomeReviewEvent(review, entry) : entry \in embedded \cup review.persisted}

ScoreRunIncludesPortfolio(run, portfolio) == portfolio \in run.book \cup run.bookRefs

PmQualityScoreRunEvent(run) ==
    DpmPortfolioMemoryEvent(<<7, run.id, 0, 0>>, "PM_QUALITY_SCORE_RUN", run.at, "lotus-manage", "DPM_PM_OPERATING_QUALITY_SCORE_RUN",
                            SourceSupportabilityState(run.state), run.reasons, run.refs, {Manage("PmOperatingQualityScoreRun")}, run.hash)

PmQualityReviewActionEvent(action) ==
    DpmPortfolioMemoryEvent(<<8, action.id, 0, 0>>, "PM_QUALITY_REVIEW_ACTION", action.at, "lotus-manage", "DPM_PM_OPERATING_QUALITY_REVIEW_ACTION",
                            PmQualityReviewActionState(action), {action.type, action.state}, action.refs,
                            {Manage("PmOperatingQualityReviewAction"), Manage("PmOperatingQualityScoreRun")}, action.hash)

PmQualitySummaryInvocationEvent(invocation) ==
    DpmPortfolioMemoryEvent(<<9, invocation.id, 0, 0>>, "PM_QUALITY_SUMMARY_INVOCATION", invocation.at, "lotus-manage",
                            "DPM_PM_OPERATING_QUALITY_SUMMARY_INVOCATION", PmQualitySummaryInvocationState(invocation), {invocation.state}, invocation.refs,
                            {Manage("PmOperatingQualitySummaryInvocation"), Manage("PmOperatingQualityScoreRun"), Manage("PmOperatingQualityReviewAction")}
                                \cup (IF invocation.summarised THEN {DpmPortfolioMemorySourceRef("lotus-ai", "PM_QUALITY_SUMMARY")} ELSE {}),
                            invocation.hash)

-----------------------------------------------------------------------------
(* Repository scans: the newest rows first, at most `limit` of them.        *)

NewerRow(a, b) == a.at > b.at \/ (a.at = b.at /\ a.id > b.id)

FirstRows(rows, limit) == {row \in rows : Cardinality({other \in rows : NewerRow(other, row)}) < limit}

OfTenant(s, family, tenant) == {row \in s[family] : row.tenant = tenant}

ListProofPacks(s, tenant, limit) == FirstRows(OfTenant(s, "packs", tenant), limit)

ListProofPacksOf(s, tenant, portfolio, limit) == FirstRows({pack \in OfTenant(s, "packs", tenant) : pack.portfolio = portfolio}, limit)

ListWaves(s, tenant, limit) == FirstRows(OfTenant(s, "waves", tenant), limit)

\* Outcome reviews carry no tenant.
ListOutcomeReviews(s, limit) == FirstRows(s.reviews, limit)

ListOutcomeReviewsOf(s, portfolio, limit) == FirstRows({review \in s.reviews : review.portfolio = portfolio}, limit)

ListMonitoringExceptions(s, tenant, limit) == FirstRows(OfTenant(s, "exceptions", tenant), limit)

ListDefinitions(s, tenant, limit) ==
    LET rows == OfTenant(s, "campaigns", tenant)
    IN {row \in rows : Cardinality({o \in rows : o.asOf > row.asOf \/ (o.asOf = row.asOf /\ o.id > row.id)}) < limit}

ListScoreRuns(s, tenant, limit) == FirstRows(OfTenant(s, "scores", tenant), limit)

ListReviewActions(s, tenant, limit) == FirstRows({action \in OfTenant(s, "actions", tenant) : action.kind = "SCORE_RUN"}, limit)

ListSummaryInvocations(s, tenant, limit) == FirstRows(OfTenant(s, "invocations", tenant), limit)

\* The twin of the latest date, mandate ids deciding between equal ones.
LatestMandateByPortfolio(s, tenant, portfolio) ==
    LET twins == {twin \in OfTenant(s, "twins", tenant) : twin.portfolio = portfolio}
    IN {twin \in twins : \A o \in twins : o.asOf < twin.asOf \/ (o.asOf = twin.asOf /\ o.mandate <= twin.mandate)}

LatestHealthSnapshot(s, tenant, mandate) == FirstRows({health \in OfTenant(s, "health", tenant) : health.mandate = mandate}, 1)

-----------------------------------------------------------------------------
(* The timeline of one portfolio.                                           *)

ProofPackMemoryEvents(s, tenant, portfolio, limit) ==
    UNION {ProofPackEvents(pack) : pack \in ListProofPacksOf(s, tenant, portfolio, limit)}

HealthEventsOf(s, tenant, portfolio) ==
    UNION {{MandateHealthEvent(health, twin.lineage) : health \in LatestHealthSnapshot(s, tenant, twin.mandate)} :
               twin \in LatestMandateByPortfolio(s, tenant, portfolio)}

\* With a twin only the exceptions of its mandate count.
MandateMemoryEvents(s, tenant, portfolio, limit) ==
    LET twins == LatestMandateByPortfolio(s, tenant, portfolio)
        exceptions == {e \in OfTenant(s, "exceptions", tenant) :
                           e.portfolio = portfolio /\ \A twin \in twins : e.mandate = twin.mandate}
    IN HealthEventsOf(s, tenant, portfolio) \cup {MandateExceptionEvent(e) : e \in FirstRows(exceptions, limit)}

ConstructionMemoryEvents(s, tenant, portfolio, limit) ==
    LET sets == FirstRows({set \in OfTenant(s, "sets", tenant) : set.portfolio = portfolio}, limit)
    IN {ConstructionAlternativeSetEvent(set) : set \in sets}
       \cup UNION {{ConstructionSelectionEvent(set, selection) : selection \in {x \in OfTenant(s, "selections", tenant) : x.set = set.id}} : set \in sets}

\* The limit cuts the scan before the portfolio's own waves are picked.
WaveMemoryEvents(s, tenant, portfolio, limit) ==
    UNION {WaveEvents(wave, portfolio) : wave \in {w \in ListWaves(s, tenant, limit) : \E item \in w.items : item.portfolio = portfolio}}

CampaignDefinitionMemoryEvents(s, tenant, portfolio, limit) ==
    UNION {CampaignDefinitionEvents(definition, portfolio) :
               definition \in {d \in ListDefinitions(s, tenant, limit) : \E member \in d.members : member.portfolio = portfolio}}

OutcomeReviewMemoryEvents(s, portfolio, limit) == UNION {OutcomeReviewEvents(review) : review \in ListOutcomeReviewsOf(s, portfolio, limit)}

ReviewActionEvents(s, tenant, runs, limit) ==
    {PmQualityReviewActionEvent(action) : action \in {a \in ListReviewActions(s, tenant, limit) : \E run \in runs : run.id = a.target}}

SummaryInvocationEvents(s, tenant, runs, limit) ==
    {PmQualitySummaryInvocationEvent(i) : i \in {x \in ListSummaryInvocations(s, tenant, limit) : \E run \in runs : run.id = x.score}}

PmQualityMemoryEvents(s, tenant, portfolio, limit) ==
    LET runs == {run \in ListScoreRuns(s, tenant, limit) : ScoreRunIncludesPortfolio(run, portfolio)}
    IN {PmQualityScoreRunEvent(run) : run \in runs} \cup ReviewActionEvents(s, tenant, runs, limit) \cup SummaryInvocationEvents(s, tenant, runs, limit)

\* The families the report of a proof pack is built from.
ReportSources(s, tenant, portfolio, limit) ==
    ProofPackMemoryEvents(s, tenant, portfolio, limit) \cup MandateMemoryEvents(s, tenant, portfolio, limit)
    \cup WaveMemoryEvents(s, tenant, portfolio, limit) \cup OutcomeReviewMemoryEvents(s, portfolio, limit)

CollectPortfolioMemoryEvents(s, tenant, portfolio, limit) ==
    ReportSources(s, tenant, portfolio, limit) \cup ConstructionMemoryEvents(s, tenant, portfolio, limit)
    \cup CampaignDefinitionMemoryEvents(s, tenant, portfolio, limit) \cup PmQualityMemoryEvents(s, tenant, portfolio, limit)

IdAfter(a, b) == \E i \in 1..4 : a[i] > b[i] /\ \A j \in 1..(i - 1) : a[j] = b[j]

LaterEvent(a, b) == a.at > b.at \/ (a.at = b.at /\ IdAfter(a.id, b.id))

Supersedes(a, b) == a.id = b.id /\ (a.at > b.at \/ (a.at = b.at /\ a.hash > b.hash))

DedupeAndSortEvents(events) == InOrder({e \in events : ~\E other \in events : Supersedes(other, e)}, LaterEvent)

CountValues(events) == [type \in {e.type : e \in events} |-> Cardinality({e \in events : e.type = type})]

DpmPortfolioMemory(portfolio, events) ==
    LET shown == ToSet(events)
    IN [portfolio |-> portfolio, count |-> Len(events), state |-> PortfolioMemorySupportabilityState(shown), types |-> CountValues(shown),
        systems |-> UNION {EventSourceSystems(e) : e \in shown}, reasons |-> UNION {e.reasons : e \in shown}, events |-> events]

BuildPortfolioMemoryAggregate(portfolio, events, limit) ==
    LET sorted == DedupeAndSortEvents(events)
    IN DpmPortfolioMemory(portfolio, SubSeq(sorted, 1, Min({limit, Len(sorted)})))

BuildPortfolioMemoryFromSources(s, tenant, portfolio, limit) ==
    IF limit \notin 1..ReadLimitMax THEN Refused("422")
    ELSE Accepted(BuildPortfolioMemoryAggregate(portfolio, CollectPortfolioMemoryEvents(s, tenant, portfolio, limit), limit))

BuildPortfolioMemoryEventLookup(memory, event) ==
    LET found == {i \in DOMAIN memory.events : memory.events[i].id = event}
    IN IF found = {} THEN Refused("404") ELSE Accepted([portfolio |-> memory.portfolio, event |-> memory.events[Min(found)]])

EventRef(event, rank) == [id |-> event.id, type |-> event.type, at |-> event.at, rank |-> rank]

\* The report names the newest events and says how many it leaves out.
DpmPortfolioMemoryReportContext(memory, limit) ==
    LET shown == Min({limit, Len(memory.events)})
    IN [portfolio |-> memory.portfolio, state |-> memory.state, count |-> memory.count, reasons |-> memory.reasons,
        refs |-> [i \in 1..shown |-> EventRef(memory.events[i], i)],
        omitted |-> memory.count - shown, truncated |-> memory.count > shown]

BuildReportPortfolioMemoryContext(s, tenant, portfolio, limit) ==
    Accepted(DpmPortfolioMemoryReportContext(
        BuildPortfolioMemoryAggregate(portfolio, ReportSources(s, tenant, portfolio, limit), limit), ReportEventLimit))

-----------------------------------------------------------------------------
(* The search over all portfolios: each family is scanned once.  A found    *)
(* pair <<portfolio, event>> also makes the portfolio a candidate.          *)

Tagged(portfolio, events) == {<<portfolio, event>> : event \in events}

Found(pairs) == {pair[1] : pair \in pairs}

SearchProofPackEvents(s, tenant, explicit, limit) ==
    LET packs == ListProofPacks(s, tenant, limit) \cup UNION {ListProofPacksOf(s, tenant, portfolio, limit) : portfolio \in explicit}
    IN UNION {Tagged(pack.portfolio, ProofPackEvents(pack)) : pack \in packs}

SearchWaveEvents(s, tenant, limit) ==
    UNION {UNION {Tagged(item.portfolio, WaveEvents(wave, item.portfolio)) : item \in wave.items} : wave \in ListWaves(s, tenant, limit)}

SearchOutcomeReviewEvents(s, explicit, limit) ==
    LET reviews == ListOutcomeReviews(s, limit) \cup UNION {ListOutcomeReviewsOf(s, portfolio, limit) : portfolio \in explicit}
    IN UNION {Tagged(review.portfolio, OutcomeReviewEvents(review)) : review \in reviews}

SearchMandateExceptionEvents(s, tenant, limit) ==
    {<<e.portfolio, MandateExceptionEvent(e)>> : e \in ListMonitoringExceptions(s, tenant, limit)}

SearchCampaignDefinitionEvents(s, tenant, limit) ==
    UNION {UNION {Tagged(member.portfolio, CampaignDefinitionEvents(definition, member.portfolio)) : member \in definition.members} :
               definition \in ListDefinitions(s, tenant, limit)}

ScoreRunMatchingPortfolioIds(run, candidates) ==
    run.book \cup {portfolio \in candidates : ScoreRunIncludesPortfolio(run, portfolio)}

\* A portfolio that one run makes a candidate is one for the runs after it.
SearchPmQualityEvents(s, tenant, candidates, limit) ==
    LET Step(found, run) ==
            found \cup UNION {Tagged(portfolio, {PmQualityScoreRunEvent(run)} \cup ReviewActionEvents(s, tenant, {run}, limit)
                                                    \cup SummaryInvocationEvents(s, tenant, {run}, limit)) :
                                  portfolio \in ScoreRunMatchingPortfolioIds(run, candidates \cup Found(found))}
    IN FoldLeft(Step, {}, InOrder(ListScoreRuns(s, tenant, limit), NewerRow))

SearchMandateHealthEvents(s, tenant, candidates) == UNION {Tagged(portfolio, HealthEventsOf(s, tenant, portfolio)) : portfolio \in candidates}

SearchConstructionEvents(s, tenant, candidates, limit) ==
    UNION {Tagged(portfolio, ConstructionMemoryEvents(s, tenant, portfolio, limit)) : portfolio \in candidates}

\* Health and construction evidence is read for candidates only.
CollectPortfolioMemorySearchEvents(s, tenant, explicit, limit) ==
    LET scanned == SearchProofPackEvents(s, tenant, explicit, limit) \cup SearchWaveEvents(s, tenant, limit)
                   \cup SearchOutcomeReviewEvents(s, explicit, limit) \cup SearchMandateExceptionEvents(s, tenant, limit)
                   \cup SearchCampaignDefinitionEvents(s, tenant, limit)
        discovered == scanned \cup SearchPmQualityEvents(s, tenant, explicit \cup Found(scanned), limit)
        candidates == explicit \cup Found(discovered)
        all == discovered \cup SearchMandateHealthEvents(s, tenant, candidates) \cup SearchConstructionEvents(s, tenant, candidates, limit)
    IN [portfolio \in candidates |-> {pair[2] : pair \in {p \in all : p[1] = portfolio}}]

Passes(filter, values) == filter = AnyFilter \/ filter \in values

EventMatchesSearchFilters(event, query) ==
    /\ Passes(query.type, {event.type})
    /\ Passes(query.system, EventSourceSystems(event))
    /\ Passes(query.source, EventSourceTypes(event))

MemoryPassesSearchSummaryFilters(memory, query) ==
    /\ memory.count = 0 => query.state = "EMPTY" /\ memory.portfolio \in query.explicit
    /\ Passes(query.type, DOMAIN memory.types)
    /\ Passes(query.state, {memory.state})
    /\ Passes(query.system, memory.systems)

LatestMatchingEventMetadata(matching) ==
    IF matching = <<>> THEN NoLatest ELSE [at |-> matching[1].at, type |-> matching[1].type, id |-> matching[1].id]

DpmPortfolioMemorySearchItem(memory, matching) ==
    [portfolio |-> memory.portfolio, count |-> memory.count, state |-> memory.state, types |-> memory.types, systems |-> memory.systems,
     latest |-> LatestMatchingEventMetadata(memory.events), matching |-> Len(matching), latestMatching |-> LatestMatchingEventMetadata(matching)]

\* The row of one portfolio, or none.
BuildSearchRow(memory, query) ==
    LET Matches(event) == EventMatchesSearchFilters(event, query)
        matching == SelectSeq(memory.events, Matches)
        needed == <<query.type, query.system, query.source>> # <<AnyFilter, AnyFilter, AnyFilter>>
    IN IF ~MemoryPassesSearchSummaryFilters(memory, query) \/ (needed /\ query.state # "EMPTY" /\ matching = <<>>) THEN {}
       ELSE {[item |-> DpmPortfolioMemorySearchItem(memory, matching), matching |-> ToSet(matching)]}

RowBefore(a, b) ==
    a.item.latest.at > b.item.latest.at \/ (a.item.latest.at = b.item.latest.at /\ a.item.portfolio < b.item.portfolio)

\* How often a value occurs over the rows, the portfolios counted apart.
MatchingEventFacets(rows) ==
    LET matched == UNION {Tagged(row.item.portfolio, row.matching) : row \in ToSet(rows)}
    IN [types |-> [type \in {pair[2].type : pair \in matched} |-> Cardinality({pair \in matched : pair[2].type = type})],
        states |-> [state \in {pair[2].state : pair \in matched} |-> Cardinality({pair \in matched : pair[2].state = state})]]

SupportabilityStateCounts(items) ==
    [state \in {item.state : item \in items} |-> Cardinality({item \in items : item.state = state})]

SourceSystemCounts(items) ==
    [system \in UNION {item.systems : item \in items} |-> Cardinality({item \in items : system \in item.systems})]

BuildSearchFacetCounts(rows) ==
    LET items == {row.item : row \in ToSet(rows)}
    IN [matching |-> MatchingEventFacets(rows), states |-> SupportabilityStateCounts(items), systems |-> SourceSystemCounts(items)]

DpmPortfolioMemorySearchPage(rows, query, scanned) ==
    LET last == Min({query.offset + query.limit, Len(rows)})
        shown == [i \in 1..Max({0, last - query.offset}) |-> rows[query.offset + i].item]
        next == query.offset + Len(shown)
    IN [items |-> shown, total |-> Len(rows), more |-> next < Len(rows), next |-> IF next < Len(rows) THEN next ELSE NoOffset,
        scanned |-> scanned, facets |-> BuildSearchFacetCounts(rows), rows |-> {<<row.item.portfolio, row.item.latest.at>> : row \in ToSet(rows)}]

ValidSearchItem(item) ==
    /\ item.count = MapThenSumSet(LAMBDA type : item.types[type], DOMAIN item.types)
    /\ item.matching <= item.count
    /\ IF item.count = 0 THEN item.state = "EMPTY" /\ item.latest = NoLatest ELSE item.state # "EMPTY" /\ item.latest # NoLatest
    /\ (item.matching = 0) = (item.latestMatching = NoLatest)

ValidSearchPagePagination(page, query) ==
    /\ Len(page.items) <= page.total
    /\ page.more = (query.offset + Len(page.items) < page.total)
    /\ IF page.more THEN page.next = query.offset + Len(page.items) /\ page.next > query.offset ELSE page.next = NoOffset

Covered(counts, shown) == \A value \in DOMAIN shown : value \in DOMAIN counts /\ counts[value] >= shown[value]

ValidSearchPageCounts(page) ==
    LET shown == ToSet(page.items)
        states == page.facets.states
    IN /\ MapThenSumSet(LAMBDA state : states[state], DOMAIN states) = page.total
       /\ Covered(states, SupportabilityStateCounts(shown)) /\ Covered(page.facets.systems, SourceSystemCounts(shown))
       /\ Len(page.items) = page.total =>
              /\ states = SupportabilityStateCounts(shown) /\ page.facets.systems = SourceSystemCounts(shown)
              /\ MapThenSumSet(LAMBDA state : page.facets.matching.states[state], DOMAIN page.facets.matching.states)
                     = MapThenSumSet(LAMBDA item : item.matching, shown)

BuildSearchPage(rows, query, scanned) ==
    LET page == DpmPortfolioMemorySearchPage(InOrder(rows, RowBefore), query, scanned)
    IN IF /\ \A i \in DOMAIN page.items : ValidSearchItem(page.items[i])
          /\ ValidSearchPagePagination(page, query) /\ ValidSearchPageCounts(page)
       THEN Accepted(page) ELSE Refused("422")

ValidSearchPagination(query) == query.limit \in 1..SearchLimitMax /\ query.offset >= 0 /\ query.scan \in 1..ScanLimitMax

SearchPortfolioMemoryFromSources(s, tenant, query) ==
    IF ~ValidSearchPagination(query) \/ Cardinality(query.explicit) > query.scan THEN Refused("422")
    ELSE LET events == CollectPortfolioMemorySearchEvents(s, tenant, query.explicit, query.scan)
             memories == {BuildPortfolioMemoryAggregate(portfolio, events[portfolio], query.scan) : portfolio \in DOMAIN events}
         IN BuildSearchPage(UNION {BuildSearchRow(memory, query) : memory \in memories}, query, Cardinality(DOMAIN events))

-----------------------------------------------------------------------------
(* Requests.  `version` counts the rows recorded when a reply was given.    *)

Clients == DOMAIN calls

\* Rows are replaced by key: the id within a family and a tenant, a selection
\* by its alternative set.
SameRow(family, a, b) ==
    IF family = "selections" THEN a.set = b.set
    ELSE IF family = "twins" THEN a.tenant = b.tenant /\ a.mandate = b.mandate /\ a.asOf = b.asOf
    ELSE a.id = b.id

Put(s, family, row) == [s EXCEPT ![family] = {old \in @ : ~SameRow(family, old, row)} \cup {row}]

Init ==
    \E workload \in Workloads :
        /\ store = [rows |-> workload.seed, version |-> 0]
        /\ calls = workload.calls
        /\ replies = [c \in DOMAIN workload.calls |-> <<>>]

Waiting(c, op) == calls[c] # <<>> /\ Head(calls[c]).op = op

Answered(c, result) ==
    /\ calls' = [calls EXCEPT ![c] = Tail(@)]
    /\ replies' = [replies EXCEPT ![c] = Append(@, [command |-> Head(calls[c]), result |-> result, version |-> store.version])]

\* Another component persists a row.
RecordSource(c) ==
    /\ Waiting(c, "record")
    /\ store' = [rows |-> Put(store.rows, Head(calls[c]).family, Head(calls[c]).row), version |-> store.version + 1]
    /\ calls' = [calls EXCEPT ![c] = Tail(@)]
    /\ UNCHANGED replies

GetPortfolioMemory(c) ==
    /\ Waiting(c, "timeline")
    /\ LET command == Head(calls[c])
       IN Answered(c, BuildPortfolioMemoryFromSources(store.rows, command.tenant, command.portfolio, command.limit))
    /\ UNCHANGED store

ReportContext(c) ==
    /\ Waiting(c, "report")
    /\ LET command == Head(calls[c])
       IN Answered(c, BuildReportPortfolioMemoryContext(store.rows, command.tenant, command.portfolio, command.limit))
    /\ UNCHANGED store

SearchPortfolioMemoryIndex(c) ==
    /\ Waiting(c, "search")
    /\ LET command == Head(calls[c])
       IN Answered(c, SearchPortfolioMemoryFromSources(store.rows, command.tenant, command.query))
    /\ UNCHANGED store

\* The client drills down from the first hit of its latest page, if any.
GetPortfolioMemoryEvent(c) ==
    /\ Waiting(c, "lookup")
    /\ LET command == Head(calls[c])
           page == Last(replies[c]).result
           hit == IF IsRefused(page) \/ page.value.items = <<>> THEN [portfolio |-> command.portfolio, latestMatching |-> NoLatest]
                  ELSE page.value.items[1]
           memory == BuildPortfolioMemoryFromSources(store.rows, command.tenant, hit.portfolio, command.limit)
       IN Answered(c, IF IsRefused(memory) THEN memory ELSE BuildPortfolioMemoryEventLookup(memory.value, hit.latestMatching.id))
    /\ UNCHANGED store

Next ==
    \E c \in Clients :
        RecordSource(c) \/ GetPortfolioMemory(c) \/ ReportContext(c) \/ SearchPortfolioMemoryIndex(c) \/ GetPortfolioMemoryEvent(c)

-----------------------------------------------------------------------------
(* Properties.                                                              *)

\* The reply was given on the rows as they are now.
Fresh(reply) == reply.version = store.version

\* A scan of `limit` rows reads every family whole.
ReadsAll(limit) == \A family \in Families : Cardinality(store.rows[family]) <= limit

\* The exceptions the portfolio got under a mandate it no longer has: the
\* search shows them, the timeline does not.
FormerExceptions(tenant, portfolio) ==
    {e \in store.rows.exceptions : e.tenant = tenant /\ e.portfolio = portfolio
                                   /\ \E twin \in LatestMandateByPortfolio(store.rows, tenant, portfolio) : twin.mandate # e.mandate}

\* Nothing persisted about the portfolio stands in the way.
NoConcern(tenant, portfolio) ==
    /\ \A pack \in store.rows.packs : pack.tenant = tenant /\ pack.portfolio = portfolio => pack.status = "READY"
    /\ \A e \in store.rows.exceptions \ FormerExceptions(tenant, portfolio) :
           e.tenant = tenant /\ e.portfolio = portfolio => e.state = "RESOLVED"
    /\ \A wave \in store.rows.waves :
           wave.tenant = tenant /\ (\E item \in wave.items : item.portfolio = portfolio)
               => wave.state \notin {"BLOCKED", "REJECTED", "CANCELLED", "HANDOFF_BLOCKED", "REVIEW_REQUIRED", "PARTIALLY_SIMULATED"}
    /\ \A review \in store.rows.reviews : review.portfolio = portfolio => review.state = "READY"

\* A timeline, a report and a search row are READY only when nothing persisted
\* about the portfolio is blocked, degraded or open to review, and the report
\* says when it leaves events out; checked while the limits cut nothing off.
MemoryIsEarned ==
    \A c \in Clients : \A i \in DOMAIN replies[c] :
        LET reply == replies[c][i]
            command == reply.command
        IN Fresh(reply) /\ ~IsRefused(reply.result) =>
               /\ command.op = "timeline" /\ ReadsAll(command.limit) /\ reply.result.value.count < command.limit
                      /\ reply.result.value.state = "READY" => NoConcern(command.tenant, command.portfolio)
               /\ command.op = "report" /\ ReadsAll(command.limit) /\ reply.result.value.count < command.limit
                      => /\ reply.result.value.state = "READY" => NoConcern(command.tenant, command.portfolio)
                         /\ reply.result.value.truncated \/
                                Len(reply.result.value.refs) = Cardinality(ReportSources(store.rows, command.tenant, command.portfolio, command.limit))
               /\ command.op = "search" /\ ReadsAll(command.query.scan) =>
                      \A k \in DOMAIN reply.result.value.items :
                          LET item == reply.result.value.items[k]
                          IN item.state = "READY" /\ item.count < command.query.scan => NoConcern(command.tenant, item.portfolio)

Owned(family, tenant) == {row \in store.rows[family] : row.tenant = tenant}

\* The portfolios with evidence of a family that the search scans.
Discoverable(tenant) ==
    {pack.portfolio : pack \in Owned("packs", tenant)}
    \cup UNION {{item.portfolio : item \in wave.items} : wave \in Owned("waves", tenant)}
    \cup {review.portfolio : review \in store.rows.reviews}
    \cup {e.portfolio : e \in Owned("exceptions", tenant)}
    \cup UNION {{member.portfolio : member \in definition.members} : definition \in Owned("campaigns", tenant)}
    \cup UNION {run.book : run \in Owned("scores", tenant)}

Unfiltered(query) == <<query.type, query.system, query.source, query.state>> = <<AnyFilter, AnyFilter, AnyFilter, AnyFilter>>

\* A page that the service builds passes the validators of its own model; a
\* search that reads everything finds every portfolio with evidence, and its
\* row counts what the timeline shows.
SearchAgreesWithTimeline ==
    \A c \in Clients : \A i \in DOMAIN replies[c] :
        LET reply == replies[c][i]
            query == reply.command.query
            tenant == reply.command.tenant
        IN reply.command.op = "search" /\ Fresh(reply) =>
               (ValidSearchPagination(query) => ~IsRefused(reply.result)) /\
               (~IsRefused(reply.result) /\ ReadsAll(query.scan) =>
                    /\ Unfiltered(query) => Discoverable(tenant) \subseteq {row[1] : row \in reply.result.value.rows}
                    /\ \A k \in DOMAIN reply.result.value.items :
                           LET item == reply.result.value.items[k]
                               timeline == BuildPortfolioMemoryFromSources(store.rows, tenant, item.portfolio, query.scan).value
                           IN FormerExceptions(tenant, item.portfolio) = {} => item.count = timeline.count /\ item.state = timeline.state)

\* The event a search hit names is found by the lookup that follows it when
\* nothing was recorded in between and the limits cut nothing off.
HitsAreFound ==
    \A c \in Clients : \A i \in 2..Len(replies[c]) :
        LET page == replies[c][i - 1]
            reply == replies[c][i]
        IN (reply.command.op = "lookup" /\ page.command.op = "search" /\ page.version = reply.version /\ Fresh(reply)) =>
               ((~IsRefused(page.result) /\ ReadsAll(page.command.query.scan) /\ ReadsAll(reply.command.limit)) =>
                    \A item \in {page.result.value.items[k] : k \in DOMAIN page.result.value.items \cap {1}} :
                        (item.matching > 0 /\ item.count <= reply.command.limit /\ FormerExceptions(reply.command.tenant, item.portfolio) = {}) =>
                            (~IsRefused(reply.result) /\ reply.result.value.event.id = item.latestMatching.id))

IsWalk(pages) ==
    /\ \A i \in DOMAIN pages : pages[i].command.op = "search" /\ ~IsRefused(pages[i].result) /\ Unfiltered(pages[i].command.query)
    /\ Len(pages) > 0 => pages[1].command.query.offset = 0 /\ ~pages[Len(pages)].result.value.more
    /\ \A i \in 2..Len(pages) : pages[i].command.query.offset = pages[i - 1].result.value.next

\* A walk through the pages of a search shows every portfolio whose newest
\* event stayed the same, while evidence of other portfolios comes in between
\* two pages: a new event only moves its portfolio to the front.
WalkShowsUnmoved ==
    \A c \in Clients :
        LET pages == replies[c]
            Rows(i) == pages[i].result.value.rows
            grows == \A i \in 2..Len(pages) : \A row \in Rows(i - 1) : \E later \in Rows(i) : later[1] = row[1] /\ later[2] >= row[2]
        IN Len(pages) > 0 =>
               (IsWalk(pages) =>
                    (grows => \A row \in Rows(1) : (\A i \in DOMAIN pages : row \in Rows(i)) =>
                                  \E i \in DOMAIN pages : \E k \in DOMAIN pages[i].result.value.items :
                                      pages[i].result.value.items[k].portfolio = row[1]))

\* A timeline holds the events of its tenant's rows only (outcome reviews
\* carry no tenant), and a search finds no portfolio through another's rows.
TenantsAreSeparate ==
    \A c \in Clients : \A i \in DOMAIN replies[c] :
        LET reply == replies[c][i]
            tenant == reply.command.tenant
            Own(family) == {row.id : row \in Owned(family, tenant)}
            IsOwn(id) == CASE id[1] = 1 -> id[2] \in Own("packs")
                           [] id[1] = 2 -> id[4] \in Own(IF id[3] = 1 THEN "health" ELSE "exceptions")
                           [] id[1] = 3 -> id[2] \in Own("sets")
                           [] id[1] = 4 -> id[2] \in Own("waves")
                           [] id[1] = 5 -> id[2] \in Own("campaigns")
                           [] id[1] = 6 -> TRUE
                           [] id[1] = 7 -> id[2] \in Own("scores")
                           [] id[1] = 8 -> id[2] \in Own("actions")
                           [] id[1] = 9 -> id[2] \in Own("invocations")
        IN Fresh(reply) /\ ~IsRefused(reply.result) =>
               /\ reply.command.op = "timeline" => \A k \in DOMAIN reply.result.value.events : IsOwn(reply.result.value.events[k].id)
               /\ reply.command.op = "search" => {row[1] : row \in reply.result.value.rows} \subseteq Discoverable(tenant) \cup reply.command.query.explicit

=============================================================================
