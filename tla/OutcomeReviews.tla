--------------------------- MODULE OutcomeReviews ---------------------------
(***************************************************************************)
(* Post-trade outcome reviews: preview, create, refresh, search and the    *)
(* inputs handed to reports and to AI, over the Postgres and the in-memory *)
(* repository side by side.  A content hash is the content it is made of.  *)
(***************************************************************************)
EXTENDS OutcomeEvidence

CONSTANTS Workloads,    \* what each client sends, in order
          ScanLimit,    \* rows a search reads before it filters by source
          MaxLost       \* answers that never arrive

VARIABLES store, calls, replies

Backends == {"pg", "mem"}

-----------------------------------------------------------------------------
(* A caller's evidence: answers adapted and assembled, artifacts or posted  *)
(* expectations, and the dimensions to compare.                             *)

\* An answer the adapter refuses contributes no source.
AdaptedSources(responses) ==
    LET adapted == SelectSeq([i \in DOMAIN responses |-> RealizedSource(responses[i])], LAMBDA a : ~IsRefused(a))
    IN  [i \in DOMAIN adapted |-> adapted[i].value]

Realized(e) ==
    AssembleRealizedOutcome(e.portfolio, AdaptedSources(e.responses), {c.dimension : c \in Range(e.configs)} \ e.omitted)

Expected(e) ==
    IF e.artifacts = <<>> THEN Accepted(e.posted)
    ELSE LET a == Head(e.artifacts)
         IN  AssembleExpectedOutcome(a.set, a.selection, a.pack, a.wave, a.item, a.handoff)

DimensionInputs(expected, realized, configs) ==
    IF \E c \in Range(configs) : c.dimension \notin DOMAIN expected.values \/ c.dimension \notin DOMAIN realized.values
    THEN Refused("DPM_OUTCOME_DIMENSION_EVIDENCE_MISSING")
    ELSE Accepted([i \in DOMAIN configs |->
            [dimension |-> configs[i].dimension, expected |-> expected.values[configs[i].dimension],
             realized |-> realized.values[configs[i].dimension], soft |-> configs[i].soft, hard |-> configs[i].hard,
             direction |-> configs[i].direction]])

PreviewOutcomeReview(expected, realized, configs) ==
    LET inputs == DimensionInputs(expected, realized, configs)
    IN  IF IsRefused(inputs) THEN inputs ELSE Accepted(CompareOutcomeDimensions(inputs.value))

-----------------------------------------------------------------------------
(* The review.                                                              *)

ReviewContentHash(expected, realized, comparison) == <<expected, realized, comparison.results>>

CreatedEventType(state) ==
    CASE state = "BLOCKED" -> "OUTCOME_REVIEW_BLOCKED"
      [] state = "DEGRADED" -> "OUTCOME_REVIEW_DEGRADED"
      [] state = "READY" -> "OUTCOME_REVIEW_READY"
      [] OTHER -> "OUTCOME_REVIEW_CREATED"

CreatedOutcomeEvent(id, state, at) == [id |-> <<id, 0>>, review |-> id, type |-> CreatedEventType(state), at |-> at, state |-> state]

SourceRefreshedEvent(id, state, at) ==
    [id |-> <<id, at>>, review |-> id, type |-> "OUTCOME_REVIEW_SOURCE_REFRESHED", at |-> at, state |-> state]

CreatedOutcomeReview(id, key, expected, realized, comparison, at) ==
    [id |-> id, key |-> key, state |-> comparison.state, portfolio |-> expected.identity.portfolio,
     mandate |-> expected.identity.mandate, run |-> expected.identity.run, item |-> expected.identity.item,
     expected |-> expected, realized |-> realized, results |-> comparison.results, reasons |-> comparison.reasons,
     lineage |-> realized.lineage, hash |-> ReviewContentHash(expected, realized, comparison),
     events |-> <<CreatedOutcomeEvent(id, comparison.state, at)>>, at |-> at]

-----------------------------------------------------------------------------
(* The repositories.                                                        *)

SaveConflict(tables, review) ==
    CASE \E r \in tables.reviews : r.id = review.id /\ r.hash # review.hash -> "DPM_OUTCOME_REVIEW_IMMUTABLE_CONFLICT"
      [] \E r \in tables.reviews : r.key = review.key /\ r.id # review.id -> "DPM_OUTCOME_REVIEW_IDEMPOTENCY_CONFLICT"
      [] OTHER -> "NO"

InsertEvent(tables, event) ==
    IF \E e \in tables.events : e.id = event.id THEN tables ELSE [tables EXCEPT !.events = @ \cup {event}]

PgSave(tables, review) ==
    IF \E r \in tables.reviews : r.id = review.id THEN InsertEvent(tables, Head(review.events))
    ELSE InsertEvent([tables EXCEPT !.reviews = @ \cup {review}], Head(review.events))

MemSave(tables, review) ==
    InsertEvent([tables EXCEPT !.reviews = {r \in @ : r.id # review.id} \cup {review}], Head(review.events))

Save(b, tables, review) == IF b = "pg" THEN PgSave(tables, review) ELSE MemSave(tables, review)

GetByIdempotency(tables, key) == {r \in tables.reviews : r.key = key}

\* A filter is a record; a field that is not in it is not filtered by.
MatchesFilters(review, filters) == \A f \in DOMAIN filters : review[f] = filters[f]

Sorted(reviews) == SetToSortSeq(reviews, LAMBDA x, y : x.at > y.at \/ (x.at = y.at /\ x.id > y.id))

\* The rows from offset on, at most limit of them.
Slice(rows, limit, offset) ==
    LET last == IF offset + limit < Len(rows) THEN offset + limit ELSE Len(rows)
    IN  IF offset >= Len(rows) THEN <<>> ELSE SubSeq(rows, offset + 1, last)

PgListReviews(tables, filters, limit, offset) ==
    Slice(Sorted({r \in tables.reviews : MatchesFilters(r, filters)}), limit, offset)

MemListReviews(tables, filters, limit, offset) ==
    Slice(Sorted({r \in tables.reviews : MatchesFilters(r, filters)}), limit, offset)

ListReviews(b, tables, filters, limit, offset) ==
    IF b = "pg" THEN PgListReviews(tables, filters, limit, offset) ELSE MemListReviews(tables, filters, limit, offset)

ListEvents(tables, id) ==
    SetToSortSeq({e \in tables.events : e.review = id}, LAMBDA x, y : x.at < y.at \/ (x.at = y.at /\ x.id[2] < y.id[2]))

-----------------------------------------------------------------------------
(* Search, lookups, supportability and the inputs handed on.                *)

SourceSystems(review) == {ref[1] : ref \in review.lineage}

MatchesSource(review, system) == system = "" \/ system \in SourceSystems(review)

\* Rows are scanned, then filtered by source, then paged.
SearchPage(b, tables, filters, system, limit, offset) ==
    LET matching == SelectSeq(ListReviews(b, tables, filters, ScanLimit, 0), LAMBDA r : MatchesSource(r, system))
    IN  [items |-> Slice(matching, limit, offset), total |-> Len(matching),
         owners |-> [s \in UNION {SourceSystems(r) : r \in Range(matching)} |->
                        Cardinality({i \in DOMAIN matching : s \in SourceSystems(matching[i])})]]

ReviewByRun(b, tables, run) == ListReviews(b, tables, [run |-> run], 1, 0)

ExecutionReasons(review) ==
    {<<r, "">> : r \in review.reasons}
        \cup IF "EXECUTION_QUALITY" \in DOMAIN review.realized.values THEN review.realized.values["EXECUTION_QUALITY"].reasons ELSE {}

\* What the execution owner blocked, or everything.
BlockedExecutionCapabilities(reasons) ==
    LET named == {r[2] : r \in {s \in reasons : s[1] = "EXECUTION_ACKNOWLEDGEMENT_BLOCKED_CAPABILITY"}}
    IN  IF named = {} THEN {"best_execution", "oms_acknowledgement", "fills", "settlement", "execution_status_projection"} ELSE named

ExecutionAcknowledgementCount(reasons) ==
    LET counts == {r[2] : r \in {s \in reasons : s[1] = "EXECUTION_ACKNOWLEDGEMENT_COUNT"}}
    IN  IF counts = {} THEN NoValue ELSE Min(counts)

ExternalExecutionBoundary(review) ==
    LET refs == review.lineage \cup UNION {review.results[i].refs : i \in DOMAIN review.results}
    IN  [state |-> "BLOCKED", present |-> \E ref \in refs : ref[2] = "EXTERNAL_ORDER_EXECUTION_ACKNOWLEDGEMENT",
         count |-> ExecutionAcknowledgementCount(ExecutionReasons(review)),
         blocked |-> BlockedExecutionCapabilities(ExecutionReasons(review))]

ClientCommunicationBoundary(review) ==
    [state |-> "BLOCKED", projected |-> FALSE,
     blocked |-> {"client_contact", "client_approval", "client_message_generation", "delivery_confirmation", "communication_audit"}]

RemediationRoute(reason) ==
    CASE reason \in {"RISK_OUTCOME_NOT_SUPPORTED", "RISK_INCREASED", "RISK_REDUCTION_ACHIEVED"} -> {"lotus-risk"}
      [] reason \in {"PERFORMANCE_OUTCOME_NOT_SUPPORTED", "PERFORMANCE_BELOW_EXPECTATION"} -> {"lotus-performance"}
      [] reason = "EXECUTION_EVIDENCE_BLOCKED" -> {"execution-owner"}
      [] reason \in {"SOURCE_EVIDENCE_INCOMPLETE", "CASH_RESIDUAL_OUT_OF_BAND", "FX_RESIDUAL_VARIANCE", "TAX_ABOVE_BUDGET"} ->
            {"source-owner"}
      [] OTHER -> {}

SupportabilityResponse(review) ==
    [id |-> review.id, state |-> review.state, owners |-> SourceSystems(review),
     counts |-> [s \in {review.results[i].state : i \in DOMAIN review.results} |->
                    Cardinality({i \in DOMAIN review.results : review.results[i].state = s})],
     routes |-> UNION {RemediationRoute(r) : r \in review.reasons},
     execution |-> ExternalExecutionBoundary(review), client |-> ClientCommunicationBoundary(review)]

\* What the portfolio's memory holds when the input is built.
PortfolioMemoryContext(tables, review) == Cardinality({r \in tables.reviews : r.portfolio = review.portfolio})

ReportInput(review, memory) ==
    [id |-> review.id, state |-> review.state, results |-> review.results, memory |-> memory,
     hash |-> <<review.hash, review.at, review.state, ExternalExecutionBoundary(review), ClientCommunicationBoundary(review)>>]

AiSourceRefs(review) ==
    review.lineage \cup UNION {review.results[i].refs : i \in DOMAIN review.results}
        \cup UNION {review.expected.values[d].refs : d \in DOMAIN review.expected.values}
        \cup UNION {review.realized.values[d].refs : d \in DOMAIN review.realized.values}

AiEvidenceInput(review, memory) ==
    [id |-> review.id, state |-> review.state, refs |-> AiSourceRefs(review), memory |-> memory,
     hash |-> <<review.hash, review.at, review.state, AiSourceRefs(review), ExternalExecutionBoundary(review)>>]

-----------------------------------------------------------------------------
(* The clients.                                                             *)

Idle == [state |-> "IDLE"]

Init ==
    \E workload \in Workloads :
        /\ store = [b \in Backends |-> [reviews |-> {}, events |-> {}]]
        /\ calls = [todo |-> workload, flight |-> [c \in DOMAIN workload |-> Idle], clock |-> 0, lost |-> 0]
        /\ replies = [c \in DOMAIN workload |-> <<>>]

Waiting(c, op) == calls.todo[c] # <<>> /\ Head(calls.todo[c]).op = op /\ calls.flight[c] = Idle

\* The client hears the result, or nothing at all; then it sends the command again.
Answered(c, results, heard) ==
    /\ heard \/ calls.lost < MaxLost
    /\ replies' = [replies EXCEPT ![c] = Append(@, [command |-> Head(calls.todo[c]), results |-> results])]
    /\ calls' = [calls EXCEPT !.todo[c] = IF heard THEN Tail(@) ELSE @, !.flight[c] = Idle, !.clock = @ + 1,
                              !.lost = IF heard THEN @ ELSE @ + 1]

\* What a request with this evidence compares to, or why it is refused.
Compared(e) ==
    LET expected == Expected(e)
    IN  IF IsRefused(expected) THEN expected ELSE PreviewOutcomeReview(expected.value, Realized(e), e.configs)

Preview(c) ==
    /\ Waiting(c, "PREVIEW")
    /\ \E compared \in {Compared(Head(calls.todo[c]).evidence)} : Answered(c, [b \in Backends |-> compared], TRUE)
    /\ UNCHANGED store

\* A create compares, reads by the key, and answers or goes on to write.
CreateRead(c) ==
    /\ Waiting(c, "CREATE")
    /\ \E comparison \in {Compared(Head(calls.todo[c]).evidence)} :
        LET command == Head(calls.todo[c])
            expected == Expected(command.evidence).value
            review == CreatedOutcomeReview(calls.clock, command.key, expected, Realized(command.evidence), comparison.value, calls.clock)
            found == [b \in Backends |-> GetByIdempotency(store[b], command.key)]
            Known(b) == IF IsRefused(comparison) THEN comparison
                        ELSE LET r == CHOOSE r \in found[b] : TRUE
                             IN  IF r.hash = review.hash THEN Accepted(r) ELSE Refused("DPM_OUTCOME_REVIEW_IDEMPOTENCY_CONFLICT")
        IN  IF IsRefused(comparison) \/ \E b \in Backends : found[b] # {}
            THEN \E heard \in BOOLEAN : Answered(c, [b \in Backends |-> Known(b)], heard)
            ELSE /\ calls' = [calls EXCEPT !.flight[c] = [state |-> "BUILT", review |-> review], !.clock = @ + 1]
                 /\ UNCHANGED replies
    /\ UNCHANGED store

\* Postgres may also meet its unique key, when the other write commits between
\* the check and the insert.
CreateSave(c) ==
    /\ calls.flight[c] # Idle
    /\ LET review == calls.flight[c].review
           conflict == [b \in Backends |-> SaveConflict(store[b], review)]
       IN  \E raw \in BOOLEAN, heard \in BOOLEAN :
            /\ raw => conflict["pg"] = "DPM_OUTCOME_REVIEW_IDEMPOTENCY_CONFLICT"
            /\ store' = [b \in Backends |-> IF conflict[b] = "NO" THEN Save(b, store[b], review) ELSE store[b]]
            /\ Answered(c, [b \in Backends |->
                    IF conflict[b] = "NO" THEN Accepted(review)
                    ELSE Refused(IF b = "pg" /\ raw THEN "500" ELSE conflict[b])], heard)

\* The review is immutable, so reading it and appending the event is one step.
RefreshOutcomeReview(b, command) ==
    LET review == CHOOSE r \in GetByIdempotency(store[b], command.key) : TRUE
        compared == PreviewOutcomeReview(review.expected, Realized(command.evidence), command.evidence.configs)
        event == SourceRefreshedEvent(review.id, compared.value.state, calls.clock)
    IN  IF GetByIdempotency(store[b], command.key) = {} THEN [tables |-> store[b], result |-> Refused("OUTCOME_REVIEW_NOT_FOUND")]
        ELSE IF IsRefused(compared) THEN [tables |-> store[b], result |-> compared]
        ELSE [tables |-> InsertEvent(store[b], event), result |-> Accepted([event |-> event, comparison |-> compared.value])]

RefreshSources(c) ==
    /\ Waiting(c, "REFRESH")
    /\ LET made == [b \in Backends |-> RefreshOutcomeReview(b, Head(calls.todo[c]))]
       IN  /\ store' = [b \in Backends |-> made[b].tables]
           /\ \E heard \in BOOLEAN : Answered(c, [b \in Backends |-> made[b].result], heard)

\* The report input and the AI evidence input of the review with this key.
GetHandoffInputs(c) ==
    /\ Waiting(c, "HANDOFF")
    /\ LET Inputs(b) ==
            LET found == GetByIdempotency(store[b], Head(calls.todo[c]).key)
                review == CHOOSE r \in found : TRUE
                memory == PortfolioMemoryContext(store[b], review)
            IN  IF found = {} THEN Refused("OUTCOME_REVIEW_NOT_FOUND")
                ELSE Accepted([report |-> ReportInput(review, memory), ai |-> AiEvidenceInput(review, memory)])
       IN  Answered(c, [b \in Backends |-> Inputs(b)], TRUE)
    /\ UNCHANGED store

Next ==
    \E c \in DOMAIN calls.todo : Preview(c) \/ CreateRead(c) \/ CreateSave(c) \/ RefreshSources(c) \/ GetHandoffInputs(c)

-----------------------------------------------------------------------------
(* Properties.                                                              *)

\* The numbers an answer really carries for what was asked of it.
Published(r) ==
    LET rows == {x \in Range(r.rows) : r.key \in {"", x.key}}
        raw == {x.value : x \in rows} \cup {x.reporting : x \in rows} \cup {r.total}
    IN  IF r.kind \in {"twr", "active", "mwr", "contribution", "attribution"}
        THEN {v \div 100 : v \in {w \in raw : Numeric(w)}} ELSE {v \in raw : Numeric(v)}

\* The source itself says that the answer can be relied on.
Sound(r) ==
    /\ r.support \in {"COMPLETE", "READY", "OK", "ready"} \/ r.kind \in {"twr", "active", "mwr"}
    /\ r.kind \in {"risk", "drawdown", "concentration", "rolling", "history"} => r.hash # 0
    /\ r.kind \notin {"acknowledgement", "no-cash", "no-projection", "no-risk", "no-performance"}
    /\ r.context \notin {"PERIOD_ERROR", "QUALITY_FLAGS", "NO_ALIGNED_OBSERVATIONS"}
    /\ IsIssuerMeasure(r.measure) => r.context = "complete"

Deviation(direction, expected, realized) ==
    CASE direction = "LOWER_IS_BETTER" -> realized - expected
      [] direction = "HIGHER_IS_BETTER" -> expected - realized
      [] OTHER -> IF realized > expected THEN realized - expected ELSE expected - realized

Comparisons ==
    UNION {{[e |-> replies[c][i].command.evidence, state |-> replies[c][i].results["pg"].value.state] :
                i \in {j \in DOMAIN replies[c] : replies[c][j].command.op \in {"PREVIEW", "CREATE"}
                                                    /\ ~IsRefused(replies[c][j].results["pg"])}} : c \in DOMAIN replies}

\* A review is READY only if for every dimension some source vouches for a
\* number within the soft tolerance of an undegraded expectation, and BREACHED
\* only if some published number is beyond the hard tolerance on the bad side:
\* no combination of missing, stale, unsupported or conflicting answers earns either.
OutcomeIsEarned ==
    \A x \in Comparisons :
        LET expected == Expected(x.e).value.values
            Evidence(d) == {r \in Range(x.e.responses) : ~IsRefused(RealizedSource(r)) /\ RealizedSource(r).value.dimension = d}
        IN  /\ x.state = "READY" => \A c \in Range(x.e.configs) :
                    /\ expected[c.dimension].state \in {"READY", "PENDING_REVIEW"}
                    /\ \E r \in Evidence(c.dimension) : Sound(r) /\ \E v \in Published(r) :
                            Deviation(c.direction, expected[c.dimension].value, v) <= c.soft
                    /\ \A r, s \in Evidence(c.dimension) : RealizedSource(r).value.value = RealizedSource(s).value.value
            /\ x.state = "BREACHED" => \E c \in Range(x.e.configs) : \E r \in Evidence(c.dimension) :
                    \E v \in Published(r) \cup {r.count} : Deviation(c.direction, expected[c.dimension].value, v) > c.hard

Answers(op, b) ==
    UNION {{replies[c][i] : i \in {j \in DOMAIN replies[c] : replies[c][j].command.op = op /\ ~IsRefused(replies[c][j].results[b])}}
             : c \in DOMAIN replies}

\* However creates overlap and are retried, a key has one review, every review
\* that was ever answered is stored as it was answered and begins its own list
\* of events, and a refresh that was answered is in that list and nowhere else.
ReviewsAreKept ==
    \A b \in Backends :
        /\ \A r, s \in store[b].reviews : r.key = s.key => r = s
        /\ \A a \in Answers("CREATE", b) :
            LET review == a.results[b].value
            IN  /\ review \in store[b].reviews
                /\ review.key = a.command.key
                /\ Head(ListEvents(store[b], review.id)) = Head(review.events)
        /\ \A a \in Answers("REFRESH", b) :
            LET event == a.results[b].value.event
            IN  event \in Range(ListEvents(store[b], event.review)) /\ \E r \in store[b].reviews : r.id = event.review

\* The inputs handed to reports and to AI keep their content hash whatever
\* else happens to the portfolio, and show the review as it was created.
HandoffsAreStable ==
    \A b \in Backends : \A x, y \in Answers("HANDOFF", b) :
        LET one == x.results[b].value
            other == y.results[b].value
        IN  one.report.id = other.report.id =>
                /\ one.report.hash = other.report.hash
                /\ one.ai.hash = other.ai.hash
                /\ \E r \in store[b].reviews : r.id = one.report.id /\ r.results = one.report.results
                                               /\ SupportabilityResponse(r).state = one.ai.state

\* While no search reads past its scan limit, its pages hold every review that
\* matches, once and newest first, its total is their number, and the lookup by
\* run finds a review of that run whenever there is one.
SearchCoversAll ==
    \A b \in Backends : \A filters \in {[r \in {} |-> 0], [portfolio |-> 1], [state |-> "READY"], [run |-> 7]}, system \in {"", "lotus-risk"} :
        LET matching == {r \in store[b].reviews : MatchesFilters(r, filters) /\ MatchesSource(r, system)}
            page == [i \in 1..Cardinality(matching) |-> SearchPage(b, store[b], filters, system, 1, i - 1)]
            byRun == ReviewByRun(b, store[b], 7)
        IN  Cardinality(store[b].reviews) <= ScanLimit =>
                /\ {page[i].items[1] : i \in DOMAIN page} = matching
                /\ \A i \in DOMAIN page : page[i].total = Cardinality(matching)
                /\ \A i \in DOMAIN page : i > 1 => page[i].items[1].at < page[i - 1].items[1].at
                /\ (byRun = <<>>) = (\A r \in store[b].reviews : r.run # 7)
                /\ byRun # <<>> => \A r \in store[b].reviews : r.run = 7 => r.at <= byRun[1].at

\* Postgres and the in-memory repository hold the same reviews and events.
RepositoriesAgree == store["pg"] = store["mem"]

=============================================================================
