----------------------------- MODULE RunStores ------------------------------
(***************************************************************************)
(* The stores behind the run supportability API, and the reads it serves.  *)
(*                                                                         *)
(* PostgreSQL, SQLite and the in-memory repository take the same writes    *)
(* side by side.  Every read first removes what retention has expired, so  *)
(* rows vanish while a client walks through pages, and between the read    *)
(* and the write of one handler.                                           *)
(***************************************************************************)
EXTENDS Results, TLC

CONSTANTS
    Workloads,       \* the commands sent, in order, and how many may be under way at once
    RetentionDays,   \* how long runs are kept; 0 keeps them
    TtlDays,         \* how long settled operations are kept
    LeaseDays,       \* how long an execution lease lasts
    MaxDay,          \* the last day of the model
    MaxCrashes,      \* how many commands die half way
    Features,        \* the API surfaces switched on
    PageLimit        \* rows in a page

VARIABLES
    store,     \* the tables of each backend
    calls,     \* the commands left and under way, the walks, the day, and what happened to runs
    replies    \* history: what each backend answered to the commands

vars == <<store, calls, replies>>

Backends == {"pg", "lite", "mem"}

None == 0

Run(tenant, id, corr, hash, key, portfolio, at, status) ==
    [tenant |-> tenant, id |-> id, corr |-> corr, hash |-> hash, key |-> key, portfolio |-> portfolio,
     at |-> at, status |-> status]

Mapping(run) == [tenant |-> run.tenant, key |-> run.key, hash |-> run.hash, run |-> run.id, at |-> run.at]

HistoryRow(run) ==
    [tenant |-> run.tenant, key |-> run.key, run |-> run.id, corr |-> run.corr, hash |-> run.hash, at |-> run.at]

Edge(tenant, source, type, target, at, meta) ==
    [tenant |-> tenant, source |-> source, type |-> type, target |-> target, at |-> at, meta |-> meta]

Operation(tenant, id, corr, request, at) ==
    [tenant |-> tenant, id |-> id, corr |-> corr, request |-> request, at |-> at, status |-> "PENDING",
     attempt |-> 0, lease |-> None, finished |-> None, result |-> None]

Decision(id, run, action, actor, at) ==
    [id |-> id, run |-> run, action |-> action, actor |-> actor, at |-> at]

Tables ==
    [runs |-> {}, artifacts |-> {}, maps |-> <<>>, history |-> <<>>, ops |-> {}, decisions |-> <<>>,
     edges |-> <<>>, byCorr |-> {}]

\* SQLite has no tenant column for runs, mappings, history and lineage.
Kept(b, row) == IF b = "lite" THEN [row EXCEPT !.tenant = ""] ELSE row

-----------------------------------------------------------------------------
(* Runs.                                                                    *)

\* A tenant holds a correlation once; the clash is the driver's own error.
PgInsertRun(tables, run, replace) ==
    LET old == {r \in tables.runs : r.id = run.id} IN
    IF old # {} /\ ~replace THEN Refused("DPM_RUN_ALREADY_EXISTS")
    ELSE IF \E r \in tables.runs \ old : r.tenant # "" /\ r.tenant = run.tenant /\ r.corr = run.corr
    THEN Refused("UNIQUE_VIOLATION")
    ELSE Accepted([tables EXCEPT !.runs = (@ \ old) \cup
            {IF old = {} THEN run ELSE [run EXCEPT !.tenant = (CHOOSE o \in old : TRUE).tenant]}])

\* Correlations are unique in the whole SQLite file.
LiteInsertRun(tables, run, replace) ==
    LET old == {r \in tables.runs : r.id = run.id}
        rivals == {r \in tables.runs \ old : r.corr = run.corr}
    IN  IF ~replace /\ old \cup rivals # {} THEN Refused("DPM_RUN_ALREADY_EXISTS")
        ELSE IF rivals # {} THEN Refused("UNIQUE_VIOLATION")
        ELSE Accepted([tables EXCEPT !.runs = (@ \ old) \cup {Kept("lite", run)}])

MemSaveRun(tables, run) ==
    Accepted([tables EXCEPT !.runs = {r \in @ : r.id # run.id} \cup {run},
                            !.byCorr = {e \in @ : e[1] # run.corr} \cup {<<run.corr, run.id>>}])

InsertRun(b, tables, run, replace) ==
    CASE b = "pg" -> PgInsertRun(tables, run, replace)
      [] b = "lite" -> LiteInsertRun(tables, run, replace)
      [] OTHER -> IF ~replace /\ ((\E r \in tables.runs : r.id = run.id) \/ (\E e \in tables.byCorr : e[1] = run.corr))
                  THEN Refused("DPM_RUN_ALREADY_EXISTS") ELSE MemSaveRun(tables, run)

AppendLineageEdge(b, tables, edge) == [tables EXCEPT !.edges = Append(@, Kept(b, edge))]

\* The run and the edges that make it a member of its operation, or nothing.
SaveRunWithLineage(b, tables, run, edges) ==
    IF \E e \in edges : e.tenant # run.tenant \/ e.target # run.id THEN Refused("DPM_RUN_LINEAGE_SCOPE_MISMATCH")
    ELSE LET inserted == InsertRun(b, tables, run, FALSE) IN
         IF IsRefused(inserted) THEN inserted
         ELSE Accepted(FoldSet(LAMBDA e, t : AppendLineageEdge(b, t, e), inserted.value, edges))

\* Mutant: the oldest come first.
Older(r, s) == r.at < s.at \/ (r.at = s.at /\ r.id < s.id)

Newer(r, s) == r.at > s.at \/ (r.at = s.at /\ r.id > s.id)

Newest(rows) == IF rows = {} THEN {} ELSE {CHOOSE r \in rows : \A s \in rows \ {r} : Newer(r, s)}

\* A run by its id, its correlation or its request hash; tenant "" reads them all.
PgFindRun(tables, tenant, by, value) ==
    Newest({r \in tables.runs : r[by] = value /\ tenant \in {"", r.tenant}})

LiteFindRun(tables, by, value) == Newest({r \in tables.runs : r[by] = value})

MemFindRun(tables, tenant, by, value) ==
    IF by = "corr" /\ tenant = ""
    THEN {r \in tables.runs : <<value, r.id>> \in tables.byCorr}
    ELSE Newest({r \in tables.runs : r[by] = value /\ tenant \in {"", r.tenant}})

FindRun(b, tables, tenant, by, value) ==
    CASE b = "pg" -> PgFindRun(tables, tenant, by, value)
      [] b = "lite" -> LiteFindRun(tables, by, value)
      [] OTHER -> MemFindRun(tables, tenant, by, value)

NoFilter == [status |-> "", hash |-> None, portfolio |-> "", since |-> 0, until |-> 99]

RunMatches(run, filter) ==
    /\ filter.since <= run.at /\ run.at <= filter.until
    /\ filter.status \in {"", run.status} /\ filter.hash \in {None, run.hash}
    /\ filter.portfolio \in {"", run.portfolio}

Sorted(rows) == SetToSortSeq(rows, Newer)

FirstPage(rows, limit) ==
    [rows |-> [i \in 1..Min({limit, Len(rows)}) |-> rows[i]],
     next |-> IF Len(rows) > limit THEN rows[limit].id ELSE None]

EmptyPage == [rows |-> <<>>, next |-> None]

\* Rows after the one the cursor names, as long as it is among them.
CursorPage(rows, limit, cursor) ==
    LET at == {i \in DOMAIN rows : rows[i].id = cursor} IN
    IF cursor = None THEN FirstPage(rows, limit)
    ELSE IF at = {} THEN EmptyPage
    ELSE FirstPage([i \in 1..(Len(rows) - Min(at)) |-> rows[i + Min(at)]], limit)

\* SQL compares with the row the cursor names, whether the filters admit it or not.
SqlRunPage(rows, all, limit, cursor) ==
    IF cursor = None THEN FirstPage(Sorted(rows), limit)
    ELSE FirstPage(Sorted({r \in rows : \E c \in all : c.id = cursor /\ Newer(c, r)}), limit)

\* Mutant: any row may be the cursor.
PgRunPageAnyCursor(tables, tenant, filter, limit, cursor) ==
    SqlRunPage({r \in tables.runs : tenant \in {"", r.tenant} /\ RunMatches(r, filter)}, tables.runs, limit, cursor)

PgRunPage(tables, tenant, filter, limit, cursor) ==
    IF tenant # "" /\ cursor # None /\ PgFindRun(tables, tenant, "id", cursor) = {} THEN EmptyPage
    ELSE SqlRunPage({r \in tables.runs : tenant \in {"", r.tenant} /\ RunMatches(r, filter)},
                    tables.runs, limit, cursor)

LiteRunPage(tables, filter, limit, cursor) ==
    SqlRunPage({r \in tables.runs : RunMatches(r, filter)}, tables.runs, limit, cursor)

MemRunPage(tables, tenant, filter, limit, cursor) ==
    CursorPage(Sorted({r \in tables.runs : tenant \in {"", r.tenant} /\ RunMatches(r, filter)}), limit, cursor)

RunPage(b, tables, tenant, filter, limit, cursor) ==
    CASE b = "pg" -> PgRunPage(tables, tenant, filter, limit, cursor)
      [] b = "lite" -> LiteRunPage(tables, filter, limit, cursor)
      [] OTHER -> MemRunPage(tables, tenant, filter, limit, cursor)

-----------------------------------------------------------------------------
(* Idempotency, artifacts, decisions and lineage.                           *)

SaveArtifact(tables, id) == [tables EXCEPT !.artifacts = @ \cup {id}]

\* Mutant: a key belongs to no tenant.
SameKeyOfAnyone(row, tenant, key) == row.key = key

SameKey(row, tenant, key) == row.tenant = tenant /\ row.key = key

SaveIdempotencyMapping(b, tables, mapping) ==
    LET row == Kept(b, mapping)
        at == {i \in DOMAIN tables.maps : SameKey(tables.maps[i], row.tenant, row.key)}
    IN  [tables EXCEPT !.maps = IF at = {} THEN Append(@, row) ELSE [@ EXCEPT ![Min(at)] = row]]

AppendIdempotencyHistory(b, tables, row) == [tables EXCEPT !.history = Append(@, Kept(b, row))]

RowsOf(rows, tenant, key) == SelectSeq(rows, LAMBDA r : SameKey(r, tenant, key))

PgFindMapping(tables, tenant, key) == ToSet(RowsOf(tables.maps, tenant, key))

LiteFindMapping(tables, key) == ToSet(RowsOf(tables.maps, "", key))

MemFindMapping(tables, tenant, key) == ToSet(RowsOf(tables.maps, tenant, key))

FindMapping(b, tables, tenant, key) ==
    CASE b = "pg" -> PgFindMapping(tables, tenant, key)
      [] b = "lite" -> LiteFindMapping(tables, key)
      [] OTHER -> MemFindMapping(tables, tenant, key)

ByDay(rows) == SortSeq(rows, LAMBDA r, s : r.at < s.at)

PgHistory(tables, tenant, key) == ByDay(RowsOf(tables.history, tenant, key))

LiteHistory(tables, key) == ByDay(RowsOf(tables.history, "", key))

MemHistory(tables, tenant, key) == RowsOf(tables.history, tenant, key)

History(b, tables, tenant, key) ==
    CASE b = "pg" -> PgHistory(tables, tenant, key)
      [] b = "lite" -> LiteHistory(tables, key)
      [] OTHER -> MemHistory(tables, tenant, key)

AppendDecision(tables, decision) == [tables EXCEPT !.decisions = Append(@, decision)]

DecisionsOf(tables, run) == ByDay(SelectSeq(tables.decisions, LAMBDA d : d.run = run))

PgDecisionPage(tables, run, action, limit, cursor) ==
    CursorPage(Sorted({d \in ToSet(tables.decisions) : run \in {None, d.run} /\ action \in {"", d.action}}), limit, cursor)

LiteDecisionPage(tables, run, action, limit, cursor) == PgDecisionPage(tables, run, action, limit, cursor)

MemDecisionPage(tables, run, action, limit, cursor) ==
    LET matching == SelectSeq(tables.decisions, LAMBDA d : run \in {None, d.run} /\ action \in {"", d.action})
    IN  CursorPage(SortSeq(matching, Newer), limit, cursor)

DecisionPage(b, tables, run, action, limit, cursor) ==
    CASE b = "pg" -> PgDecisionPage(tables, run, action, limit, cursor)
      [] b = "lite" -> LiteDecisionPage(tables, run, action, limit, cursor)
      [] OTHER -> MemDecisionPage(tables, run, action, limit, cursor)

Touches(edge, entities) == edge.source \in entities \/ edge.target \in entities

EdgeKey(e) == <<e.at, e.source, e.type, e.target>>

EdgeBefore(e, f) ==
    \E i \in 1..4 : EdgeKey(e)[i] < EdgeKey(f)[i] /\ \A j \in 1..(i - 1) : EdgeKey(e)[j] = EdgeKey(f)[j]

SortLineageEdges(edges) == SortSeq(edges, EdgeBefore)

LineageOf(tables, entity) == SelectSeq(tables.edges, LAMBDA e : Touches(e, {entity}))

\* The cursor is the edge's identity without its metadata.
LineagePage(tables, entity, type, limit, cursor) ==
    LET edges == SelectSeq(SortLineageEdges(LineageOf(tables, entity)), LAMBDA e : type \in {None, e.type})
        at == {i \in DOMAIN edges : EdgeKey(edges[i]) = cursor}
        rest == IF cursor = <<>> THEN edges
                ELSE IF at = {} THEN <<>>
                ELSE [i \in 1..(Len(edges) - Min(at)) |-> edges[i + Min(at)]]
    IN  [rows |-> [i \in 1..Min({limit, Len(rest)}) |-> rest[i]],
         next |-> IF Len(rest) > limit THEN EdgeKey(rest[limit]) ELSE <<>>]

-----------------------------------------------------------------------------
(* Operations.                                                              *)

PgSaveOperation(tables, op) ==
    IF \E o \in tables.ops : o.tenant # "" /\ o.tenant = op.tenant /\ o.corr = op.corr /\ o.id # op.id
    THEN Refused("DPM_ASYNC_OPERATION_CORRELATION_CONFLICT")
    ELSE Accepted([tables EXCEPT !.ops = {o \in @ : o.id # op.id} \cup {op}])

LiteSaveOperation(tables, op) == PgSaveOperation(tables, op)

MemSaveOperation(tables, op) ==
    IF \E o \in tables.ops : o.tenant = op.tenant /\ o.corr = op.corr /\ o.id # op.id
    THEN Refused("DPM_ASYNC_OPERATION_CORRELATION_CONFLICT")
    ELSE Accepted([tables EXCEPT !.ops = {o \in @ : o.id # op.id} \cup {op}])

SaveOperation(b, tables, op) ==
    CASE b = "pg" -> PgSaveOperation(tables, op)
      [] b = "lite" -> LiteSaveOperation(tables, op)
      [] OTHER -> MemSaveOperation(tables, op)

PgFindOperation(tables, tenant, by, value) == {o \in tables.ops : o[by] = value /\ o.tenant = tenant}

LiteFindOperation(tables, tenant, by, value) == {o \in tables.ops : o[by] = value /\ o.tenant = tenant}

MemFindOperation(tables, tenant, by, value) == {o \in tables.ops : o[by] = value /\ o.tenant = tenant}

FindOperation(b, tables, tenant, by, value) ==
    CASE b = "pg" -> PgFindOperation(tables, tenant, by, value)
      [] b = "lite" -> LiteFindOperation(tables, tenant, by, value)
      [] OTHER -> MemFindOperation(tables, tenant, by, value)

OperationMatches(op, tenant, filter) ==
    op.tenant = tenant /\ filter.since <= op.at /\ op.at <= filter.until /\ filter.status \in {"", op.status}

PgOperationPage(tables, tenant, filter, limit, cursor) ==
    CursorPage(Sorted({o \in tables.ops : OperationMatches(o, tenant, filter)}), limit, cursor)

LiteOperationPage(tables, tenant, filter, limit, cursor) == PgOperationPage(tables, tenant, filter, limit, cursor)

MemOperationPage(tables, tenant, filter, limit, cursor) ==
    CursorPage(Sorted({o \in tables.ops : OperationMatches(o, tenant, filter)}), limit, cursor)

OperationPage(b, tables, tenant, filter, limit, cursor) ==
    CASE b = "pg" -> PgOperationPage(tables, tenant, filter, limit, cursor)
      [] b = "lite" -> LiteOperationPage(tables, tenant, filter, limit, cursor)
      [] OTHER -> MemOperationPage(tables, tenant, filter, limit, cursor)

Claimable(op, day) ==
    op.request # "" /\ (op.status = "PENDING" \/ (op.status = "RUNNING" /\ op.lease <= day))

MemClaimOperation(tables, tenant, id, day) ==
    LET found == {o \in tables.ops : o.id = id /\ o.tenant = tenant} IN
    IF found = {} THEN Refused("DPM_ASYNC_OPERATION_NOT_FOUND")
    ELSE LET op == CHOOSE o \in found : TRUE IN
         IF ~Claimable(op, day) THEN Refused("DPM_ASYNC_OPERATION_NOT_EXECUTABLE")
         ELSE Accepted([tables EXCEPT !.ops = (@ \ {op}) \cup {[op EXCEPT !.status = "RUNNING",
                    !.attempt = @ + 1, !.lease = day + LeaseDays, !.finished = None, !.result = None]}])

LiteClaimOperation(tables, tenant, id, day) == MemClaimOperation(tables, tenant, id, day)

\* Only the attempt that still runs publishes its outcome.
MemPublishOperation(tables, tenant, id, attempt, result, day) ==
    LET found == {o \in tables.ops : o.id = id /\ o.tenant = tenant /\ o.status = "RUNNING" /\ o.attempt = attempt} IN
    IF found = {} THEN Refused("DPM_ASYNC_OPERATION_STALE_EXECUTION_OWNER")
    ELSE LET op == CHOOSE o \in found : TRUE IN
         Accepted([tables EXCEPT !.ops = (@ \ {op}) \cup {[op EXCEPT !.finished = day, !.lease = None,
            !.status = IF result = None THEN "FAILED" ELSE "SUCCEEDED", !.result = result]}])

LitePublishOperation(tables, tenant, id, attempt, result, day) ==
    MemPublishOperation(tables, tenant, id, attempt, result, day)

-----------------------------------------------------------------------------
(* Retention.                                                               *)

\* Mutant: the rows of expired runs stay.
WithoutNone(rows, ids) == rows

Without(rows, ids) == SelectSeq(rows, LAMBDA r : r.run \notin ids)

\* A lineage row goes when it names an expired run, its correlation or its key.
PgPurgeRuns(tables, day) ==
    LET gone == {r \in tables.runs : RetentionDays > 0 /\ r.at < day - RetentionDays}
        ids == {r.id : r \in gone}
        entities == ids \cup {r.corr : r \in gone} \cup ({r.key : r \in gone} \ {None})
    IN  [tables EXCEPT !.runs = @ \ gone, !.artifacts = @ \ ids, !.maps = Without(@, ids),
                       !.history = Without(@, ids), !.decisions = Without(@, ids),
                       !.edges = SelectSeq(@, LAMBDA e : ~Touches(e, entities))]

LitePurgeRuns(tables, day) == PgPurgeRuns(tables, day)

\* The keys of the mappings removed count as expired too.
MemPurgeRuns(tables, day) ==
    LET gone == {r \in tables.runs : RetentionDays > 0 /\ r.at < day - RetentionDays}
        ids == {r.id : r \in gone}
        keys == ({r.key : r \in gone} \ {None}) \cup {m.key : m \in {n \in ToSet(tables.maps) : n.run \in ids}}
    IN  [tables EXCEPT !.runs = @ \ gone, !.artifacts = @ \ ids, !.maps = Without(@, ids),
                       !.history = Without(@, ids), !.decisions = Without(@, ids),
                       !.byCorr = {e \in @ : e[2] \notin ids},
                       !.edges = SelectSeq(@, LAMBDA e : ~Touches(e, ids \cup {r.corr : r \in gone} \cup keys))]

CleanupSupportability(b, tables, day) ==
    CASE b = "pg" -> PgPurgeRuns(tables, day)
      [] b = "lite" -> LitePurgeRuns(tables, day)
      [] OTHER -> MemPurgeRuns(tables, day)

\* A running operation is recovery state: its lease decides, not the retention.
MemPurgeOperations(tables, day) ==
    [tables EXCEPT !.ops = {o \in @ : o.status = "RUNNING"
        \/ (IF o.finished = None THEN o.at ELSE o.finished) >= day - TtlDays}]

LitePurgeOperations(tables, day) == MemPurgeOperations(tables, day)

CleanupOperations(b, tables, day) ==
    IF b = "lite" THEN LitePurgeOperations(tables, day) ELSE MemPurgeOperations(tables, day)

Cleaned(b, tables, day) == CleanupOperations(b, CleanupSupportability(b, tables, day), day)

-----------------------------------------------------------------------------
(* The supportability summary.                                              *)

NewestDay(rows) == IF rows = {} THEN None ELSE Max({r.at : r \in rows})

Counted(runs, ops, decisions, edges) ==
    [runs |-> Cardinality(runs), ops |-> Cardinality(ops),
     failed |-> Cardinality({o \in ops : o.status = "FAILED"}),
     pending |-> Cardinality({r \in runs : r.status = "PENDING_REVIEW"}),
     decisions |-> decisions, edges |-> edges, newest |-> Max({NewestDay(runs), NewestDay(ops)})]

InScope(runs, op, portfolio) ==
    op.request = portfolio \/ (op.request = "" /\ \E r \in runs : r.corr = op.corr)

ScopedEntities(runs, ops) ==
    {r.id : r \in runs} \cup {r.corr : r \in runs} \cup ({r.key : r \in runs} \ {None})
        \cup {o.id : o \in ops} \cup {o.corr : o \in ops}

\* Lineage is counted by the row.
PgScopedSummary(tables, portfolio) ==
    LET runs == {r \in tables.runs : r.portfolio = portfolio}
        ops == {o \in tables.ops : InScope(runs, o, portfolio)}
    IN  Counted(runs, ops, Len(SelectSeq(tables.decisions, LAMBDA d : \E r \in runs : r.id = d.run)),
                Len(SelectSeq(tables.edges, LAMBDA e : Touches(e, ScopedEntities(runs, ops)))))

PgSummary(tables, portfolio) ==
    IF portfolio # "" THEN PgScopedSummary(tables, portfolio)
    ELSE Counted(tables.runs, tables.ops, Len(tables.decisions), Len(tables.edges))

LiteScopedSummary(tables, portfolio) == PgScopedSummary(tables, portfolio)

LiteSummary(tables, portfolio) ==
    IF portfolio # "" THEN LiteScopedSummary(tables, portfolio)
    ELSE Counted(tables.runs, tables.ops, Len(tables.decisions), Len(tables.edges))

\* Lineage is counted by identity.
MemSummary(tables, portfolio) ==
    LET runs == {r \in tables.runs : portfolio \in {"", r.portfolio}}
        ops == {o \in tables.ops : portfolio = "" \/ InScope(runs, o, portfolio)}
        decisions == SelectSeq(tables.decisions, LAMBDA d : portfolio = "" \/ \E r \in runs : r.id = d.run)
        edges == {e \in ToSet(tables.edges) : portfolio = "" \/ Touches(e, ScopedEntities(runs, ops))}
    IN  Counted(runs, ops, Len(decisions), Cardinality({<<EdgeKey(e), e.meta>> : e \in edges}))

RawSummary(b, tables, portfolio) ==
    CASE b = "pg" -> PgSummary(tables, portfolio)
      [] b = "lite" -> LiteSummary(tables, portfolio)
      [] OTHER -> MemSummary(tables, portfolio)

Freshness(summary, day) ==
    IF summary.newest = None THEN "unknown"
    ELSE IF day - summary.newest <= 0 THEN "current"
    ELSE IF day - summary.newest <= 1 THEN "same_day" ELSE "stale"

\* The as-of dates the portfolio's source references state; 0 states none.
TemporalIdentity(portfolio, dates) ==
    IF portfolio = "" THEN "store_wide"
    ELSE IF Cardinality(dates) = 1 /\ 0 \notin dates THEN "available"
    ELSE IF Cardinality(dates \ {0}) > 1 THEN "mixed_source_as_of" ELSE "missing_source_evidence"

ActionRegisterState(summary, identity, day) ==
    IF summary.runs = 0 /\ summary.ops = 0 THEN "empty"
    ELSE IF identity \in {"missing_source_evidence", "mixed_source_as_of"} THEN "degraded"
    ELSE IF Freshness(summary, day) = "stale" THEN "stale"
    ELSE IF summary.failed > 0 THEN "degraded" ELSE "ready"

Summary(b, tables, portfolio, dates, day) ==
    LET counts == RawSummary(b, Cleaned(b, tables, day), portfolio)
        identity == TemporalIdentity(portfolio, dates)
    IN  [counts |-> counts, identity |-> identity, state |-> ActionRegisterState(counts, identity, day),
         confirmed |-> portfolio # "" /\ (counts.runs > 0 \/ counts.ops > 0)]

-----------------------------------------------------------------------------
(* What the service answers.                                                *)

RequiredRun(b, tables, tenant, by, value) ==
    LET found == FindRun(b, tables, tenant, by, value)
    IN  IF found = {} THEN Refused("DPM_RUN_NOT_FOUND") ELSE Accepted(CHOOSE r \in found : TRUE)

RequiredMapping(b, tables, tenant, key) ==
    LET found == FindMapping(b, tables, tenant, key)
    IN  IF found = {} THEN Refused("DPM_IDEMPOTENCY_KEY_NOT_FOUND") ELSE Accepted(CHOOSE m \in found : TRUE)

\* The run a handle leads to: its id, its correlation or the key's current mapping.
ByHandle(b, tables, tenant, by, value) ==
    IF by # "key" THEN RequiredRun(b, tables, tenant, by, value)
    ELSE LET mapping == RequiredMapping(b, tables, tenant, value)
         IN  IF IsRefused(mapping) THEN mapping ELSE RequiredRun(b, tables, tenant, "id", mapping.value.run)

\* The only operation whose membership edge names the run.
OperationMembershipId(tables, run) ==
    LET edges == SelectSeq(LineageOf(tables, run.id),
                           LAMBDA e : e.type = 4 /\ e.target = run.id /\ e.tenant = run.tenant)
    IN  IF Len(edges) = 1 THEN edges[1].source ELSE None

RunSupportBundle(b, tables, tenant, run) ==
    [run |-> run.id, artifact |-> run.id,
     operation |-> {o.id : o \in FindOperation(b, tables, tenant, "id", OperationMembershipId(tables, run))},
     decisions |-> DecisionsOf(tables, run.id),
     lineage |-> SortLineageEdges(LineageOf(tables, run.id)),
     history |-> IF run.key = None THEN <<>> ELSE History(b, tables, tenant, run.key)]

\* The handle is resolved first; only then does the bundle remove what expired.
SupportBundle(b, tables, day, tenant, by, value) ==
    LET handle == IF by = "id" THEN Accepted([id |-> value]) ELSE
                  IF by = "corr" THEN RequiredRun(b, tables, tenant, "corr", value)
                  ELSE LET m == RequiredMapping(b, tables, tenant, value)
                       IN  IF IsRefused(m) THEN m ELSE Accepted([id |-> m.value.run])
        cleaned == Cleaned(b, tables, day)
    IN  IF IsRefused(handle) THEN handle
        ELSE LET run == RequiredRun(b, cleaned, tenant, "id", handle.value.id)
             IN  IF IsRefused(run) THEN run ELSE Accepted(RunSupportBundle(b, cleaned, tenant, run.value))

\* The member the current attempt recorded and published, and nothing else.
IsAuthoritative(b, tables, op) ==
    LET matching == SelectSeq(tables.edges, LAMBDA e : e.type = 4 /\ e.source = op.id
                                /\ e.tenant = op.tenant /\ e.target = op.result)
    IN  Len(matching) = 1 /\ matching[1].meta = op.attempt
        /\ \E r \in tables.runs : r.id = op.result /\ r.tenant = op.tenant

OperationSupportBundle(b, tables, day, tenant, id) ==
    LET cleaned == Cleaned(b, tables, day)
        found == FindOperation(b, cleaned, tenant, "id", id)
    IN  IF found = {} THEN Refused("DPM_ASYNC_OPERATION_NOT_FOUND")
        ELSE LET op == CHOOSE o \in found : TRUE
             IN  Accepted([status |-> op.status, member |-> IF IsAuthoritative(b, cleaned, op) THEN op.result ELSE None])

WorkflowStatus(tables, run) ==
    LET decisions == DecisionsOf(tables, run.id)
        latest == CHOOSE i \in DOMAIN decisions : decisions[i].at = decisions[Len(decisions)].at
                    /\ \A j \in 1..(i - 1) : decisions[j].at < decisions[i].at
    IN  IF run.status # "PENDING_REVIEW" THEN "NOT_REQUIRED"
        ELSE IF decisions = <<>> THEN "PENDING_REVIEW"
        ELSE CASE decisions[latest].action = "APPROVE" -> "APPROVED"
               [] decisions[latest].action = "REJECT" -> "REJECTED"
               [] OTHER -> "PENDING_REVIEW"

\* Workflow reads do not remove anything first.
Workflow(b, tables, tenant, by, value) ==
    LET run == ByHandle(b, tables, tenant, by, value)
    IN  IF IsRefused(run) THEN run
        ELSE Accepted([run |-> run.value.id, status |-> WorkflowStatus(tables, run.value),
                       decisions |-> DecisionsOf(tables, run.value.id)])

IdempotencyHistory(b, tables, day, tenant, key) ==
    LET rows == History(b, CleanupSupportability(b, tables, day), tenant, key)
    IN  IF rows = <<>> THEN Refused("DPM_IDEMPOTENCY_KEY_NOT_FOUND") ELSE Accepted(rows)

-----------------------------------------------------------------------------
(* The routes: switched off is 404, an unknown query parameter 422.         *)

Gated(surfaces, q, answer) ==
    IF ~(surfaces \subseteq Features) THEN Refused("404")
    ELSE IF q.extra THEN Refused("422") ELSE answer

GetRunByRunId(b, tables, day, q) ==
    Gated({"SUPPORT"}, q, RequiredRun(b, CleanupSupportability(b, tables, day), q.tenant, "id", q.value))

GetRunByCorrelation(b, tables, day, q) ==
    Gated({"SUPPORT"}, q, RequiredRun(b, CleanupSupportability(b, tables, day), q.tenant, "corr", q.value))

GetRunByRequestHash(b, tables, day, q) ==
    Gated({"SUPPORT"}, q, RequiredRun(b, CleanupSupportability(b, tables, day), q.tenant, "hash", q.value))

IdempotencyLookupRoute(b, tables, day, q) ==
    Gated({"SUPPORT"}, q, RequiredMapping(b, CleanupSupportability(b, tables, day), q.tenant, q.value))

IdempotencyHistoryRoute(b, tables, day, q) ==
    Gated({"SUPPORT", "HISTORY"}, q, IdempotencyHistory(b, tables, day, q.tenant, q.value))

SupportBundleByRun(b, tables, day, q) ==
    Gated({"SUPPORT", "BUNDLE"}, q, SupportBundle(b, tables, day, q.tenant, "id", q.value))

SupportBundleByCorrelation(b, tables, day, q) ==
    Gated({"SUPPORT", "BUNDLE"}, q, SupportBundle(b, tables, day, q.tenant, "corr", q.value))

SupportBundleByIdempotency(b, tables, day, q) ==
    Gated({"SUPPORT", "BUNDLE"}, q, SupportBundle(b, tables, day, q.tenant, "key", q.value))

OperationBundleRoute(b, tables, day, q) ==
    Gated({"SUPPORT", "BUNDLE"}, q, OperationSupportBundle(b, tables, day, q.tenant, q.value))

WorkflowRoute(b, tables, day, q) ==
    Gated({"SUPPORT", "WORKFLOW"}, q, Workflow(b, tables, q.tenant, q.by, q.value))

WorkflowHistoryRoute(b, tables, day, q) ==
    LET answer == Workflow(b, tables, q.tenant, q.by, q.value)
    IN  Gated({"SUPPORT", "WORKFLOW"}, q, IF IsRefused(answer) THEN answer ELSE Accepted(answer.value.decisions))

DecisionsRoute(b, tables, day, q) ==
    Gated({"SUPPORT", "WORKFLOW"}, q,
          Accepted(DecisionPage(b, CleanupSupportability(b, tables, day), q.value, "", PageLimit, q.cursor)))

LineageRoute(b, tables, day, q) ==
    Gated({"SUPPORT", "LINEAGE"}, q,
          Accepted(LineagePage(CleanupSupportability(b, tables, day), q.value, None, PageLimit, <<>>)))

RunsRoute(b, tables, day, q) ==
    Gated({"SUPPORT"}, q, Accepted(RunPage(b, CleanupSupportability(b, tables, day), q.tenant,
                                           NoFilter, PageLimit, q.cursor)))

OperationsRoute(b, tables, day, q) ==
    Gated({"SUPPORT", "ASYNC"}, q, Accepted(OperationPage(b, CleanupOperations(b, tables, day), q.tenant,
                                                          NoFilter, PageLimit, q.cursor)))

OperationRoute(b, tables, day, q) ==
    Gated({"SUPPORT", "ASYNC"}, q, Accepted(FindOperation(b, CleanupOperations(b, tables, day), q.tenant, q.by, q.value)))

SummaryRoute(b, tables, day, q) ==
    Gated({"SUPPORT", "SUMMARY"}, q, Accepted(Summary(b, tables, q.by, {1}, day)))

Answer(b, tables, day, q) ==
    CASE q.route = "RUN" -> GetRunByRunId(b, tables, day, q)
      [] q.route = "CORRELATION" -> GetRunByCorrelation(b, tables, day, q)
      [] q.route = "HASH" -> GetRunByRequestHash(b, tables, day, q)
      [] q.route = "KEY" -> IdempotencyLookupRoute(b, tables, day, q)
      [] q.route = "HISTORY" -> IdempotencyHistoryRoute(b, tables, day, q)
      [] q.route = "RUN_BUNDLE" -> SupportBundleByRun(b, tables, day, q)
      [] q.route = "CORRELATION_BUNDLE" -> SupportBundleByCorrelation(b, tables, day, q)
      [] q.route = "KEY_BUNDLE" -> SupportBundleByIdempotency(b, tables, day, q)
      [] q.route = "OPERATION_BUNDLE" -> OperationBundleRoute(b, tables, day, q)
      [] q.route = "WORKFLOW" -> WorkflowRoute(b, tables, day, q)
      [] q.route = "WORKFLOW_HISTORY" -> WorkflowHistoryRoute(b, tables, day, q)
      [] q.route = "DECISIONS" -> DecisionsRoute(b, tables, day, q)
      [] q.route = "LINEAGE" -> LineageRoute(b, tables, day, q)
      [] q.route = "RUNS" -> RunsRoute(b, tables, day, q)
      [] q.route = "OPERATIONS" -> OperationsRoute(b, tables, day, q)
      [] q.route = "OPERATION" -> OperationRoute(b, tables, day, q)
      [] q.route = "SUMMARY" -> SummaryRoute(b, tables, day, q)

-----------------------------------------------------------------------------
(* Commands.                                                                *)

\* What a handler removes before its first write.
Cleanup(b, tables, command, day) ==
    CASE command.op = "RECORD" /\ command.run.key # None /\ command.run.tenant = "" -> tables
      [] command.op \in {"RECORD", "SCENARIO", "DECIDE", "ARTIFACT"} -> CleanupSupportability(b, tables, day)
      [] command.op \in {"SUBMIT", "CLAIM"} -> CleanupOperations(b, tables, day)
      [] command.op = "READ" -> Cleaned(b, tables, day)
      [] OTHER -> tables

RecordRun(b, tables, run) ==
    IF run.key # None /\ run.tenant = "" THEN Refused("DPM_RUN_TENANT_REQUIRED_FOR_IDEMPOTENCY")
    ELSE InsertRun(b, tables, run, TRUE)

RecordScenarioRun(b, tables, run, op, attempt) ==
    SaveRunWithLineage(b, tables, run,
        {Edge(run.tenant, run.corr, 1, run.id, run.at, 0), Edge(run.tenant, op, 4, run.id, run.at, attempt)})

SubmitAnalyzeAsync(b, tables, op) ==
    IF FindOperation(b, tables, op.tenant, "corr", op.corr) # {}
    THEN Refused("DPM_ASYNC_OPERATION_CORRELATION_CONFLICT") ELSE SaveOperation(b, tables, op)

\* Publishing the same outcome again is no error.
CompleteOperation(b, tables, tenant, id, attempt, result, day) ==
    LET published == IF b = "lite" THEN LitePublishOperation(tables, tenant, id, attempt, result, day)
                     ELSE MemPublishOperation(tables, tenant, id, attempt, result, day)
    IN  IF ~IsRefused(published) THEN published
        ELSE IF \E o \in tables.ops : o.id = id /\ o.tenant = tenant /\ o.attempt = attempt
                    /\ o.status \in {"SUCCEEDED", "FAILED"} /\ o.result = result
        THEN Accepted(tables) ELSE published

\* An action on a run, and the first read of its artifact, check the run first.
ChecksRun(b, tables, id) ==
    LET run == RequiredRun(b, tables, "", "id", id) IN IF IsRefused(run) THEN run ELSE Accepted(tables)

\* The run or operation a command is about, stamped with the time it begins.
Subject(command, day) ==
    CASE command.op \in {"RECORD", "SCENARIO"} -> [command.run EXCEPT !.at = day]
      [] command.op = "SUBMIT" -> [command.operation EXCEPT !.at = day]
      [] OTHER -> [id |-> command.run]

\* The first transaction of a command.
Apply(b, tables, command, day) ==
    CASE command.op = "RECORD" -> RecordRun(b, tables, Subject(command, day))
      [] command.op = "SCENARIO" -> RecordScenarioRun(b, tables, Subject(command, day), command.id, command.attempt)
      [] command.op = "SUBMIT" -> SubmitAnalyzeAsync(b, tables, Subject(command, day))
      [] command.op \in {"DECIDE", "ARTIFACT"} -> ChecksRun(b, tables, command.run)
      [] command.op = "CLAIM" -> IF b = "lite" THEN LiteClaimOperation(tables, command.tenant, command.id, day)
                                 ELSE MemClaimOperation(tables, command.tenant, command.id, day)
      [] command.op = "COMPLETE" ->
            CompleteOperation(b, tables, command.tenant, command.id, command.attempt, command.result, day)
      [] command.op = "READ" -> Accepted(tables)

\* The writes that follow, each in a transaction of its own.
FollowUps(command) ==
    CASE command.op = "RECORD" ->
            <<"ARTIFACT", "CORRELATION">> \o (IF command.run.key = None THEN <<>> ELSE <<"MAPPING", "HISTORY", "KEY">>)
      [] command.op \in {"SCENARIO", "ARTIFACT"} -> <<"ARTIFACT">>
      [] command.op = "SUBMIT" -> <<"OPERATION">>
      [] command.op = "DECIDE" -> <<"DECISION">>
      [] OTHER -> <<>>

FollowUp(b, tables, subject, write, day, number) ==
    CASE write = "ARTIFACT" -> SaveArtifact(tables, subject.id)
      [] write = "CORRELATION" -> AppendLineageEdge(b, tables, Edge(subject.tenant, subject.corr, 1, subject.id, subject.at, 0))
      [] write = "MAPPING" -> SaveIdempotencyMapping(b, tables, Mapping(subject))
      [] write = "HISTORY" -> AppendIdempotencyHistory(b, tables, HistoryRow(subject))
      [] write = "KEY" -> AppendLineageEdge(b, tables, Edge(subject.tenant, subject.key, 2, subject.id, subject.at, 0))
      [] write = "OPERATION" -> AppendLineageEdge(b, tables, Edge(subject.tenant, subject.id, 3, subject.corr, subject.at, 0))
      [] write = "DECISION" -> AppendDecision(tables, Decision(81 + number, subject.id, "APPROVE", "pm", day))

-----------------------------------------------------------------------------
(* The system.                                                              *)

WalkAt(tables, walker) ==
    [cursor |-> None, seen |-> <<>>, done |-> FALSE, start |-> {r.id : r \in {q \in tables.runs : walker \in {"", q.tenant}}}]

Init ==
    \E workload \in Workloads :
        /\ store = [b \in Backends |-> Tables]
        /\ calls = [todo |-> workload.commands, walker |-> workload.walker, walk |-> <<>>, flights |-> <<>>,
                    room |-> workload.room, day |-> 1, whole |-> {}, late |-> {}, shared |-> {}, decided |-> 0, crashes |-> 0]
        /\ replies = [b \in Backends |-> <<>>]

\* Runs that stay when one with their correlation or key expires.
SharingWithExpired(cleaned) ==
    UNION {{<<b, r.id>> : r \in {q \in cleaned[b].runs : \E g \in store[b].runs \ cleaned[b].runs :
                                    g.corr = q.corr \/ (g.key # None /\ g.key = q.key)}} : b \in Backends}

\* A command's first transaction; a backend that refuses it gets no other write,
\* and neither does one that has the artifact already.
Serve ==
    /\ calls.todo # <<>>
    /\ LET command == Head(calls.todo)
           cleaned == [b \in Backends |-> Cleanup(b, store[b], command, calls.day)]
           after == [b \in Backends |-> Apply(b, cleaned[b], command, calls.day)]
           on == {b \in Backends : ~IsRefused(after[b]) /\ (command.op = "ARTIFACT" => command.run \notin cleaned[b].artifacts)}
           follows == FollowUps(command) # <<>> /\ on # {}
       IN  /\ follows => Len(calls.flights) < calls.room
           /\ store' = [b \in Backends |-> IF IsRefused(after[b]) THEN cleaned[b] ELSE after[b].value]
           /\ replies' = [b \in Backends |-> Append(replies[b], after[b].refused)]
           /\ calls' = [calls EXCEPT !.todo = Tail(@), !.shared = @ \cup SharingWithExpired(cleaned),
                !.flights = IF ~follows THEN @ ELSE Append(@,
                    [op |-> command.op, subject |-> Subject(command, calls.day), left |-> FollowUps(command), on |-> on])]

\* The next write of a command under way, whatever happened in between.
Proceed ==
    \E i \in DOMAIN calls.flights :
        LET flight == calls.flights[i]
            write == Head(flight.left)
            left == Tail(flight.left)
        IN  /\ store' = [b \in Backends |-> IF b \notin flight.on THEN store[b]
                            ELSE FollowUp(b, store[b], flight.subject, write, calls.day, calls.decided)]
            /\ calls' = [calls EXCEPT
                !.flights = IF left = <<>> THEN RemoveAt(@, i) ELSE [@ EXCEPT ![i].left = left],
                !.decided = IF write = "DECISION" THEN @ + 1 ELSE @,
                !.whole = IF left = <<>> /\ flight.op \in {"RECORD", "SCENARIO"} THEN @ \cup {flight.subject.id} ELSE @,
                !.late = @ \cup {<<b, write, flight.subject.id>> :
                                    b \in {c \in flight.on : \A r \in store[c].runs : r.id # flight.subject.id}}]
            /\ UNCHANGED replies

\* The process dies; what it still had to write is never written.
Die ==
    /\ calls.crashes < MaxCrashes
    /\ \E i \in DOMAIN calls.flights : calls' = [calls EXCEPT !.flights = RemoveAt(@, i), !.crashes = @ + 1]
    /\ UNCHANGED <<store, replies>>

\* The next page of the run inventory, from the cursor of the last.
NextPage(b, tables, walk) ==
    LET page == RunPage(b, tables, calls.walker, NoFilter, PageLimit, walk.cursor)
    IN  IF walk.done THEN walk
        ELSE [walk EXCEPT !.cursor = page.next, !.done = page.next = None,
                          !.seen = @ \o [i \in DOMAIN page.rows |-> page.rows[i].id]]

Walk ==
    /\ calls.walker # "NOBODY"
    /\ LET cleaned == [b \in Backends |-> CleanupSupportability(b, store[b], calls.day)]
           walk == IF calls.walk = <<>> THEN [b \in Backends |-> WalkAt(cleaned[b], calls.walker)] ELSE calls.walk
       IN  /\ \E b \in Backends : ~walk[b].done
           /\ store' = cleaned
           /\ calls' = [calls EXCEPT !.walk = [b \in Backends |-> NextPage(b, cleaned[b], walk[b])],
                                     !.shared = @ \cup SharingWithExpired(cleaned)]
    /\ UNCHANGED replies

Tick ==
    /\ calls.day < MaxDay
    /\ calls' = [calls EXCEPT !.day = @ + 1]
    /\ UNCHANGED <<store, replies>>

Next == Serve \/ Proceed \/ Die \/ Walk \/ Tick

-----------------------------------------------------------------------------
(* Properties.                                                              *)

Tenants == {"ann", "bob"}

Query(route, tenant, by, value, cursor) ==
    [route |-> route, tenant |-> tenant, by |-> by, value |-> value, cursor |-> cursor, extra |-> FALSE]

\* What either tenant asks: every handle of every run and operation, and every page.
Queries ==
    LET runs == UNION {store[b].runs : b \in Backends}
        ids == {r.id : r \in runs}
    IN  UNION {
        {Query(route, t, "", i, None) : route \in {"RUN", "RUN_BUNDLE"}, t \in Tenants, i \in ids},
        {Query("HASH", t, "", r.hash, None) : t \in Tenants, r \in runs},
        {Query(route, t, "", r.corr, None) : route \in {"CORRELATION", "CORRELATION_BUNDLE"}, t \in Tenants, r \in runs},
        {Query("KEY_BUNDLE", t, "", r.key, None) : t \in Tenants, r \in runs},
        {Query("KEY", t, "", r.key, None) : t \in Tenants, r \in runs},
        {Query("HISTORY", t, "", r.key, None) : t \in Tenants, r \in runs},
        {Query("WORKFLOW", t, "key", r.key, None) : t \in Tenants, r \in runs},
        {Query("WORKFLOW_HISTORY", t, "corr", r.corr, None) : t \in Tenants, r \in runs},
        {Query("LINEAGE", "", "", r.corr, None) : r \in runs},
        {Query("RUNS", t, "", None, c) : t \in Tenants, c \in ids \cup {None}},
        {Query("OPERATION_BUNDLE", t, "", o.id, None) : t \in Tenants, o \in store["mem"].ops}}

UnscopedQueries ==
    {Query("DECISIONS", "", "", i, None) : i \in {None} \cup {r.id : r \in store["mem"].runs}}
        \cup {Query("SUMMARY", "", p, None, None) : p \in {"", "P1"}}
        \cup {Query("OPERATIONS", t, "", None, c) : t \in Tenants, c \in {None} \cup {o.id : o \in store["mem"].ops}}
        \cup {Query("OPERATION", t, "corr", o.corr, None) : t \in Tenants, o \in store["mem"].ops}

\* An answer with its history in the order of the rows' days: memory lists the
\* history of a key as it was written, the databases as it was stamped, and these
\* differ when two commands under one key overlap.
ByStamp(q, answer) ==
    IF IsRefused(answer) THEN answer
    ELSE IF q.route = "HISTORY" THEN [answer EXCEPT !.value = ByDay(@)]
    ELSE IF q.route \in {"RUN_BUNDLE", "CORRELATION_BUNDLE", "KEY_BUNDLE"} THEN [answer EXCEPT !.value.history = ByDay(@)]
    ELSE answer

\* Repositories that accepted the same commands answer every route of the run
\* supportability API alike, pages and expired rows included, up to the order of
\* a key's history; SQLite keeps no tenants, so it answers alike where none are
\* needed.
BackendsAgree ==
    /\ replies["pg"] = replies["mem"] =>
        \A q \in Queries \cup UnscopedQueries :
            ByStamp(q, Answer("pg", store["pg"], calls.day, q)) = ByStamp(q, Answer("mem", store["mem"], calls.day, q))
    /\ replies["pg"] = replies["lite"] =>
        \A q \in UnscopedQueries :
            Answer("pg", store["pg"], calls.day, q) = Answer("lite", store["lite"], calls.day, q)

\* What a backend keeps of runs, by the write that put it there.
EvidenceRows(t) ==
    {<<"ARTIFACT", id>> : id \in t.artifacts} \cup {<<"DECISION", d.run>> : d \in ToSet(t.decisions)}
        \cup {<<"MAPPING", m.run>> : m \in ToSet(t.maps)} \cup {<<"HISTORY", h.run>> : h \in ToSet(t.history)}
        \cup {<<"CORRELATION", e.target>> : e \in {f \in ToSet(t.edges) : f.type = 1}}
        \cup {<<"KEY", e.target>> : e \in {f \in ToSet(t.edges) : f.type = 2}}
        \cup {<<"MEMBER", e.target>> : e \in {f \in ToSet(t.edges) : f.type = 4}}

\* A run that expires takes its artifact, decisions, mapping, history and lineage
\* with it (purge_expired_runs): only a write that came when the run was gone, by
\* a command that began before, leaves a row of a run that is not kept.  A run
\* recorded whole keeps its artifact and history while it is kept, and its
\* lineage and its key's mapping too unless a run with its correlation or key
\* expired meanwhile, of whichever tenant.
EvidenceIsRetained ==
    \A b \in Backends :
        LET t == store[b] IN
        /\ \A row \in EvidenceRows(t) : (\E r \in t.runs : r.id = row[2]) \/ <<b, row[1], row[2]>> \in calls.late
        /\ \A m \in ToSet(t.maps) \cup ToSet(t.history), r \in t.runs : r.id = m.run => r.key = m.key /\ r.tenant = m.tenant
        /\ \A r \in t.runs : r.id \in calls.whole =>
                /\ <<"ARTIFACT", r.id>> \in EvidenceRows(t)
                /\ r.key # None => <<"HISTORY", r.id>> \in EvidenceRows(t)
                /\ <<b, r.id>> \notin calls.shared =>
                        /\ <<"CORRELATION", r.id>> \in EvidenceRows(t)
                        /\ r.key # None => <<"KEY", r.id>> \in EvidenceRows(t) /\ FindMapping(b, t, r.tenant, r.key) # {}

\* A finished walk through the pages of the run inventory showed every run that
\* was there from its first page to its last, once, although retention removes
\* rows, the cursor's own among them, between two pages (list_runs).
WalkMissesNothing ==
    calls.walk # <<>> =>
        \A b \in Backends :
            /\ \A i, j \in DOMAIN calls.walk[b].seen : calls.walk[b].seen[i] = calls.walk[b].seen[j] => i = j
            /\ calls.walk[b].done =>
                (calls.walk[b].start \cap {r.id : r \in store[b].runs}) \subseteq ToSet(calls.walk[b].seen)

\* A support bundle holds lineage, history and an operation of the tenant that
\* asked, also when both tenants used the same correlation or key.
TenantsAreSeparate ==
    \A b \in {"pg", "mem"}, t \in Tenants : \A r \in store[b].runs :
        LET answer == SupportBundle(b, store[b], calls.day, t, "id", r.id)
        IN  IF r.tenant # t THEN IsRefused(answer)
            ELSE ~IsRefused(answer) =>
                /\ \A i \in DOMAIN answer.value.lineage : answer.value.lineage[i].tenant = t
                /\ \A i \in DOMAIN answer.value.history : answer.value.history[i].tenant = t
                /\ \A o \in answer.value.operation : \E p \in store[b].ops : p.id = o /\ p.tenant = t

=============================================================================
