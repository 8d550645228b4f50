------------------------------ MODULE Mandates ------------------------------
(***************************************************************************)
(* Mandates and monitoring: refresh from core, recalculation, monitoring   *)
(* runs and the resolution of exceptions, down to the stores.              *)
(*                                                                         *)
(* A handler writes its twin, its health snapshot, each exception and the  *)
(* run in transactions of their own, and other processes work in between;  *)
(* a process may die between two of them.  PostgreSQL and the in-memory    *)
(* repository serve the same requests side by side.                        *)
(***************************************************************************)
EXTENDS MandateHealth, TLC

CONSTANTS
    Clients,       \* concurrent callers, each in a process of its own
    Workloads,     \* the commands each caller sends, and the legacy rows stored
    MaxCrashes     \* how many processes die in mid-request

VARIABLES
    store,     \* the tables of each backend
    calls,     \* the commands left, the request each client has open, the clock
    replies    \* history: the acknowledged requests

vars == <<store, calls, replies>>

Backends == {"pg", "mem"}

-----------------------------------------------------------------------------
(* Snapshots of the twin, one for each tenant, mandate, version and date.   *)

TwinRow(tenant, twin, producer) == [tenant |-> tenant, twin |-> twin, producer |-> producer]

TwinKey(row) == <<row.tenant, row.twin.mandate, row.twin.version, row.twin.asOf>>

PgSaveMandateSnapshot(tables, row) ==
    [tables EXCEPT !.twins = {r \in @ : TwinKey(r) # TwinKey(row)} \cup {row}]

\* The in-memory store does not keep who produced the twin.
MemSaveMandateSnapshot(tables, row) ==
    PgSaveMandateSnapshot(tables, [row EXCEPT !.producer = "NOT_KEPT"])

\* Newest first: business date, then version, then mandate.
TwinBefore(r, s) ==
    \/ r.twin.asOf < s.twin.asOf
    \/ r.twin.asOf = s.twin.asOf /\ VersionBefore(r.twin.version, s.twin.version)
    \/ /\ r.twin.asOf = s.twin.asOf /\ r.twin.version = s.twin.version
       /\ r.twin.mandate < s.twin.mandate

LatestTwin(rows) == CHOOSE r \in rows : \A s \in rows \ {r} : TwinBefore(s, r)

TwinRead(rows) ==
    IF rows = {} THEN Refused("DPM_MANDATE_NOT_FOUND")
    ELSE Accepted(EffectiveTwin(LatestTwin(rows).twin))

GetLatestMandate(tables, tenant, mandate) ==
    TwinRead({r \in tables.twins : r.tenant = tenant /\ r.twin.mandate = mandate})

GetLatestMandateByPortfolio(tables, tenant, portfolio) ==
    TwinRead({r \in tables.twins : r.tenant = tenant /\ r.twin.portfolio = portfolio})

GetMandateByPortfolioAsOf(tables, tenant, portfolio, asOf) ==
    TwinRead({r \in tables.twins : r.tenant = tenant /\ r.twin.portfolio = portfolio /\ r.twin.asOf <= asOf})

ListMandateVersions(tables, tenant, mandate) ==
    LET rows == {r \in tables.twins : r.tenant = tenant /\ r.twin.mandate = mandate}
        newest == SetToSortSeq(rows, LAMBDA r, s : TwinBefore(s, r))
    IN  [k \in DOMAIN newest |-> EffectiveTwin(newest[k].twin)]

\* The newest observation against the newest of another version.
LatestDiffPair(versions) ==
    LET others == {k \in DOMAIN versions : versions[k].version # versions[1].version} IN
    IF versions = <<>> \/ others = {} THEN Refused("DPM_MANDATE_DIFF_REQUIRES_TWO_VERSIONS")
    ELSE Accepted(<<versions[Min(others)], versions[1]>>)

RequestedDiffPair(versions, from, to) ==
    LET Of(v) == {k \in DOMAIN versions : versions[k].version = v} IN
    IF from = <<>> \/ to = <<>> THEN Refused("DPM_MANDATE_DIFF_REQUIRES_TWO_VERSIONS")
    ELSE IF Of(from) = {} \/ Of(to) = {} THEN Refused("DPM_MANDATE_DIFF_VERSION_NOT_FOUND")
    ELSE Accepted(<<versions[Min(Of(from))], versions[Min(Of(to))]>>)

DiffPair(versions, from, to) ==
    IF from # <<>> \/ to # <<>> THEN RequestedDiffPair(versions, from, to)
    ELSE LatestDiffPair(versions)

ChangedFields(previous, current) == {f \in DOMAIN previous : previous[f] # current[f]}

DiffMandateVersions(tables, tenant, mandate, from, to) ==
    LET versions == ListMandateVersions(tables, tenant, mandate)
        pair == DiffPair(versions, from, to) IN
    IF versions = <<>> THEN Refused("DPM_MANDATE_NOT_FOUND")
    ELSE IF IsRefused(pair) THEN pair
    ELSE Accepted([from |-> pair.value[1], to |-> pair.value[2],
                   changed |-> ChangedFields(pair.value[1], pair.value[2])])

-----------------------------------------------------------------------------
(* Health snapshots, exceptions and runs.  In PostgreSQL an update leaves   *)
(* some columns as they were first inserted, and the reads use the columns; *)
(* owner is history, the tenant the payload was computed for.              *)

Put(table, row) == {r \in table : r.key # row.key} \cup {row}

StoredAt(table, key) == CHOOSE r \in table : r.key = key

Holds(table, key) == \E r \in table : r.key = key

HealthRow(tenant, snapshot, at) ==
    [key |-> snapshot.id, tenant |-> tenant, mandate |-> snapshot.mandate, snapshot |-> snapshot,
     owner |-> tenant, at |-> at]

PgSaveHealth(tables, row) ==
    LET kept == IF Holds(tables.health, row.key) THEN StoredAt(tables.health, row.key) ELSE row IN
    [tables EXCEPT !.health = Put(@, [row EXCEPT !.tenant = kept.tenant, !.mandate = kept.mandate])]

MemSaveHealth(tables, row) ==
    [tables EXCEPT !.health = Put(@, [row EXCEPT !.key = <<row.tenant, row.snapshot.id>>])]

ExceptionRow(tenant, exception, at) ==
    [key |-> exception.id, tenant |-> tenant, run |-> exception.run, mandate |-> exception.mandate,
     portfolio |-> exception.portfolio, at |-> at, exception |-> exception, owner |-> tenant]

PgSaveException(tables, row) ==
    LET kept == IF Holds(tables.exceptions, row.key) THEN StoredAt(tables.exceptions, row.key) ELSE row IN
    [tables EXCEPT !.exceptions = Put(@, [kept EXCEPT !.exception = row.exception, !.owner = row.owner])]

MemSaveException(tables, row) ==
    [tables EXCEPT !.exceptions = Put(@, [row EXCEPT !.key = <<row.tenant, row.exception.id>>])]

RunRow(run) == [key |-> run.id, tenant |-> run.tenant, at |-> run.requested, run |-> run]

PgSaveRun(tables, row) ==
    LET kept == IF Holds(tables.runs, row.key) THEN StoredAt(tables.runs, row.key) ELSE row IN
    [tables EXCEPT !.runs = Put(@, [kept EXCEPT !.run = row.run])]

MemSaveRun(tables, row) == [tables EXCEPT !.runs = Put(@, row)]

\* A page of rows, newest first, after the cursor; a cursor not among them ends it.
PageAfter(rows, cursor, limit) ==
    LET newest == SetToSortSeq(rows, LAMBDA r, q : r.at > q.at)
        at == {k \in DOMAIN newest : newest[k].key \in cursor}
        start == IF cursor = {} THEN 0 ELSE IF at = {} THEN Len(newest) ELSE Min(at)
    IN  [k \in 1..Min({limit, Len(newest) - start}) |-> newest[k + start]]

\* A run is visible when its column, its payload and its filters name the caller.
VisibleRuns(tables, tenant) ==
    {r \in tables.runs : r.tenant = tenant /\ r.run.tenant = tenant /\ r.run.filters.tenant = tenant}

GetMonitoringRun(tables, tenant, id) ==
    LET rows == {r \in VisibleRuns(tables, tenant) : r.key = id} IN
    IF rows = {} THEN Refused("DPM_MONITORING_RUN_NOT_FOUND") ELSE Accepted((CHOOSE r \in rows : TRUE).run)

ListMonitoringRuns(tables, tenant, cursor, limit) ==
    PageAfter(VisibleRuns(tables, tenant), cursor, limit)

ListMonitoringExceptions(tables, tenant, run, state) ==
    {r \in tables.exceptions :
        r.tenant = tenant /\ (run # 0 => r.run = run) /\ r.exception.state = state}

LatestCommandCenterRun(tables, tenant, manager, asOf) ==
    LET runs == ListMonitoringRuns(tables, tenant, {}, 200)
        matching == {k \in DOMAIN runs : /\ asOf = Undated \/ runs[k].run.asOf = asOf
                                         /\ manager = "" \/ runs[k].run.filters.manager = manager}
    IN  IF matching = {} THEN {} ELSE {runs[Min(matching)].run}

PartialReasons(latest, manager, shown, limit) ==
    (IF latest = {} THEN {"NO_MONITORING_RUN"} ELSE {})
        \cup (IF manager = "" THEN {"PM_BOOK_DISCOVERY_NOT_YET_SOURCED"} ELSE {})
        \cup (IF Cardinality(shown) >= limit THEN {"ATTENTION_QUEUE_LIMIT_REACHED"} ELSE {})

SupportabilityState(latest, partial) ==
    LET states == UNION {DOMAIN r.readiness : r \in latest} IN
    CASE latest = {} -> "EMPTY"
      [] latest # {} /\ states \cap {"INCOMPLETE", "UNAVAILABLE", "BLOCKED"} # {} -> "BLOCKED"
      [] OTHER -> IF states \cap {"DEGRADED", "STALE"} # {} THEN "DEGRADED"
                  ELSE IF partial # {} THEN "PARTIAL" ELSE "READY"

AttentionBuckets(shown) ==
    LET Bucket(x) == <<x.dimension, x.severity, x.action>>
    IN  [b \in {Bucket(r.exception) : r \in shown} |->
            Cardinality({r \in shown : Bucket(r.exception) = b})]

CommandCenter(tables, tenant, manager, asOf, limit) ==
    LET latest == LatestCommandCenterRun(tables, tenant, manager, asOf)
        active == ListMonitoringExceptions(tables, tenant,
                      IF latest = {} THEN 0 ELSE (CHOOSE r \in latest : TRUE).id, "ACTIVE")
        page == PageAfter(active, {}, limit)
        shown == {page[k] : k \in DOMAIN page}
        partial == PartialReasons(latest, manager, shown, limit)
    IN  [run |-> latest, exceptions |-> {r.exception : r \in shown}, buckets |-> AttentionBuckets(shown),
         state |-> SupportabilityState(latest, partial)]

-----------------------------------------------------------------------------
(* The requests.  A tenant is stated as text and padding.                   *)

NormaliseTenant(stated) == stated[1]

TenantRefusal(cmd) ==
    FirstRefusal(<<IF NormaliseTenant(cmd.header) = "" THEN "TENANT_REQUIRED" ELSE "NO",
                   IF NormaliseTenant(cmd.tenant) # NormaliseTenant(cmd.header) THEN "TENANT_MISMATCH" ELSE "NO">>)

Init ==
    /\ \E w \in Workloads :
          /\ store = [b \in Backends |->
                        [twins |-> {IF b = "pg" THEN r ELSE [r EXCEPT !.producer = "NOT_KEPT"] : r \in w.legacy},
                         health |-> {}, exceptions |-> {}, runs |-> {}]]
          /\ calls = [clock |-> 0, left |-> w.commands, open |-> [c \in Clients |-> <<>>], crashes |-> 0]
    /\ replies = {}

SaveTwin(tenant, twin, producer) == <<[kind |-> "twin", row |-> TwinRow(tenant, twin, producer)]>>

SaveHealth(tenant, snapshot, at) == <<[kind |-> "health", row |-> HealthRow(tenant, snapshot, at)]>>

SaveException(tenant, exception, at) ==
    [kind |-> "exception", row |-> ExceptionRow(tenant, exception, at)]

\* Health, then each exception, in transactions of their own.
HealthWrites(tenant, snapshot, exceptions, at) ==
    SaveHealth(tenant, snapshot, at)
        \o [k \in DOMAIN exceptions |-> SaveException(tenant, exceptions[k], at)]

HealthEvidence(tenant, input, at) ==
    LET snapshot == CalculateHealth(input, tenant)
    IN  HealthWrites(tenant, snapshot, MonitoringExceptions(snapshot, tenant), at)

\* The twin and the products of core, or why they cannot be had.
RefreshResult(cmd) ==
    CASE cmd.core.answer = "UNAVAILABLE" -> Refused("DPM_MANDATE_SOURCE_UNAVAILABLE")
      [] cmd.core.answer = "INCOMPLETE" -> Refused("DPM_MANDATE_SOURCE_INCOMPLETE")
      [] OTHER -> Accepted(CompileTwin(cmd.core, cmd.asOf))

PrepareRefresh(tables, cmd, at) ==
    LET tenant == NormaliseTenant(cmd.header)
        twin == RefreshResult(cmd) IN
    IF TenantRefusal(cmd) # "NO" THEN Refused(TenantRefusal(cmd))
    ELSE IF IsRefused(twin) THEN twin
    ELSE Accepted(SaveTwin(tenant, twin.value, "CORE_COMPILED")
                    \o HealthEvidence(tenant, HealthInputFromCore(cmd.core, twin.value), at))

\* The stored snapshot a recalculation of ambiguous limits must rest on.
RetainedProjection(tables, twin, tenant) ==
    LET stored == {r \in tables.twins : TwinKey(r) = TwinKey(TwinRow(tenant, twin, ""))}
        ambiguous == \E r \in stored : Ambiguous \in r.twin.gaps
        refused == Refused("DPM_MANDATE_AMBIGUOUS_SNAPSHOT_NOT_FOUND") IN
    IF ambiguous
    THEN IF \E r \in stored : r.twin.portfolio # twin.portfolio THEN refused
         ELSE Accepted({EffectiveTwin(r.twin) : r \in stored})
    ELSE IF Ambiguous \in twin.gaps THEN refused ELSE Accepted({})

\* Mutant: the caller's twin is saved over the retained one.
PrepareRecalculateOver(tables, cmd, at) ==
    LET tenant == NormaliseTenant(cmd.tenant) IN
    IF cmd.input.twin.mandate # cmd.mandate THEN Refused("DPM_MANDATE_HEALTH_INPUT_MISMATCH")
    ELSE Accepted(SaveTwin(tenant, cmd.input.twin, "CALLER_SUPPLIED") \o HealthEvidence(tenant, cmd.input, at))

PrepareRecalculate(tables, cmd, at) ==
    LET tenant == NormaliseTenant(cmd.tenant)
        retained == RetainedProjection(tables, cmd.input.twin, tenant)
        twins == IF retained.value = {} THEN {cmd.input.twin} ELSE retained.value
        twin == CHOOSE t \in twins : TRUE IN
    IF cmd.input.twin.mandate # cmd.mandate THEN Refused("DPM_MANDATE_HEALTH_INPUT_MISMATCH")
    ELSE IF IsRefused(retained) THEN retained
    ELSE Accepted((IF Ambiguous \in twin.gaps THEN <<>> ELSE SaveTwin(tenant, twin, "CALLER_SUPPLIED"))
                    \o HealthEvidence(tenant, [cmd.input EXCEPT !.twin = twin], at))

\* The mandates of a run: those named, or those of the manager's book.
BookMandates(tables, tenant, portfolios) ==
    LET Of(p) == GetLatestMandateByPortfolio(tables, tenant, p) IN
    IF \E k \in DOMAIN portfolios : IsRefused(Of(portfolios[k]))
    THEN Refused("DPM_PM_BOOK_MANDATE_SNAPSHOT_MISSING")
    ELSE Accepted([k \in DOMAIN portfolios |-> Of(portfolios[k]).value.mandate])

BookSelectorRefusal(cmd) ==
    FirstRefusal(<<IF cmd.manager = "" THEN "DPM_MONITORING_SELECTOR_REQUIRED" ELSE "NO",
                   IF cmd.book.types = {} THEN "PORTFOLIO_TYPES_REQUIRED" ELSE "NO",
                   IF cmd.book.state # "READY" THEN "BOOK_MEMBERSHIP_NOT_READY" ELSE "NO",
                   IF cmd.book.portfolios = <<>> THEN "BOOK_MEMBERSHIP_EMPTY" ELSE "NO">>)

SelectMandates(tables, cmd) ==
    IF TenantRefusal(cmd) # "NO" THEN Refused(TenantRefusal(cmd))
    ELSE IF cmd.ids # <<>> THEN Accepted(cmd.ids)
    ELSE IF BookSelectorRefusal(cmd) # "NO" THEN Refused(BookSelectorRefusal(cmd))
    ELSE BookMandates(tables, NormaliseTenant(cmd.header), cmd.book.portfolios)

Increment(distribution, key) ==
    IF key \in DOMAIN distribution THEN [distribution EXCEPT ![key] = @ + 1]
    ELSE distribution @@ (key :> 1)

\* The run so far: what its mandates were found to be.  Its id is the instant
\* it was requested at, and nothing else.
EmptyRun(cmd, ids, at) ==
    [id |-> at, tenant |-> NormaliseTenant(cmd.header), asOf |-> cmd.asOf, requested |-> at,
     mandates |-> ids, filters |-> [tenant |-> NormaliseTenant(cmd.header), manager |-> cmd.manager],
     health |-> <<>>, readiness |-> <<>>, exceptions |-> 0]

RecordResult(run, snapshot, exceptions) ==
    [run EXCEPT !.health = Increment(@, snapshot.state),
                !.readiness = Increment(@, snapshot.readiness),
                !.exceptions = @ + Len(exceptions)]

\* A monitoring run has no measurements of its own: the twin, at the date of the run.
MonitoringInput(twin, asOf) == HealthInput([twin EXCEPT !.asOf = asOf])

ExceptionsForRun(exceptions, run) == [k \in DOMAIN exceptions |-> [exceptions[k] EXCEPT !.run = run]]

-----------------------------------------------------------------------------
(* The steps of a request.                                                 *)

NoRun == [id |-> 0]

Open(c, cmd, todo, writes, run) ==
    [calls EXCEPT !.clock = @ + 1, !.left[c] = Tail(@),
                  !.open[c] = <<[cmd |-> cmd, todo |-> todo, writes |-> writes, run |-> run]>>]

Closed(c) == [calls EXCEPT !.open[c] = <<>>]

Answered(c) == [calls EXCEPT !.clock = @ + 1, !.left[c] = Tail(@)]

Reply(op, tenant, code, id) == [op |-> op, tenant |-> tenant, code |-> code, id |-> id]

Prepare(c, cmd, result) ==
    /\ store' = store
    /\ IF IsRefused(result)
       THEN /\ calls' = Answered(c)
            /\ replies' = replies \cup {Reply(cmd.op, "", result.refused, 0)}
       ELSE calls' = Open(c, cmd, <<>>, result.value, NoRun) /\ UNCHANGED replies

RefreshMandate(c, cmd) ==
    cmd.op = "REFRESH" /\ Prepare(c, cmd, PrepareRefresh(store["pg"], cmd, calls.clock + 1))

RecalculateHealth(c, cmd) ==
    cmd.op = "RECALCULATE" /\ Prepare(c, cmd, PrepareRecalculate(store["pg"], cmd, calls.clock + 1))

\* The clock of the process: a later microsecond, or the very one in which
\* another process has read its own.
Instants ==
    {calls.clock + 1} \cup {calls.open[d][1].run.id : d \in {e \in Clients :
                                calls.open[e] # <<>> /\ calls.open[e][1].run # NoRun}}

RunOnce(c, cmd) ==
    LET selected == SelectMandates(store["pg"], cmd) IN
    /\ cmd.op = "RUN_ONCE"
    /\ store' = store
    /\ IF IsRefused(selected)
       THEN /\ calls' = Answered(c)
            /\ replies' = replies \cup {Reply(cmd.op, "", selected.refused, 0)}
       ELSE /\ \E at \in Instants :
                  calls' = Open(c, cmd, selected.value, <<>>, EmptyRun(cmd, selected.value, at))
            /\ UNCHANGED replies

\* In memory one step; in PostgreSQL the exception is read here and saved later.
ResolveException(c, cmd) ==
    LET tenant == NormaliseTenant(cmd.tenant)
        Of(b) == {r \in store[b].exceptions : r.tenant = tenant /\ r.exception.id = cmd.id}
        Resolved(r) == [r EXCEPT !.exception = [@ EXCEPT !.state = "RESOLVED"], !.owner = tenant] IN
    /\ cmd.op = "RESOLVE"
    /\ store' = [store EXCEPT !["mem"].exceptions = (@ \ Of("mem")) \cup {Resolved(r) : r \in Of("mem")}]
    /\ IF Of("pg") = {}
       THEN /\ calls' = Answered(c)
            /\ replies' = replies \cup {Reply("RESOLVE", tenant, "NOT_FOUND", 0)}
       ELSE /\ calls' = Open(c, cmd, <<>>,
                  [k \in {1} |-> [kind |-> "resolution", row |-> Resolved(CHOOSE r \in Of("pg") : TRUE)]], NoRun)
            /\ UNCHANGED replies

Start(c) ==
    /\ calls.open[c] = <<>> /\ calls.left[c] # <<>>
    /\ \E cmd \in {Head(calls.left[c])} :
          RefreshMandate(c, cmd) \/ RecalculateHealth(c, cmd) \/ RunOnce(c, cmd) \/ ResolveException(c, cmd)

Saved(b, tables, write) ==
    CASE write.kind = "twin" -> IF b = "pg" THEN PgSaveMandateSnapshot(tables, write.row)
                                ELSE MemSaveMandateSnapshot(tables, write.row)
      [] write.kind = "health" -> IF b = "pg" THEN PgSaveHealth(tables, write.row)
                                  ELSE MemSaveHealth(tables, write.row)
      [] write.kind = "exception" -> IF b = "pg" THEN PgSaveException(tables, write.row)
                                     ELSE MemSaveException(tables, write.row)
      [] write.kind = "resolution" -> IF b = "pg" THEN PgSaveException(tables, write.row) ELSE tables

\* One transaction of a request.
Write(c) ==
    /\ calls.open[c] # <<>>
    /\ \E call \in {Head(calls.open[c])} :
          /\ call.writes # <<>>
          /\ store' = [b \in Backends |-> Saved(b, store[b], Head(call.writes))]
          /\ calls' = [calls EXCEPT !.open[c][1].writes = Tail(@)]
    /\ UNCHANGED replies

\* A run reads the latest twin of its next mandate and assesses it.
AssessNext(c) ==
    /\ calls.open[c] # <<>>
    /\ \E call \in {Head(calls.open[c])} :
          /\ call.writes = <<>> /\ call.todo # <<>>
          /\ \E twin \in {GetLatestMandate(store["pg"], call.run.tenant, Head(call.todo))} :
                IF IsRefused(twin)
                THEN /\ calls' = Closed(c)
                     /\ replies' = replies \cup {Reply("RUN_ONCE", call.run.tenant, twin.refused, 0)}
                ELSE /\ \E snapshot \in {CalculateHealth(MonitoringInput(twin.value, call.run.asOf), call.run.tenant)} :
                           \E found \in {MonitoringExceptions(snapshot, call.run.tenant)} :
                              calls' = [calls EXCEPT
                                 !.clock = @ + 1,
                                 !.open[c][1].todo = Tail(@),
                                 !.open[c][1].run = RecordResult(@, snapshot, found),
                                 !.open[c][1].writes = HealthWrites(call.run.tenant, snapshot,
                                       ExceptionsForRun(found, call.run.id), calls.clock + 1)]
                     /\ UNCHANGED replies
    /\ UNCHANGED store

\* A run is saved last; then the request is answered.
Finish(c) ==
    /\ calls.open[c] # <<>>
    /\ \E call \in {Head(calls.open[c])} :
          /\ call.writes = <<>> /\ call.todo = <<>>
          /\ store' = IF call.run = NoRun THEN store
                      ELSE [store EXCEPT !["pg"] = PgSaveRun(@, RunRow(call.run)),
                                         !["mem"] = MemSaveRun(@, RunRow(call.run))]
          /\ replies' = replies \cup {Reply(call.cmd.op, NormaliseTenant(call.cmd.tenant), "OK", call.run.id)}
    /\ calls' = Closed(c)

\* The process dies between two transactions.
Crash(c) ==
    /\ calls.open[c] # <<>> /\ calls.crashes < MaxCrashes
    /\ calls' = [Closed(c) EXCEPT !.crashes = @ + 1]
    /\ UNCHANGED <<store, replies>>

Next == \E c \in Clients : Start(c) \/ Write(c) \/ AssessNext(c) \/ Finish(c) \/ Crash(c)

-----------------------------------------------------------------------------
Tenants == {r.tenant : r \in UNION {store["pg"].twins, store["pg"].health, store["pg"].runs}}

MandatesOf(b, tenant) == {r.twin.mandate : r \in {q \in store[b].twins : q.tenant = tenant}}

PortfoliosOf(b, tenant) == {r.twin.portfolio : r \in {q \in store[b].twins : q.tenant = tenant}}

\* The number a version denotes.
Value(version) == FoldLeft(LAMBDA n, d : 10 * n + d, 0, version)

\* The ids that acknowledged runs of two tenants share.
SharedIds ==
    LET runs == {a \in replies : a.op = "RUN_ONCE" /\ a.code = "OK"} IN
    {a.id : a \in {x \in runs : \E y \in runs : y.id = x.id /\ y.tenant # x.tenant}}

\* No tenant reads evidence computed for another: what the columns of a health snapshot or an
\* exception admit is what the payload was computed for, and a run is shown to the tenant it
\* was computed for, or to nobody when a run of another tenant was saved under its id.
TenantsAreSeparate ==
    \A b \in Backends :
        /\ \A r \in store[b].health : r.tenant = r.owner
        /\ \A r \in store[b].exceptions : r.tenant = r.owner /\ r.exception.id[1] = r.tenant
        /\ \A r \in store[b].runs : r \in VisibleRuns(store[b], r.run.tenant) \/ r.key \in SharedIds
        /\ \A t \in Tenants : \A r \in VisibleRuns(store[b], t) :
              Reply("RUN_ONCE", t, "OK", r.key) \in replies

\* The latest mandate is the one of the latest date and, within it, of the greatest version as a
\* number; an as-of read never looks ahead; and a diff compares two different versions, each in
\* its newest observation.
LatestIsNewest ==
    \A b \in Backends, t \in Tenants :
        /\ \A m \in MandatesOf(b, t) :
              LET rows == {r.twin : r \in {q \in store[b].twins : q.tenant = t /\ q.twin.mandate = m}}
                  latest == GetLatestMandate(store[b], t, m).value
                  diff == DiffMandateVersions(store[b], t, m, <<>>, <<>>)
                  After(x, y) == \/ x.asOf > y.asOf
                                 \/ /\ x.asOf = y.asOf /\ IsNumeric(x.version)
                                    /\ IsNumeric(y.version) => Value(x.version) >= Value(y.version)
              IN  /\ \A x \in rows : (\E y \in rows : y.asOf = latest.asOf /\ IsNumeric(y.version)) =>
                                       After(latest, x) \/ x = latest
                  /\ IsRefused(diff) <=> Cardinality({x.version : x \in rows}) < 2
                  /\ ~IsRefused(diff) =>
                        /\ diff.value.from.version # diff.value.to.version
                        /\ \A x \in rows, end \in {diff.value.from, diff.value.to} :
                              x.version = end.version => x.asOf <= end.asOf
        /\ \A p \in PortfoliosOf(b, t), day \in {r.twin.asOf : r \in store[b].twins} :
              LET read == GetMandateByPortfolioAsOf(store[b], t, p, day)
              IN  ~IsRefused(read) => read.value.asOf <= day

\* A stored run was assessed in full: its counts are those of its mandates, every mandate has a
\* health snapshot at the date of the run, and an acknowledged run stays readable by its tenant
\* unless a run of another tenant bears the same id.
RunsAreGrounded ==
    \A b \in Backends :
        /\ \A r \in store[b].runs :
              /\ MapThenSumSet(LAMBDA k : r.run.health[k], DOMAIN r.run.health) = Len(r.run.mandates)
              /\ \A k \in DOMAIN r.run.mandates :
                    \E q \in store[b].twins, h \in store[b].health :
                        /\ q.tenant = r.run.tenant /\ q.twin.mandate = r.run.mandates[k]
                        /\ h.owner = r.run.tenant /\ h.snapshot.portfolio = q.twin.portfolio
                        /\ h.snapshot.asOf = r.run.asOf
              /\ r.run.exceptions > 0 => \E x \in store[b].exceptions : x.owner = r.run.tenant /\ x.exception.asOf = r.run.asOf
        /\ \A a \in replies : (a.op = "RUN_ONCE" /\ a.code = "OK" /\ a.id \notin SharedIds) =>
              ~IsRefused(GetMonitoringRun(store[b], a.tenant, a.id))

\* Both backends give the same answers about twins and runs; but where the runs of two
\* tenants share an id PostgreSQL may hide the one memory shows, and never shows another.
BackendsAgree ==
    \A t \in Tenants :
        /\ MandatesOf("pg", t) = MandatesOf("mem", t)
        /\ \A m \in MandatesOf("pg", t) :
              ListMandateVersions(store["pg"], t, m) = ListMandateVersions(store["mem"], t, m)
        /\ \A p \in PortfoliosOf("pg", t) :
              GetLatestMandateByPortfolio(store["pg"], t, p) = GetLatestMandateByPortfolio(store["mem"], t, p)
        /\ SharedIds = {} => \A n \in 1..2, cursor \in {{}} \cup {{r.key} : r \in store["pg"].runs} :
              ListMonitoringRuns(store["pg"], t, cursor, n) = ListMonitoringRuns(store["mem"], t, cursor, n)
        /\ \A id \in SharedIds :
              GetMonitoringRun(store["pg"], t, id) \in
                  {GetMonitoringRun(store["mem"], t, id), Refused("DPM_MONITORING_RUN_NOT_FOUND")}

\* Limits whose origin is unknown are kept as they are until core compiles the mandate anew.
KeepsAmbiguous ==
    \A r \in store["pg"].twins : Ambiguous \in r.twin.gaps =>
        \/ r \in store'["pg"].twins
        \/ \E q \in store'["pg"].twins : TwinKey(q) = TwinKey(r) /\ q.producer = "CORE_COMPILED"

AmbiguousIsRetained == [][KeepsAmbiguous]_vars


=============================================================================
