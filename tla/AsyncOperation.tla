--------------------------- MODULE AsyncOperation ---------------------------
(***************************************************************************)
(* Asynchronous scenario analysis.  POST /rebalance/analyze/async stores a *)
(* PENDING operation; its submitter (INLINE) or a later caller of the      *)
(* execute endpoint claims it under a lease, records one run per scenario  *)
(* and publishes the outcome if it still owns the newest attempt.  Expired *)
(* leases are taken over, finished operations are deleted after a TTL, and *)
(* runs after the retention period.                                        *)
(*                                                                         *)
(* The execution token is drawn fresh by every claim, so the attempt that  *)
(* the claim counts up stands for it.  A correlation id is meant together  *)
(* with its tenant.  Times are as in WaveSimulation.                       *)
(***************************************************************************)
EXTENDS Integers, FiniteSets

CONSTANTS
  OpIds,          \* operation ids, each drawn once
  Correlations,   \* (tenant, correlation id) pairs
  Scenarios,      \* scenario keys in the order they sort
  Requests,       \* what the callers ask for: scenarios of each operation
  Workers,        \* processes that submit and execute
  LeaseDuration,  \* DPM_ASYNC_EXECUTION_LEASE_SECONDS in ticks
  MaxLag,         \* how far a timestamp may be behind the true time
  MaxFailures,    \* bound: attempts up to which workers crash or outlive a lease
  MaxAttempt,     \* bound: claims of one operation
  Inline,         \* DPM_ASYNC_EXECUTION_MODE = "INLINE"
  Retention,      \* supportability_retention_days >= 1
  Missing, Failed \* what a result says of a scenario that has no run

ASSUME AsyncConstants ==
  /\ Scenarios \subseteq Nat
  /\ Requests \subseteq [OpIds -> SUBSET Scenarios]
  /\ LeaseDuration \in Nat \ {0}
  /\ MaxLag \in Nat
  /\ MaxFailures \in Nat
  /\ MaxAttempt \in Nat \ {0}
  /\ Inline \in BOOLEAN
  /\ Retention \in BOOLEAN

VARIABLES
  ops,      \* dpm_async_operations; FREE and PURGED mark ids without a row
  linked,   \* operations with an OPERATION_TO_CORRELATION edge
  runs,     \* the runs of dpm_runs that were recorded for operations
  members,  \* OPERATION_TO_RUN edges of dpm_lineage_edges
  workers   \* what each process is doing

vars == <<ops, linked, runs, members, workers>>

Lags == 0..MaxLag
LeaseFloor == -MaxLag
Attempts == 0..MaxAttempt

\* A run is named by the attempt and the scenario that recorded it.
Run == [op: OpIds, corr: Correlations, attempt: Attempts, scenario: Scenarios]

\* An edge names the run and repeats scenario key and attempt as metadata.
Member == [op: OpIds, run: Run, scenario: Scenarios, attempt: Attempts]

\* What an execution knows of a scenario: its run, its failure, or nothing.
Outcome == Run \cup {Missing, Failed}
NoOutcome == [s \in Scenarios |-> Missing]

\* The sentinels are no runs.
ASSUME OutcomeAssumption == Missing \notin Run /\ Failed \notin Run /\ Missing # Failed

Operation ==
  [status: {"PENDING", "RUNNING", "SUCCEEDED", "FAILED", "PURGED"},
   asked: SUBSET Scenarios, corr: Correlations, attempt: Attempts,
   lease: LeaseFloor..LeaseDuration, results: [Scenarios -> Outcome]]

\* An id that is not drawn yet, and the scenarios its caller will ask for.
Free(asked) == [status |-> "FREE", asked |-> asked]

Idle == [pc |-> "idle"]

Worker ==
  {Idle}
  \cup [pc: {"link", "inline"}, op: OpIds]
  \cup [pc: {"run"}, op: OpIds, attempt: Attempts, todo: SUBSET Scenarios,
        done: [Scenarios -> Outcome]]

-----------------------------------------------------------------------------
Stored(o) == ops[o].status \notin {"FREE", "PURGED"}

\* Mutant: the cleanup deletes every expired operation.
PurgesAny == {o \in OpIds : Stored(o)}

\* Operations a TTL cleanup may delete.  Whether finished_at, or created_at of
\* a PENDING one, is older than the TTL is up to the clocks.
Purgeable == {o \in OpIds : Stored(o) /\ ops[o].status # "RUNNING"}

\* The operations after _cleanup_expired_operations has deleted X.
Cleaned(X) ==
  [o \in OpIds |-> IF o \in X THEN [ops[o] EXCEPT !.status = "PURGED"] ELSE ops[o]]

\* Submission: the lookup and the unique index on (tenant, correlation) refuse a
\* correlation id in use.  The lineage edge is a transaction of its own.
Submit(w, o, c) ==
  /\ workers[w] = Idle
  /\ ops[o].status = "FREE"
  /\ ops[o].asked # {}
  /\ \E X \in SUBSET Purgeable :
       /\ \A p \in OpIds : Stored(p) /\ ops[p].corr = c => p \in X
       /\ ops' = [Cleaned(X) EXCEPT ![o] =
                    [status |-> "PENDING", asked |-> ops[o].asked, corr |-> c,
                     attempt |-> 0, lease |-> 0, results |-> NoOutcome]]
  /\ workers' = [workers EXCEPT ![w] = [pc |-> "link", op |-> o]]
  /\ UNCHANGED <<linked, runs, members>>

\* The edge is stored.  An INLINE submitter goes on to execute.
RecordLineage(w) ==
  /\ workers[w].pc = "link"
  /\ linked' = linked \cup {workers[w].op}
  /\ workers' = [workers EXCEPT ![w] =
                   IF Inline THEN [pc |-> "inline", op |-> workers[w].op] ELSE Idle]
  /\ UNCHANGED <<ops, runs, members>>

-----------------------------------------------------------------------------
\* The WHERE clause of the claim made by a process whose clock is lag behind.
Executable(row, lag) ==
  \/ row.status = "PENDING"
  \/ row.status = "RUNNING" /\ row.lease <= -lag

ClaimedRow(row, lag) ==
  [row EXCEPT !.status = "RUNNING", !.attempt = row.attempt + 1,
              !.lease = LeaseDuration - lag, !.results = NoOutcome]

\* A worker still executes the newest attempt of the operation.
Executing(o) ==
  \E v \in Workers : /\ workers[v].pc = "run"
                     /\ workers[v].op = o
                     /\ workers[v].attempt = ops[o].attempt

\* prepare_analyze_operation_execution: cleanup, then one conditional UPDATE.
Claim(w, o, lag) ==
  /\ workers[w] \in {Idle, [pc |-> "inline", op |-> o]}
  /\ Stored(o)
  /\ Executable(ops[o], lag)
  /\ ops[o].attempt < MaxAttempt
  /\ Executing(o) => ops[o].attempt <= MaxFailures
  /\ \E X \in SUBSET Purgeable :
       /\ o \notin X
       /\ ops' = [Cleaned(X) EXCEPT ![o] = ClaimedRow(ops[o], lag)]
  /\ workers' = [workers EXCEPT ![w] =
                   [pc |-> "run", op |-> o, attempt |-> ops'[o].attempt,
                    todo |-> ops[o].asked, done |-> NoOutcome]]
  /\ UNCHANGED <<linked, runs, members>>

\* NOT_FOUND or NOT_EXECUTABLE: someone else executes, or the TTL was faster.
ClaimRefused(w, lag) ==
  /\ workers[w].pc = "inline"
  /\ \E X \in SUBSET Purgeable :
       /\ LET o == workers[w].op
          IN o \in X \/ ~Stored(o) \/ ~Executable(ops[o], lag)
       /\ ops' = Cleaned(X)
  /\ workers' = [workers EXCEPT ![w] = Idle]
  /\ UNCHANGED <<linked, runs, members>>

-----------------------------------------------------------------------------
\* Mutant: scenarios run under the correlation id of the operation alone.
CorrelationWithoutAttempt(x) == <<x.corr, x.scenario>>

\* The correlation id of a scenario's run.
ScenarioCorrelation(x) == <<x.corr, x.attempt, x.scenario>>

\* The unique index on (tenant_id, correlation_id) of dpm_runs.
CorrelationTaken(x) ==
  \E y \in runs : ScenarioCorrelation(y) = ScenarioCorrelation(x)

RunOf(k, s) ==
  [op |-> k.op, corr |-> ops[k.op].corr, attempt |-> k.attempt, scenario |-> s]

EdgeOf(x) ==
  [op |-> x.op, run |-> x, scenario |-> x.scenario, attempt |-> x.attempt]

\* save_run_with_lineage: the run and its edges commit together.
SaveRun(x) == runs' = runs \cup {x} /\ members' = members \cup {EdgeOf(x)}

\* The scenario the worker executes next.
NextScenario(k, s) == s \in k.todo /\ \A t \in k.todo : s <= t

Settle(w, s, outcome) ==
  workers' = [workers EXCEPT ![w].todo = @ \ {s}, ![w].done[s] = outcome]

\* The sets of runs a cleanup may find older than the retention period.
Expirable == IF Retention THEN SUBSET runs ELSE {{}}

\* A scenario is calculated, and its run recorded.
ScenarioSucceeds(w, s) ==
  /\ workers[w].pc = "run"
  /\ NextScenario(workers[w], s)
  /\ LET x == RunOf(workers[w], s)
     IN ~CorrelationTaken(x) /\ SaveRun(x) /\ Settle(w, s, x)
  /\ UNCHANGED <<ops, linked>>

\* Mutant: the batch stops at the first failure.
ScenarioFailsTheBatch(w, s) ==
  /\ workers[w].pc = "run"
  /\ NextScenario(workers[w], s)
  /\ workers' = [workers EXCEPT ![w].todo = {}, ![w].done[s] = Failed]
  /\ UNCHANGED <<ops, linked, runs, members>>

\* Options are invalid, or the engine raises.
ScenarioFails(w, s) ==
  /\ workers[w].pc = "run"
  /\ NextScenario(workers[w], s)
  /\ Settle(w, s, Failed)
  /\ UNCHANGED <<ops, linked, runs, members>>

\* The run is recorded and the artifact, stored after it, cannot be built.
ArtifactFails(w, s) ==
  /\ workers[w].pc = "run"
  /\ NextScenario(workers[w], s)
  /\ LET x == RunOf(workers[w], s)
     IN ~CorrelationTaken(x) /\ SaveRun(x)
  /\ Settle(w, s, Failed)
  /\ UNCHANGED <<ops, linked>>

\* The index refuses the run.  This error is not among those that the batch or
\* the runner catches: the request ends and the operation stays RUNNING.
RunRefused(w, s) ==
  /\ workers[w].pc = "run"
  /\ NextScenario(workers[w], s)
  /\ CorrelationTaken(RunOf(workers[w], s))
  /\ workers' = [workers EXCEPT ![w] = Idle]
  /\ UNCHANGED <<ops, linked, runs, members>>

-----------------------------------------------------------------------------
\* The fence of _publish_operation_terminal.  It does not look at the lease.
FenceHolds(k) == ops[k.op].status = "RUNNING" /\ ops[k.op].attempt = k.attempt

Publish(k, status, results) ==
  ops' = [ops EXCEPT ![k.op] =
            [@ EXCEPT !.status = status, !.lease = 0, !.results = results]]

\* All scenarios were tried: SUCCEEDED, whatever their outcomes.
PublishSuccess(w) ==
  /\ workers[w].pc = "run"
  /\ workers[w].todo = {}
  /\ FenceHolds(workers[w])
  /\ Publish(workers[w], "SUCCEEDED", workers[w].done)
  /\ workers' = [workers EXCEPT ![w] = Idle]
  /\ UNCHANGED <<linked, runs, members>>

\* The payload or the batch itself raises, before the first scenario or after
\* the last one.
PublishFailure(w) ==
  /\ workers[w].pc = "run"
  /\ workers[w].todo \in {{}, ops[workers[w].op].asked}
  /\ FenceHolds(workers[w])
  /\ Publish(workers[w], "FAILED", NoOutcome)
  /\ workers' = [workers EXCEPT ![w] = Idle]
  /\ UNCHANGED <<linked, runs, members>>

\* DPM_ASYNC_OPERATION_STALE_EXECUTION_OWNER.
PublishStale(w) ==
  /\ workers[w].pc = "run"
  /\ workers[w].todo \in {{}, ops[workers[w].op].asked}
  /\ ~FenceHolds(workers[w])
  /\ workers' = [workers EXCEPT ![w] = Idle]
  /\ UNCHANGED <<ops, linked, runs, members>>

\* Mutant: the purge of runs leaves their membership edges.
PurgeKeepsEdges(S) == runs' = runs \ S /\ UNCHANGED members

\* purge_expired_runs, as far as the runs of operations are concerned.
PurgeRuns(S) ==
  /\ runs' = runs \ S
  /\ members' = {e \in members : e.run \notin S}

\* A read of operations or runs, or the start of a run's recording: all of
\* them clean up first.
Read ==
  /\ \E X \in SUBSET Purgeable : ops' = Cleaned(X)
  /\ \E S \in Expirable : PurgeRuns(S)
  /\ UNCHANGED <<linked, workers>>

\* A process dies; its lease stays.
WorkerCrash(w) ==
  /\ workers[w] # Idle
  /\ workers[w].pc = "run" => workers[w].attempt <= MaxFailures
  /\ workers' = [workers EXCEPT ![w] = Idle]
  /\ UNCHANGED <<ops, linked, runs, members>>

Tick ==
  /\ ops' = [o \in OpIds |->
               IF ops[o].status = "RUNNING" /\ ops[o].lease > LeaseFloor
                 THEN [ops[o] EXCEPT !.lease = @ - 1]
                 ELSE ops[o]]
  /\ UNCHANGED <<linked, runs, members, workers>>

-----------------------------------------------------------------------------
Init ==
  /\ \E asked \in Requests : ops = [o \in OpIds |-> Free(asked[o])]
  /\ linked = {} /\ runs = {} /\ members = {}
  /\ workers = [w \in Workers |-> Idle]

ScenarioStep(w) ==
  \E s \in Scenarios :
    \/ ScenarioSucceeds(w, s) \/ ScenarioFails(w, s)
    \/ ArtifactFails(w, s) \/ RunRefused(w, s)

PublishStep(w) == PublishSuccess(w) \/ PublishFailure(w) \/ PublishStale(w)

WorkerStep(w) ==
  \/ \E o \in OpIds, c \in Correlations : Submit(w, o, c)
  \/ RecordLineage(w)
  \/ \E o \in OpIds, lag \in Lags : Claim(w, o, lag)
  \/ \E lag \in Lags : ClaimRefused(w, lag)
  \/ ScenarioStep(w)
  \/ PublishStep(w)
  \/ WorkerCrash(w)

Next == (\E w \in Workers : WorkerStep(w)) \/ Read \/ Tick

Spec == Init /\ [][Next]_vars

\* A worker that started goes on, and an orchestrator keeps calling execute for
\* an operation that is not finished.
Fairness ==
  /\ WF_vars(Tick)
  /\ \A w \in Workers :
       /\ WF_vars(RecordLineage(w))
       /\ WF_vars(ScenarioStep(w))
       /\ WF_vars(PublishStep(w))
       /\ WF_vars(\E lag \in Lags : ClaimRefused(w, lag))
  /\ \A o \in OpIds : SF_vars(\E w \in Workers, lag \in Lags : Claim(w, o, lag))

LiveSpec == Spec /\ Fairness

-----------------------------------------------------------------------------
\* What the support bundle of an operation shows of a scenario: succeeded with
\* its run, if the terminal result names one, exactly one membership edge of the
\* current attempt does too, and the run still exists.
Authoritative(o, s) ==
  LET x == ops[o].results[s]
      matching == {e \in members : e.op = o /\ e.scenario = s /\ e.run = x}
  IN /\ ops[o].status = "SUCCEEDED"
     /\ x \notin {Missing, Failed}
     /\ Cardinality(matching) = 1
     /\ \A e \in matching : e.attempt = ops[o].attempt
     /\ x \in runs

SelectedRuns(o) ==
  {ops[o].results[s] : s \in {t \in ops[o].asked : Authoritative(o, t)}}

\* The other runs of the operation.
HistoricalRuns(o) ==
  {x \in runs \ SelectedRuns(o) :
     \E e \in members : e.op = o /\ e.run = x /\ e.attempt \in 1..ops[o].attempt}

-----------------------------------------------------------------------------
TypeOK ==
  /\ ops \in [OpIds -> Operation \cup {Free(S) : S \in SUBSET Scenarios}]
  /\ linked \subseteq OpIds
  /\ runs \subseteq Run
  /\ members \subseteq Member
  /\ workers \in [Workers -> Worker]

\* The published result is the evidence of one attempt.  However many workers
\* executed an operation, each scenario its result calls succeeded is backed by
\* the run that the publishing attempt recorded, the support bundle shows it as
\* long as retention keeps it, and it shows no run of another attempt.
PublishedEvidence ==
  \A o \in OpIds : ops[o].status = "SUCCEEDED" =>
    \A s \in ops[o].asked :
      LET x == ops[o].results[s]
      IN /\ x # Missing
         /\ x \in Run => x.op = o /\ x.attempt = ops[o].attempt /\ x.scenario = s
         /\ x \in runs => Authoritative(o, s)

\* No run is lost from sight: each run an operation ever recorded and retention
\* keeps is in its support bundle, selected or historical, and no membership
\* edge outlives its run.
RunsAccountedFor ==
  /\ \A x \in runs : Stored(x.op) => x \in SelectedRuns(x.op) \cup HistoricalRuns(x.op)
  /\ \A e \in members : e.run \in runs

\* The TTL never outruns the execution.  The worker of the newest attempt finds
\* its operation RUNNING and can publish, however long it takes.
NewestOwnerCanPublish ==
  \A w \in Workers :
    workers[w].pc = "run" /\ workers[w].attempt = ops[workers[w].op].attempt
      => ops[workers[w].op].status = "RUNNING"

\* What a step may do to a finished operation: nothing but delete it.
FinishedStep ==
  \A o \in OpIds : ops[o].status \in {"SUCCEEDED", "FAILED"} =>
    ops'[o] \in {ops[o], [ops[o] EXCEPT !.status = "PURGED"]}

\* Terminal evidence is final: late workers and repeated execute calls never
\* change a published outcome.
TerminalIsFinal == [][FinishedStep]_vars

\* A started operation is eventually finished: crashed workers are replaced
\* once their lease is over, and attempts that clash with retained runs of an
\* earlier operation give way to later ones.
StartedFinishes ==
  \A o \in OpIds : ops[o].status = "RUNNING" ~> ops[o].status # "RUNNING"
=============================================================================
