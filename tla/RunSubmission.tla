---------------------------- MODULE RunSubmission ----------------------------
(***************************************************************************)
(* Idempotent admission of POST /rebalance/simulate.  A caller claims      *)
(* (tenant, idempotency key) under a lease, calculates, and publishes the  *)
(* run with everything that depends on it in one fenced transaction.       *)
(* Rivals with the same request hash take over an expired claim, or wait   *)
(* for the winner and replay its run.  Retention deletes expired runs.     *)
(*                                                                         *)
(* A claim token is drawn fresh by every caller and stored only when its   *)
(* claim wins, so the generation of the row stands for it.  At most one    *)
(* run is calculated under a token, so a run is named by its row and its   *)
(* generation.  Times are as in WaveSimulation: lease is claim_expires_at  *)
(* minus the true time, and a timestamp is the true time minus a lag.      *)
(***************************************************************************)
EXTENDS Integers

CONSTANTS
  Tenants, Keys, Hashes, Correlations,
  Callers,        \* concurrent callers of execute_simulation_request
  LeaseDuration,  \* the 60 seconds of _claim_submission, in ticks
  MaxLag,         \* how far a timestamp may be behind the true time
  MaxAhead,       \* how far a caller's clock may run ahead of it
  MaxGeneration,  \* bound: claims of a key after which callers do not fail
  Retention,      \* supportability_retention_days >= 1
  Persisted,      \* artifact_store_mode = "PERSISTED"
  NoRow, NoRun

ASSUME SubmissionConstants ==
  /\ LeaseDuration \in Nat \ {0}
  /\ MaxLag \in Nat
  /\ MaxAhead \in Nat
  /\ MaxGeneration \in Nat \ {0}
  /\ Retention \in BOOLEAN
  /\ Persisted \in BOOLEAN

VARIABLES
  claims,     \* dpm_run_submission_claims
  runs,       \* dpm_runs
  mapped,     \* runs named by a row of dpm_run_idempotency
  history,    \* runs named by a row of dpm_run_idempotency_history
  artifacts,  \* runs with a row of dpm_run_artifacts
  edges,      \* dpm_lineage_edges
  callers,    \* what each caller has read and where it is
  replies     \* every run a caller was given, with its request

vars == <<claims, runs, mapped, history, artifacts, edges, callers, replies>>
store == <<runs, mapped, history, artifacts, edges>>

Lags == (-MaxAhead)..MaxLag
LeaseFloor == -(MaxLag + 1)

\* What callers may send: whose run, under which key, what, and how it is traced.
Requests == [tenant: Tenants, key: Keys, hash: Hashes, corr: Correlations]

\* A claim is known by its tenant and its idempotency key.
Ids == Tenants \X Keys

Run ==
  [tenant: Tenants, key: Keys, hash: Hashes, corr: Correlations,
   generation: 1..MaxGeneration]

ClaimRow ==
  [hash: Hashes, status: {"IN_PROGRESS", "COMPLETED"},
   generation: 1..MaxGeneration, lease: LeaseFloor..(LeaseDuration + MaxAhead),
   run: Run \cup {NoRun}]

\* The sentinel is no row.
ASSUME NoRowAssumption == NoRow \notin ClaimRow

Edge == [tenant: Tenants, source: Correlations \cup Keys, target: Run]

Idle == [pc |-> "idle"]

Caller ==
  {Idle}
  \cup [pc: {"owner", "abandon"}, req: Requests, generation: 1..MaxGeneration]
  \cup [pc: {"wait"}, req: Requests]
  \cup [pc: {"load"}, req: Requests, run: Run]

-----------------------------------------------------------------------------
\* The key of the claim table.
Id(r) == <<r.tenant, r.key>>

Row(r) == claims[Id(r)]

\* Mutant: an existing claim is never taken over.
NeverTakenOver(row, hash, lag) == FALSE

\* The claim may be taken over by a request stamped lag ticks ago.
CanTakeOver(row, hash, lag) ==
  row.hash = hash /\ row.status = "IN_PROGRESS" /\ row.lease <= -lag

\* The row a winning claim leaves behind, and the caller that owns it.
Win(c, r, lag, generation) ==
  /\ claims' = [claims EXCEPT ![Id(r)] =
                  [hash |-> r.hash, status |-> "IN_PROGRESS",
                   generation |-> generation, lease |-> LeaseDuration - lag,
                   run |-> NoRun]]
  /\ callers' = [callers EXCEPT ![c] =
                   [pc |-> "owner", req |-> r, generation |-> generation]]

\* The insert of the claim wins.
ClaimNew(c, r, lag) ==
  /\ callers[c] = Idle
  /\ Row(r) = NoRow
  /\ Win(c, r, lag, 1)
  /\ UNCHANGED <<store, replies>>

\* The row exists; it is locked and its expired claim is taken over.
ClaimTakeover(c, r, lag) ==
  /\ callers[c] = Idle
  /\ Row(r) # NoRow
  /\ CanTakeOver(Row(r), r.hash, lag)
  /\ Row(r).generation < MaxGeneration
  /\ Win(c, r, lag, Row(r).generation + 1)
  /\ UNCHANGED <<store, replies>>

\* Mutant: the request hash of a completed claim is not compared.
HashMattersWhileOpen(row, r) == row.hash = r.hash \/ row.status = "COMPLETED"

SameRequest(row, r) == row.hash = r.hash

\* The claim belongs to another caller: replay it when it is completed, wait
\* for it when it is not.  A changed hash is refused and changes nothing.
ClaimFound(c, r, lag) ==
  /\ callers[c] = Idle
  /\ Row(r) # NoRow
  /\ SameRequest(Row(r), r)
  /\ ~CanTakeOver(Row(r), r.hash, lag)
  /\ callers' = [callers EXCEPT ![c] =
                   IF Row(r).status = "COMPLETED"
                     THEN [pc |-> "load", req |-> r, run |-> Row(r).run]
                     ELSE [pc |-> "wait", req |-> r]]
  /\ UNCHANGED <<claims, store, replies>>

-----------------------------------------------------------------------------
RunOf(k) ==
  [tenant |-> k.req.tenant, key |-> k.req.key, hash |-> k.req.hash,
   corr |-> k.req.corr, generation |-> k.generation]

\* Mutant: the claim token is not part of the fence.
FenceWithoutToken(k) == Row(k.req).status = "IN_PROGRESS"

\* The fence of the completing transaction.  It does not look at the lease.
FenceHolds(k) ==
  /\ Row(k.req).status = "IN_PROGRESS"
  /\ Row(k.req).generation = k.generation

\* The unique index on (tenant_id, correlation_id).
CorrelationTaken(req) ==
  \E x \in runs : x.tenant = req.tenant /\ x.corr = req.corr

LineageOf(x) ==
  {[tenant |-> x.tenant, source |-> s, target |-> x] : s \in {x.corr, x.key}}

StoreRun(x) ==
  /\ runs' = runs \cup {x}
  /\ artifacts' = IF Persisted THEN artifacts \cup {x} ELSE artifacts
  /\ mapped' = mapped \cup {x}
  /\ history' = history \cup {x}
  /\ edges' = edges \cup LineageOf(x)

\* The calculation succeeded and its transaction commits.
Complete(c) ==
  /\ callers[c].pc = "owner"
  /\ FenceHolds(callers[c])
  /\ ~CorrelationTaken(callers[c].req)
  /\ LET k == callers[c]
     IN /\ claims' = [claims EXCEPT ![Id(k.req)] =
                        [@ EXCEPT !.status = "COMPLETED", !.lease = 0,
                                  !.run = RunOf(k)]]
        /\ StoreRun(RunOf(k))
        /\ replies' = replies \cup {<<k.req, RunOf(k)>>}
  /\ callers' = [callers EXCEPT ![c] = Idle]

\* The claim was taken over meanwhile: the caller waits for the new owner.
CompleteLost(c) ==
  /\ callers[c].pc = "owner"
  /\ ~FenceHolds(callers[c])
  /\ callers' = [callers EXCEPT ![c] = [pc |-> "wait", req |-> callers[c].req]]
  /\ UNCHANGED <<claims, store, replies>>

\* The correlation id names another run: the transaction is rolled back.
CompleteRefused(c) ==
  /\ callers[c].pc = "owner"
  /\ callers[c].generation < MaxGeneration
  /\ FenceHolds(callers[c])
  /\ CorrelationTaken(callers[c].req)
  /\ callers' = [callers EXCEPT ![c].pc = "abandon"]
  /\ UNCHANGED <<claims, store, replies>>

\* The engine or the store raises.
CalculationFails(c) ==
  /\ callers[c].pc = "owner"
  /\ callers[c].generation < MaxGeneration
  /\ callers' = [callers EXCEPT ![c].pc = "abandon"]
  /\ UNCHANGED <<claims, store, replies>>

Abandons(k) ==
  Row(k.req).status = "IN_PROGRESS" /\ Row(k.req).generation = k.generation

\* The claim is released by ending its lease now; the caller gets an error.
Abandon(c, lag) ==
  /\ callers[c].pc = "abandon"
  /\ LET k == callers[c]
     IN claims' = IF Abandons(k)
                    THEN [claims EXCEPT ![Id(k.req)] =
                            [@ EXCEPT !.lease = -lag]]
                    ELSE claims
  /\ callers' = [callers EXCEPT ![c] = Idle]
  /\ UNCHANGED <<store, replies>>

-----------------------------------------------------------------------------
\* A poll finds the claim completed.
PollCompleted(c) ==
  /\ callers[c].pc = "wait"
  /\ Row(callers[c].req).status = "COMPLETED"
  /\ callers' = [callers EXCEPT ![c] =
                   [pc |-> "load", req |-> callers[c].req,
                    run |-> Row(callers[c].req).run]]
  /\ UNCHANGED <<claims, store, replies>>

\* The claim expired or the deadline passed: DPM_REBALANCE_REQUEST_IN_PROGRESS.
PollGivesUp(c) ==
  /\ callers[c].pc = "wait"
  /\ callers' = [callers EXCEPT ![c] = Idle]
  /\ UNCHANGED <<claims, store, replies>>

\* The sets of runs a cleanup may find older than the retention period.  Their
\* created_at was read from the clocks of the processes that published them.
Expirable == IF Retention THEN SUBSET runs ELSE {{}}

\* purge_expired_runs: lineage goes by the names of the expired runs, their
\* correlation ids and their idempotency keys, whoever else uses those names.
Purge(S) ==
  /\ runs' = runs \ S
  /\ mapped' = mapped \ S
  /\ history' = history \ S
  /\ artifacts' = artifacts \ S
  /\ edges' = {e \in edges : \A x \in S :
                 /\ e.source \notin {x.corr, x.key}
                 /\ e.target # x}

\* _load_completed_result: get_run_for_tenant cleans up before it reads; an
\* absent run is DPM_IDEMPOTENCY_STORE_INCONSISTENT.
LoadCompleted(c) ==
  /\ callers[c].pc = "load"
  /\ \E S \in Expirable : Purge(S)
  /\ replies' = IF callers[c].run \in runs'
                  THEN replies \cup {<<callers[c].req, callers[c].run>>}
                  ELSE replies
  /\ callers' = [callers EXCEPT ![c] = Idle]
  /\ UNCHANGED claims

\* Any other read of the run store, all of which clean up first.
ReadRuns ==
  /\ Retention
  /\ runs # {}
  /\ \E S \in Expirable : Purge(S)
  /\ UNCHANGED <<claims, callers, replies>>

\* A caller's process dies; its claim stays until the lease ends.
CallerCrash(c) ==
  /\ callers[c] # Idle
  /\ callers[c].pc \in {"owner", "abandon"} => callers[c].generation < MaxGeneration
  /\ callers' = [callers EXCEPT ![c] = Idle]
  /\ UNCHANGED <<claims, store, replies>>

Tick ==
  /\ claims' = [p \in Ids |->
                  IF claims[p] = NoRow THEN NoRow
                  ELSE IF claims[p].status = "IN_PROGRESS" /\ claims[p].lease > LeaseFloor
                    THEN [claims[p] EXCEPT !.lease = @ - 1]
                  ELSE claims[p]]
  /\ UNCHANGED <<store, callers, replies>>

-----------------------------------------------------------------------------
Init ==
  /\ claims = [p \in Ids |-> NoRow]
  /\ runs = {} /\ mapped = {} /\ history = {} /\ artifacts = {} /\ edges = {}
  /\ callers = [c \in Callers |-> Idle]
  /\ replies = {}

ClaimSubmission(c, r, lag) ==
  ClaimNew(c, r, lag) \/ ClaimTakeover(c, r, lag) \/ ClaimFound(c, r, lag)

CallerStep(c) ==
  \/ \E r \in Requests, lag \in Lags : ClaimSubmission(c, r, lag)
  \/ Complete(c) \/ CompleteLost(c) \/ CompleteRefused(c)
  \/ CalculationFails(c)
  \/ \E lag \in Lags : Abandon(c, lag)
  \/ PollCompleted(c) \/ PollGivesUp(c) \/ LoadCompleted(c)
  \/ CallerCrash(c)

Next == (\E c \in Callers : CallerStep(c)) \/ ReadRuns \/ Tick

Spec == Init /\ [][Next]_vars

\* Callers keep retrying each request, and a caller that started goes on.
Fairness ==
  /\ WF_vars(Tick)
  /\ \A c \in Callers :
       /\ WF_vars(Complete(c) \/ CompleteLost(c) \/ CompleteRefused(c))
       /\ WF_vars(\E lag \in Lags : Abandon(c, lag))
       /\ WF_vars(PollGivesUp(c))
       /\ WF_vars(LoadCompleted(c))
       /\ \A r \in Requests : SF_vars(\E lag \in Lags : ClaimTakeover(c, r, lag))

LiveSpec == Spec /\ Fairness

-----------------------------------------------------------------------------
TypeOK ==
  /\ claims \in [Ids -> ClaimRow \cup {NoRow}]
  /\ runs \subseteq Run /\ mapped \subseteq Run /\ history \subseteq Run
  /\ artifacts \subseteq Run /\ edges \subseteq Edge
  /\ callers \in [Callers -> Caller]
  /\ replies \subseteq Requests \X Run

\* One authoritative run.  Whatever concurrent callers, crashes, takeovers,
\* errors and retention do, two callers that were given a run under one tenant
\* and key sent the same request hash and were given the same run.
OneAuthoritativeRun ==
  \A a, b \in replies :
    a[1].tenant = b[1].tenant /\ a[1].key = b[1].key
      => a[2] = b[2] /\ a[1].hash = b[1].hash /\ a[2].hash = a[1].hash

\* Publication is all or nothing, and so is retention: a stored run is the run
\* of its completed claim, and it has its mapping, its history and (in PERSISTED
\* mode) its artifact, none of which outlives it.
PublishedWhole ==
  /\ \A x \in runs : Row(x) # NoRow /\ Row(x).status = "COMPLETED" /\ Row(x).run = x
  /\ mapped = runs
  /\ history = runs
  /\ artifacts = IF Persisted THEN runs ELSE {}

\* What a step may publish: only a run of an open claim's newest generation.
PublicationStep ==
  \A x \in runs' \ runs :
    /\ Row(x) # NoRow
    /\ Row(x).status = "IN_PROGRESS"
    /\ Row(x).generation = x.generation

\* A caller that was taken over never publishes: a run appears only while its
\* claim is open and only for the newest generation of that claim.
StaleOwnerNeverPublishes == [][PublicationStep]_vars

\* Who may end a lease: the newest owner, or time.
LeaseStep ==
  \A p \in Ids :
    /\ claims[p] # NoRow
    /\ claims[p].status = "IN_PROGRESS"
    /\ claims'[p].generation = claims[p].generation
    /\ claims'[p].lease < claims[p].lease - 1
    => \E c \in Callers :
         /\ callers[c].pc \in {"owner", "abandon"}
         /\ Id(callers[c].req) = p
         /\ callers[c].generation = claims[p].generation
         /\ callers'[c] # callers[c]

\* A claim that an owner still works on under a running lease is not disturbed
\* by the failure of a caller that lost it: leases end early only by the newest
\* owner's own hand.
LeaseEndsByOwner == [][LeaseStep]_vars

\* An admitted request is eventually completed: crashes and errors of its
\* owners only delay it, because an expired claim is taken over by a retry.
\* The one thing that stands in its way is a stored run with its correlation id.
AdmittedCompletes ==
  \A p \in Ids :
    claims[p] # NoRow
      ~> \/ claims[p] # NoRow /\ claims[p].status = "COMPLETED"
         \/ \E r \in Requests : Id(r) = p /\ CorrelationTaken(r)
=============================================================================
