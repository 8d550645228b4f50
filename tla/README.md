# Verification of lotus-manage

lotus-manage is the management service of a discretionary portfolio platform: a FastAPI
application over PostgreSQL (with in-memory and, for runs, SQLite twins of its repositories) that
simulates rebalances, keeps the runs and their evidence, drives rebalance waves over many
portfolios, governs campaigns, composites and mandates, and releases approved instructions to
execution adapters.  Its processes share nothing but the database.  Almost everything that is hard
about it is therefore a race between two requests, a process that dies or stalls between two
transactions, or a row that somebody else changed between a read and a write.

This directory holds TLA+ specifications of those parts, TLC configurations that check them on
small instances, and TLAPS proofs of the central properties for every value of the constants.
`PROJECT.json` maps every definition to the lines it translates, and lists the runs, the mutant
each property is tested with, the hazards of the code and the theorems.

## The system and what is modelled

| Part | Where (under `src/src/`) | Modules |
| --- | --- | --- |
| Durable wave simulation operations | `core/waves/simulation_*`, `infrastructure/waves/simulation_*`, `api/services/wave_simulation*` | `WaveSimulation`, `WaveSimulationContract` |
| Run submission, idempotency, retention | `core/rebalance_runs`, `infrastructure/rebalance_runs`, `api/services/rebalance_*` | `RunSubmission` |
| Asynchronous analysis operations | same, `*async*` | `AsyncOperation` |
| Run review workflow | `core/rebalance_runs/workflow*` | `RunWorkflow` |
| Wave lifecycle, from source check to handoff | `core/waves`, `api/services/wave_*` | `WaveLifecycle` |
| Instruction packages | `core/instruction_packages`, `infrastructure/instruction_packages`, `api/services/instruction_package_application.py` | `InstructionPackages` |
| Composite definitions, membership, publication feed | `core/composite_*`, `infrastructure/composites`, `api/services/composite_membership_application.py` | `CompositePublication`, `CompositeRules` |
| Composite eligibility, legacy and staged | `core/composite_eligibility`, `api/services/composite_*` | `CompositeEligibility`, `CompositeRules` |
| Campaign definitions and workflow | `core/waves/campaign_*`, `infrastructure/waves/campaign_*` | `CampaignEvidence`, `Campaigns` |
| Mandates and monitoring | `core/mandate*`, `infrastructure/mandates` | `MandateHealth`, `Mandates`, `Verdicts` |
| PM operating quality | `core/pm_quality`, `infrastructure/pm_quality` | `PmQualityRules`, `PmQuality` |
| Run stores and supportability API | `core/rebalance_runs`, `infrastructure/rebalance_runs` | `RunStores` |
| Idea management actions | `api/services/idea_management_action_service.py`, `infrastructure/rebalance_runs/idea_*` | `IdeaActions` |
| Outcome reviews | `core/outcomes`, `infrastructure/outcomes` | `OutcomeEvidence`, `OutcomeReviews` |
| Construction alternatives | `core/construction`, `api/services/construction_*` | `ConstructionEvidence`, `ConstructionPacks` |
| Proof packs | `core/proof_packs`, `api/services/proof_pack_*` | `ProofPackSections`, `ConstructionPacks` |
| Portfolio memory | `core/portfolio_memory` | `PortfolioMemory` |
| Rebalance engine | `core/rebalance`, `core/target_generation.py`, ... | `RebalanceTargets`, `RebalanceExecution`, `RebalanceEngine`, `RebalanceInputs` |

How the parts interact.  A wave is created over many portfolios, by hand or by the launch of a
campaign, and checked against source data, which includes the mandate twins and their health.
Simulating it happens inside one request or through a durable operation whose item records workers
claim and execute; a reconciler projects the records back on the wave.  Each simulated item has a
set of construction alternatives, every one of them a run of the rebalance engine; selecting one
builds a proof pack.  An approved and staged wave hands its items off, and a handed-off item may be
released as an instruction package.  Runs are recorded by synchronous submission, by the scenarios
of asynchronous operations and by construction, and are reviewed through the run workflow; a
retention purge deletes old runs with their evidence while all of this goes on.  Outcome reviews
compare what happened with what the pre-trade evidence expected, PM quality scores it, and the
portfolio memory is a read model over the stores of all the others.  Composites are a separate
ledger: revisions of a composite's membership are governed month by month and published on a feed
that consumers page through and acknowledge.

## Conventions

* An action is one committed transaction of the code, or one read made between two of them; the
  whole handler is the sequence of its actions.  Whatever a process has read and not yet used is
  in its record (`callers`, `workers`, `requests`, `rec`, `client`, `calls`), so that every other
  process may act between the read and the use.
* Time.  The code compares a stored expiry with a timestamp that the caller took from its own
  clock before it got the row lock.  A `lease` here is the stored expiry minus the true time, a
  timestamp is the true time minus a lag (`Lags`), and `Tick` ages all leases.  `MaxAhead` is how
  far a clock may run ahead, `MaxLag` how far a timestamp may be behind.
* Tokens that are drawn fresh and stored only by the claim that wins are named by the generation
  (or attempt) which that claim counts up.
* A content hash is the record of what it covers.
* Data a property does not tell apart (portfolios, prices, texts) is a model value; amounts,
  weights, dates and scores are integers where a calculation reads them.
* Where the code has several repositories, the module runs them side by side on the same requests
  (`store` has a field per backend), so that their answers can be compared.
* A *workload* is a choice, made in `Init`, of the commands that a behaviour contains; a *part* is
  a component of a run that checks several of them, one per behaviour.
* Constants named as bounds in their module (`MaxGeneration`, `MaxAttempt`, `MaxFailures`,
  `MaxDecisions`, `MaxSequence`, `MaxResends`, `MaxTime`, `MaxLost`, `MaxCrashes`) stop failures,
  repetitions or the clock, never the recovery from them.

## Modules, state and actions

**WaveSimulation.**  `status`, `cancelReason` and `items` are the operation row and its item
records; `claims` what each worker holds in memory; `wave` the wave row; `rec` what each reconciler
has read; `guard` the holder of the PostgreSQL advisory lock.  `ClaimSimulationItems` is the claim
transaction (candidates, capacity, lease, generation), `ExecuteClaim` the execution between two
transactions, `PublishTerminal` the fenced publication, `RetrySimulationItems` and
`CancelSimulationOperation` the two commands, `ReconcileEnter`/`ReadWave`/`ReadPage`/`Write` the
steps of a reconciliation, with `GuardLost` when the session that holds the advisory lock goes
away.  The initial states are those the admission transaction commits.  `WaveSimulationContract`
is the abstract promise: each item gets at most one verdict, and the wave closes once, with the
state the verdicts add up to; `ImplementsContract` is the refinement (a verdict is a terminal
record's reconciled state).

**RunSubmission.**  `claims`, `runs`, `mapped`, `history`, `artifacts`, `edges` are the tables;
`callers` the requests in flight; `replies` every answer given.
`ClaimNew`/`ClaimTakeover`/`ClaimFound` are the branches of the claim transaction,
`Complete`/`CompleteLost`/`CompleteRefused` the fenced publication, `Abandon` the release after an
error, `PollCompleted`/`PollGivesUp`/`LoadCompleted` the wait of a rival, and every read of a run
purges what has expired (`Expirable`, `ReadRuns`).

**AsyncOperation.**  `ops`, `linked`, `runs`, `members` are the operation rows, the runs recorded
for them, and the lineage edges; `workers` the executions.  A submission purges operations whose
TTL has passed, then inserts; a claim takes an operation that is PENDING or whose lease has lapsed;
each scenario is saved in its own transaction; the outcome is published if the attempt is still
the newest.

**RunWorkflow.**  `decisions` is the append-only decision table; a reviewer checks its action
against the status of the latest decision (`CheckAction`) and appends in a later transaction
(`AppendDecision`).

**WaveLifecycle.**  `wave` is the row with its version, events and handoffs; `sets`, `selections`,
`packs` are what other repositories store for its items; `requests` the commands in flight; `stray`
remembers items whose stored selection did not reach the wave.  A command builds a successor of
the wave it read (`SourceCheck`, `Approve`, `Stage`, `Handoff`, `Cancel`, the steps of a simulation
and of a selection) and `Persist` compares and sets the version.  `AdmitDurable`, `ProjectDurable` and
`CloseDurable` are what `WaveSimulation` promises of the wave: a reconciliation that finds some
items settled stores them under a new version *without an event*, the last one closes the wave
with one.  The version is therefore at least the number of events plus one, and exceeds it by at most
the items a durable simulation has settled (`Projected`).

**InstructionPackages.**  `packages` and `receipts` are the tables, `ready` the items handed off
with a READY proof pack, `mandate` the latest mandate snapshot, `callers` the release requests (a
batch is a sequence of commands), `readers` the adapters that page through the list.  A release
looks its identity up (`Lookup`), loads the item and pack (`LoadItem`), the mandate and run
(`LoadMandate`), checks supersession and builds (`ValidateSupersession`), looks again when it was
told to supersede (`Recheck`), and inserts or finds the winner (`SavePackage`); nothing locks
across these.  There is no common clock: `created_at` and the snapshot of a listing are taken from
the process that serves the request, so each is any of `Instants`, in no order with the others.

**CompositePublication.**  `definition`, `revisions`, `universes`, `publications`, `receipts` are
the tables of one composite, `client` the commands in progress, `consumer` the cursor and page of a
feed reader, `answers` what was answered.  `Build` makes the record with a server time, `BeginSave`
takes the tenant's advisory lock and decides, `Commit`/`Rollback` end the transaction, `Reread`
answers a repeated command with the original, `Lose` drops a connection before or after the commit;
a page is two statements, the watermark and the rows (`ReadWatermark`, `ReadPage`).

**CompositeEligibility.**  Policies, monthly proposals, approvals and amendments, subjects and
staged controls, each command in two steps: `Prepare` reads and builds, `Save` takes the lock and
checks again what may have changed.  **CompositeRules** has the calculations behind both: correction
windows, reconciliation with the universe, projection of a month, layered thresholds, eligibility.

**CampaignEvidence / Campaigns.**  The first has the immutable document and every command on it as
an operator that returns the next document or a refusal; the second the repository, which reads the
row again, compares and updates under a condition while other requests run, the launch that first
creates a wave, and the stored read model with its rebuild at a start.

**Mandates / MandateHealth, PmQuality / PmQualityRules, OutcomeReviews / OutcomeEvidence,
ConstructionPacks / ConstructionEvidence / ProofPackSections.**  The second of each (and the last
two) are the verdicts as operators; the first the handlers, whose writes are transactions of their
own with other requests, lost answers and crashes in between.  **IdeaActions**, **RunStores** and
**PortfolioMemory** keep their rules and their stores in one module.  In `RunStores` a command that
writes several times (the record of a run, an artifact on first read, a workflow action) is a flight:
`Serve` does what comes before its first write, `Proceed` is each further transaction, `Die` ends it
anywhere, and other commands, the walk and retention come in between; `calls.late` has the rows such
a command wrote when its run was already gone, `calls.shared` the runs that lost edges because one
with their correlation or key expired.  In `Mandates` a monitoring run is named by an instant, which
may be the very one a run of another tenant has read.  `MandateHealth` takes restrictions (active,
binding buys or not), inactive targets and a review cadence from the core snapshot.  `PmQuality`
passes on the refusals of policies and book scopes as the service words them.  **Results** is what a handler
step returns: a value or a refusal.

**RebalanceEngine.**  One action per stage of `run_simulation`; the stages are operators of
`RebalanceTargets` (valuation, universe, targets) and `RebalanceExecution` (intents, tax, turnover,
currency, settlement, rules, gate).  The solver may answer with any point of a grid that meets its
constraints, shifted by up to `SolverSlack` (answers called
`optimal_inaccurate`, weights rounded to four digits).  **Verdicts** runs mandate health on its bounded cases.

The modules named `MC...` give the constants of a run.  `MCComposites` and `MCRecords` run the
feed, the governed months, PM quality, mandates and campaigns; `MCEvidence` runs stores, ideas,
outcomes, packs and memory; `MCCalculations` runs composites, engine and verdicts.  In these three
a behaviour belongs to one `part`, and a property is the conjunction of what the parts promise
under that heading.

## Runs

| Run | Instance | What it shows |
| --- | --- | --- |
| `simulation_workers` | 2 workers, 2 items, 2 attempts, concurrency 1, leases of 2 ticks, timestamps one tick late or early, 2 reasons | `ConcurrencyBound`, `AttemptBudget`, `SettledIsFinal`, `FencedPublication`: capacity, budget and fence hold, settled records stay |
| `simulation_projection` | 1 worker, 2 reconcilers, pages of 1 | `ProjectionAgrees`, `ProjectionIsFinal`, `ImplementsContract`: the projection agrees with the records, is never undone, and implements the contract |
| `simulation_liveness` | 1 worker, 1 reconciler, fair | `SimulationCompletes`: the wave leaves SIMULATING despite crashes, lapsed leases, lost guards and cancellation |
| `submission_rivals` | 2 callers, 2 keys sharing a correlation id, 2 hashes, late timestamps, retention, fair | `OneAuthoritativeRun`, `StaleOwnerNeverPublishes`, `AdmittedCompletes`: one run per key, published by the newest owner; an admitted key completes |
| `async_rivals` | 2 workers; one operation of 2 scenarios, and 2 operations on one correlation id; purges; fair | `NewestOwnerCanPublish`, `PublishedEvidence`, `RunsAccountedFor`, `StartedFinishes`: a result is the evidence of one attempt, kept runs stay in the bundle, started operations finish |
| `workflow_race` | 2 reviewers, 2 runs | `HistoryIsLegal` is violated: an approval lands on a rejection nobody reopened |
| `lifecycle_commands` | 2 commands at a time, 2 items, 3 alternatives (one blocked), 4 mixes of traffic, with durable simulations that project in parts | `ItemsKeepUp`, `ApprovedOnEvidence`, `HistoryExplainsState`, `EventsAppendOnly` |
| `package_release` | 2 callers, 3 identities, 2 items, 3 mandate revisions, 1 adapter, pages of 1, any instants | `RetryRecovers`, `ReleasedAsApproved`, `SupersessionIsGrounded` |
| `package_rivals` | 2 callers | `OneCurrentSet` is violated: two current packages of one item |
| `records` | 2 clients per part; 2 revisions and pages of 1 on the feed; 2 actors and both paths for months; 4 to 7 requests per campaign workload | of the governed months `MonthIsOneChain`, `AuthorityIsGrounded`, `ReservedUntilFinalized`; of the parts `AcknowledgedIsKept` (feed, months, campaigns), `EvidenceIsGrounded` (PM quality, mandates, campaigns), `ReadersMissNothing` (the feed's pages, the latest mandate, the campaigns' read model), `BackendsAgree`, `AmbiguousIsRetained` |
| `calculations` | calendar of 4 days, revisions of up to 3 decisions, stacks of 3 layers, 3 flow events; 3 families of engine inputs; mandate cases | `CompositeIsExact`, `LocksAreKept`, `LimitsAreKept`, `ExecutableAsPlanned`, `HealthIsExplained`: each calculation against a reference |
| `evidence` | up to 2 clients or flights per part, at most 1 lost answer or crash, pages of 1 or 2 | `OutcomeIsEarned`, `WalkMissesNothing`, `EvidenceIsRetained`, `TenantsAreSeparate`, `BackendsAgree` |

`CHECK_DEADLOCK FALSE` stands where the clients of a workload really come to an end.

Why the bounds are enough.  Every lease protocol here has its interesting cases between two owners
of one row, the stale one and the newest: two generations make one takeover, three make a takeover
of a takeover, and a lease as long as one tick more than the skew reaches every order of "expired",
"not yet expired" and "thought to be".  Two items tell "some" from "all".  A page of one row makes
every commit between two pages shift or extend what follows.  A lost answer followed by one
repetition shows every state in which a client can meet its own work.  The workloads name the pairs
of commands that touch the same row; two clients give all their interleavings.  For the protocols
under *Proofs* the theorems remove the bounds.

Each property is paired in `PROJECT.json` with a mutant, an operator of the same module that
changes one definition the way a plausible bug would (a dropped token comparison, a missing guard,
an off-by-one); TLC finds the property violated under the same configuration.

### Fairness

* `simulation_liveness`: a client polls the operation, which is what makes workers claim, execute
  and publish, retry and repeat a cancellation (weak fairness), and reconciliation is attempted on
  every read of the results, so that none of its steps fails for ever although the guard may be
  lost or a process die (strong fairness).  Crashes and lapsed leases are bounded by
  `MaxGeneration`, nothing else is.
* `submission_rivals`: callers repeat a request until it is answered; a claim that has expired is
  taken over if it stays takeable again and again (strong fairness), and a caller that holds a
  claim goes on.
* `async_rivals`: there is no background worker; an operation is executed when somebody calls the
  execute endpoint, so strong fairness of the claim says that an orchestrator keeps calling it.

## Proofs

Eight modules hold proofs, checked to the last leaf with the SMT, Zenon and LS4 backends of TLAPS.
Constants are arbitrary up to the named ASSUMEs of the modules (positive leases and limits,
sentinels apart from data), which TLC evaluates on every run of the module.

* `WaveSimulationProofs`.  `WorkerInv` joins the type invariant, the equality of the stored status
  with the derived one, the attempt budget, and what a worker's claim knows of its record:
  generations only grow, so a claim that is not the newest fails the fence.  Results:
  `TypeCorrect`, `StatusNeverStale`, `AttemptsWithinBudget`, `RetryableNeverStranded` and, as action
  properties, `SettledForEver`, `OnlyTheFencePublishes`, `CancellationSticks`.
  `ConcurrencyIsBounded` needs no strengthening beyond types, but a
  count: a claim adds at most the free capacity, and records that only time or a publication
  touches leave the set of leased ones.  It is about leases that outlast `MaxAhead`: once a clock
  that runs ahead may hold a lease for expired, a rival may take the record's place.  `ProjectionInv`
  adds to `WorkerInv` that projected items show verdicts, that a selection follows a verdict, and
  `ReadsAgree`: what a reconciler saw settled is still settled with that verdict, and while the
  version it read is the stored one, so are the items it read.  The compare-and-swap of the version
  alone then gives `WaveAgreesWithRecords` and `ProjectionNeverUndone`, with the guard held or lost,
  and the refinement `OperationImplementsContract`: each step is a settlement, the closing of the
  wave or a stutter of `WaveSimulationContract`.
* `WaveLifecycleProofs`.  A command works on a wave of its own, so
  `LifecycleInv` says of the stored wave *and* of every wave a command holds that its log explains
  its state, its items keep up with it and rest on evidence (`Sound`), and of every command what
  the version tells it (`Ready`: if the version it loaded is still the stored one, its log continues
  the stored log and it changed nothing but its own item).  `SelectionsTraced` accounts for the gap
  between the commit of a selection and that of the wave.  A projection raises the version and adds no
  event; that the version stays within `Projected` of the log needs that each one settles an item
  more, and that commands keep a settled item settled.  Results: `LogExplainsWave`, `ItemsFollowWave`, `ApprovalsAreEarned`, `LogOnlyGrows`.
* `RunSubmissionProofs`.  `SubmissionInv` ties every caller in flight and every answer given to the
  row of its claim; its heart is that a COMPLETED row never changes (`RowsKept`), so that what a
  caller read before a poll, a purge or a pause is still true when it is used.  Results:
  `SubmissionTypes`, `AnswersAgree`, `PublicationIsWhole`, `StaleOwnersAreFenced`,
  `LeasesAreRespected`.
* `AsyncOperationProofs`.  `AsyncInv` rests on the attempt: every claim counts it up, so the workers
  of one operation hold distinct attempts and at most one of them the newest; a run carries the
  attempt that recorded it, and a result is published from one attempt's own runs.  Results:
  `AsyncTypes`, `NewestOwnersPublish`, `TerminalNeverChanges`, `RunsStayAccountedFor`,
  `PublishedIsEvidence`.
* `InstructionPackagesProofs`.  `ReleaseInv` says what a caller in flight may rely on: a stored
  package never changes and an item handed off stays so (`Keeps`), so what it read of them holds
  when it inserts.  Of the mandate nothing of the kind holds; the package carries the content that
  was read and the approval is compared with that.  Acyclicity of supersession rests on
  `OneInsert`: a step stores at most one package, under an identity that was free, which nothing
  stored can supersede.  Paging rests on `ReadersInv`: rows not yet read lie at the offset or
  behind it, if they are dated up to the snapshot, because commits only push rows back (`PositionGrows`) and a page is never longer than
  its limit (`PageBound`).  Results: the three properties of `package_release`, and
  `AnswersAlwaysAgree`, `ConflictsHold`, `RecordsStayImmutable`, `PagesAlwaysCover`, `TypeCorrect`.
* `CompositePublicationProofs`.  `FeedInv` rests on the advisory lock: the holder took its sequence
  number after every number that is published, and nobody else changes definitions, revisions or
  publications before it is done, so what it decided under the lock still holds when it commits.
  A watermark is therefore never passed by a later commit below it.  Results: `TablesOnlyGrow`,
  `ConsumersMissNothing`, `PublishedExactlyOnce`, `AnswersStayStored`; these are what `records`
  checks of the feed under `ReadersMissNothing` and `AcknowledgedIsKept`.  The theorems name what they ask of the
  constants in `WellPosed` (clients and records are not `None`, workloads are sequences of commands
  that name known revisions, the page limit is a number); the instance of `MCComposites` has all of
  it.
* `CompositeEligibilityProofs`.  A record is prepared from rows and saved in a later transaction.
  `MonthsInv` says what every stored row rests on (`Rows`), what a reserved version may hold
  (`Reservations`), how the approvals of a month hang together and where they were published
  (`Chains`), and what a record that is prepared and not yet saved still finds (`Ready`).  The
  strengthening is needed because no approval looks again at the policy, the universe or the
  proposal it was prepared from: that is sound because rows are never changed or taken back
  (`RowsOnlyGrow`).  What may change in between, the parent revision, the open amendments and the
  reservation, is compared again under the lock, and that is what `Chains` rests on.  Results:
  `MonthsAreOneChain`, `AuthorityStaysGrounded`, `ReservedStayUntilFinalized`, which are the
  properties of `records`, and `AnswersStayRetained`.  `WellPosed` asks that workloads are sequences
  of commands that name known versions and months, that a time is a number, and that `None` is no
  definition.
* `CampaignsProofs`.  `CampaignInv` judges every document by itself (`Legal`) and against the waves
  (`Audited`), the stored ones and those that requests hold alike, because a command makes a legal
  document of a legal one.  Documents are related by `Extends`, "nothing recorded is lost": the
  stored document extends everything that was read from its row and everything that was
  acknowledged, unless a retirement or supersession that checks only the status hit the row.  The
  write that compares the payload then needs no version.  `RestartStands` says of a rebuild in
  progress that it projects documents that were stored.  That a ledger of any length stays legal is
  an induction over data: `ReviewState` replays the controls in a loop, and `ReviewAppend` shows that
  one more control is one more turn of it.  Results: `AcknowledgedStays`, `LaunchesStayAudited`,
  `LedgersStayLegal`, `ReadModelStays`, which are what `records` checks of campaigns under
  `AcknowledgedIsKept`, `EvidenceIsGrounded` and `ReadersMissNothing`.  `WellPosed` asks that the
  requests of the menus are commands, that a row is absent or a new definition at the start, and that
  `None` is neither a document nor a reason for a refusal.  The workloads of `records` have all that
  these two `WellPosed` ask.

The library's induction theorems take an operator as a parameter, which the backends cannot
instantiate.  The proofs use the least element of a set of numbers instead (`LeastNatural`, from the
well-foundedness of `<` on the naturals): a property fails first somewhere, and not there.  Most
leaves name the `Zenon` backend, which proves them faster and with less memory than SMT.

### Only model-checked

* Liveness (`SimulationCompletes`, `AdmittedCompletes`, `StartedFinishes`): fairness and ENABLED are
  outside the prover's reach.
* All properties of `calculations` (`CompositeIsExact`, `LocksAreKept`, `LimitsAreKept`,
  `ExecutableAsPlanned`, `HealthIsExplained`).  Sweeps, budgets, ladders and merges are folds of the
  community modules, whose definitions take an operator as a parameter: the backends cannot
  instantiate a lemma about them, and each fold would have to be written out as a function with an
  induction of its own, as was done for `ReviewState`.  Their arithmetic is of products and
  quotients, which SMT does not decide.
* All properties of `evidence`, and those of `records` about PM quality and mandates
  (`EvidenceIsGrounded`, `ReadersMissNothing` and `BackendsAgree` in those parts, and
  `AmbiguousIsRetained`).  The verdicts of these components (`MandateHealth`, `OutcomeEvidence`,
  `ConstructionEvidence`, `ProofPackSections`, `PmQualityRules`) are the same kind of folds, and
  their pages and latest rows are sorted lists; no proof has been written for them.
* `HistoryIsLegal` and `OneCurrentSet`, which do not hold.

## Findings

Two runs show the code doing other than a document of the repository says; each is described with
the line it contradicts under `findings` in `PROJECT.json`.

* `workflow_race`: the status check and the append are two transactions, so REJECT and then APPROVE
  can both be stored.
* `package_rivals`: the supersession check and the insert are two transactions, so one wave item can
  have two packages that nothing supersedes.

Other things met while modelling, without a run of their own; where one limits what a property
says, the property's comment or the hazard's note in `PROJECT.json` says so:

* Purging a run deletes lineage edges by correlation id and key without the tenant, so that a live
  run which shares one, also another tenant's, loses its edges; and it keeps the
  COMPLETED submission claim, so a replay under the key ends in an error instead of a new run.
* A wave with some items selected and some not cannot be approved: the state that is asked for is
  not among the allowed transitions.
* Two selections of one item may leave the proof pack of the first beside the selection of the
  second; the wave's version check decides which of them it records.
* `ALLOWED_WAVE_TRANSITIONS` lets SIMULATION_FAILED, BLOCKED and HANDOFF_BLOCKED return to
  SOURCE_CHECKED, but no command does that, and none reaches REVIEW_REQUIRED.
* After a cancellation, an item whose worker has died stays RUNNING until the cancellation is
  repeated after the lease has lapsed.
* The hash an approver signs does not cover what the package supersedes.
* A package listing is complete for what had been committed when it began and is dated up to its
  snapshot.  A package dated before the snapshot and committed later may be missed or seen, and one
  that a process with a fast clock dated after the snapshot is not listed.
* A holding of a SUSPENDED instrument is not frozen, as RFC-0002 (line 298), RFC-0005 (line 71) and
  RFC-0006B (line 109) say: the single-position and group limits cut locked targets as well
  (`core/rebalance/targets.py`), and trades are sized by the market value of the snapshot where it
  carries one, so that a locked holding may be sold and even bought.  `LimitsAreKept` asks that only
  a limit cuts a locked weight, and `ExecutableAsPlanned` names both exceptions
  (`LockedHoldingsStay`).
* `generate_proof_pack_from_run` looks its run up by id alone, although the service says durable
  products must use the accessor of the tenant (`core/rebalance_runs/service.py:717`).
  `TenantsAreSeparate` claims that a pack shows a run of its own tenant only for packs made from
  alternatives.
* What a command writes for a run that expired under it (artifact, decision, mapping, history or
  lineage) stays: no later purge looks for it.
* An idea intent that is stored under one key and sent under another is refused by PostgreSQL and
  replayed by the in-memory repository.
* When two requests race to save one proof pack, PostgreSQL answers the loser with the pack it built
  and keeps the loser's references, where memory refuses.
* A score or verdict of PM quality that is computed again keeps its first stamp in PostgreSQL and
  takes the new one in memory.
* Monitoring runs of two tenants that start in one microsecond have one id: PostgreSQL then shows the
  row to neither tenant, memory the later run to its own.
* A launch that is repeated after other evidence was recorded is answered with a correlation
  conflict, and the wave of the first attempt stays unrecorded on the campaign.
* Retiring and superseding a campaign overwrite evidence recorded since they read it.
* The command center of a monitoring run does not show, in PostgreSQL, an exception that an earlier
  run had stored.

## Not modelled

* Connection pool and schema migrations: one process migrates under a lock before it serves, and no
  state of another part depends on either beyond the transactions the modules assume.
* Policy packs: a keyed upsert and delete of one table; a pack reaches the engine as options, which
  `RebalanceInputs` varies directly.
* Clients of the core, risk and advise services: their answers and failures are inputs.
* Observability: no other part depends on it.
* Within the modelled parts: previews and reports that change nothing, wording, the wire formats of
  other services, the verification of signed sources (an input that accepts or refuses), artifact
  contents, and the optimum of the solver (any feasible answer).  The notes of the components in
  `PROJECT.json` say which.
