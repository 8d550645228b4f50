--------------------------- MODULE WaveSimulation ---------------------------
(***************************************************************************)
(* The durable simulation operation of one rebalance wave: workers claim   *)
(* item records under a lease and a generation fence, execute them and     *)
(* publish; callers retry and cancel; reconcilers project the records onto *)
(* the wave under an advisory guard and a version compare-and-swap.        *)
(*                                                                         *)
(* Every action is one committed transaction of the repository, or one     *)
(* read made between two of them.  The system starts in the state the      *)
(* admission transaction commits.                                          *)
(*                                                                         *)
(* Time.  A lease is stored as lease_expires_at and compared with a        *)
(* timestamp the caller read from its own clock before it got the row      *)
(* lock.  Here items[i].lease is lease_expires_at minus the true time, and *)
(* such a timestamp is the true time minus a lag in Lags.                  *)
(***************************************************************************)
EXTENDS Integers, FiniteSets

CONSTANTS
  NumItems,        \* items of the wave; an item is named by its ordinal
  Workers,         \* concurrent callers of execute_wave_simulation_work
  Reconcilers,     \* concurrent callers of reconcile_wave_simulation_operation
  Reasons,         \* cancellation reason codes
  MaxConcurrency,  \* operation.max_concurrency
  MaxAttempts,     \* operation.max_attempts
  LeaseDuration,   \* lease_seconds, in ticks
  MaxLag,          \* how far a timestamp may be behind the true time
  MaxAhead,        \* how far a caller's clock may run ahead of it
  PageSize,        \* limit of one list_simulation_items call
  MaxGeneration,   \* bound: claims of an item after which workers do not fail
  NoReason, NoClaim, NoResult, Nobody

ASSUME ConstantsAssumption ==
  /\ NumItems \in Nat \ {0}
  /\ MaxConcurrency \in Nat \ {0}
  /\ MaxAttempts \in Nat \ {0}
  /\ LeaseDuration \in Nat \ {0}
  /\ MaxLag \in Nat
  /\ MaxAhead \in Nat
  /\ PageSize \in Nat \ {0}
  /\ MaxGeneration \in Nat
  /\ MaxGeneration > MaxAttempts

ASSUME SentinelAssumption ==
  /\ NoReason \notin Reasons
  /\ Nobody \notin Reconcilers
  /\ NoResult \notin {"SOURCE_READY", "SOURCE_BLOCKED", "SIMULATED",
                      "SIMULATION_BLOCKED", "SELECTED", "EXHAUSTED", "FATAL",
                      "EXCEPTION"}

VARIABLES
  status,        \* operation.status, a stored column
  cancelReason,  \* operation.cancel_reason_code
  items,         \* the item records of the operation, by ordinal
  claims,        \* the claim each worker holds in memory
  wave,          \* the wave row: state, version and the state of its items
  rec,           \* what each reconciler has read so far
  guard          \* holder of the reconciliation advisory lock

vars == <<status, cancelReason, items, claims, wave, rec, guard>>

Items == 1..NumItems
Lags == (-MaxAhead)..MaxLag

\* No timestamp tells two leases below this apart.
LeaseFloor == -(MaxLag + 1)

ItemStatuses == {"PENDING", "RUNNING", "SUCCEEDED", "FAILED", "CANCELLED"}

OperationStatuses ==
  {"PENDING", "RUNNING", "PARTIALLY_COMPLETED", "SUCCEEDED", "FAILED",
   "CANCEL_REQUESTED", "CANCELLED"}

\* Wave items: SOURCE_BLOCKED stands for every source-check verdict but READY.
SourceStates == {"SOURCE_READY", "SOURCE_BLOCKED"}
ResultStates == {"SIMULATED", "SIMULATION_BLOCKED"}
WaveItemStates == SourceStates \cup ResultStates \cup {"SELECTED"}

\* How an executed claim ended, before it is published.
Failures == {"EXHAUSTED", "FATAL", "EXCEPTION"}
Outcomes == WaveItemStates \cup Failures \cup {NoResult}

ItemRecord ==
  [status: ItemStatuses, attempt: 0..MaxAttempts, generation: 0..MaxGeneration,
   lease: LeaseFloor..(LeaseDuration + MaxAhead), retryable: BOOLEAN,
   result: WaveItemStates \cup {NoResult}]

Claim ==
  [item: Items, generation: 1..MaxGeneration, attempt: 1..MaxAttempts,
   exhausted: BOOLEAN, outcome: Outcomes]

-----------------------------------------------------------------------------
(* Pure rules of the operation.                                             *)

Retryable(r) ==
  r.status = "FAILED" /\ r.retryable /\ r.attempt < MaxAttempts

Some(its, s) == \E i \in Items : its[i].status = s
Every(its, s) == \A i \in Items : its[i].status = s

DeriveStatus(its, reason) ==
  IF reason # NoReason
    THEN IF Some(its, "RUNNING") THEN "CANCEL_REQUESTED" ELSE "CANCELLED"
  ELSE IF Some(its, "RUNNING") THEN "RUNNING"
  ELSE IF Some(its, "PENDING") \/ \E i \in Items : Retryable(its[i])
    THEN IF Some(its, "SUCCEEDED") \/ Some(its, "FAILED")
           THEN "PARTIALLY_COMPLETED" ELSE "PENDING"
  ELSE IF Every(its, "SUCCEEDED") THEN "SUCCEEDED"
  ELSE IF Every(its, "FAILED") THEN "FAILED"
  ELSE IF Some(its, "SUCCEEDED") \/ Some(its, "FAILED")
    THEN "PARTIALLY_COMPLETED"
  ELSE IF Every(its, "CANCELLED") THEN "CANCELLED" ELSE "PENDING"

ItemIsTerminal(r) ==
  \/ r.status \in {"SUCCEEDED", "CANCELLED"}
  \/ r.status = "FAILED" /\ ~Retryable(r)

\* Mutant: a failure that may be retried is already projected.
ReconciledStateEager(r, s) ==
  IF r.result # NoResult THEN r.result
  ELSE IF r.status \in {"FAILED", "CANCELLED"} THEN "SIMULATION_BLOCKED"
  ELSE s

\* The state a record gives its wave item, which was s.
ReconciledState(r, s) ==
  IF r.result # NoResult THEN r.result
  ELSE IF r.status \in {"FAILED", "CANCELLED"} /\ ~Retryable(r)
    THEN "SIMULATION_BLOCKED"
  ELSE s

\* Mutant: one simulated item makes the whole wave SIMULATED.
ResultStateOfAny(its) ==
  IF \E i \in Items : its[i] = "SIMULATED" THEN "SIMULATED" ELSE "SIMULATION_FAILED"

SimulationResultState(its) ==
  IF \E i \in Items : its[i] = "SIMULATED"
    THEN IF \A i \in Items : its[i] = "SIMULATED"
           THEN "SIMULATED" ELSE "PARTIALLY_SIMULATED"
    ELSE "SIMULATION_FAILED"

-----------------------------------------------------------------------------
(* Claiming, executing and publishing.                                      *)

\* The lease of r is over at a timestamp lag ticks behind the true time.
Expired(r, lag) == r.lease <= -lag

\* Mutant: active leases are counted at the new lease's end, not at claimed_at.
ActiveAtLeaseEnd(lag) ==
  {i \in Items : items[i].status = "RUNNING" /\ items[i].lease > LeaseDuration - lag}

Active(lag) ==
  {i \in Items : items[i].status = "RUNNING" /\ ~Expired(items[i], lag)}

\* Mutant: expired claims are never taken over.
CandidatesPendingOnly(lag) == {i \in Items : items[i].status = "PENDING"}

Candidates(lag) ==
  {i \in Items : \/ items[i].status = "PENDING"
                 \/ items[i].status = "RUNNING" /\ Expired(items[i], lag)}

ClosedToClaims == {"CANCEL_REQUESTED", "CANCELLED", "SUCCEEDED", "FAILED"}

ClaimItem(w, i, lag) ==
  LET exhausted == items[i].attempt >= MaxAttempts
      attempt == IF exhausted THEN items[i].attempt ELSE items[i].attempt + 1
      generation == items[i].generation + 1
  IN /\ items' = [items EXCEPT ![i] =
                    [@ EXCEPT !.status = "RUNNING", !.attempt = attempt,
                              !.generation = generation,
                              !.lease = LeaseDuration - lag]]
     /\ claims' = [claims EXCEPT ![w] =
                    [item |-> i, generation |-> generation,
                     attempt |-> attempt, exhausted |-> exhausted,
                     outcome |-> NoResult]]

ClaimSimulationItems(w, lag) ==
  /\ claims[w] = NoClaim
  /\ status \notin ClosedToClaims
  /\ Cardinality(Active(lag)) < MaxConcurrency
  /\ \E i \in Candidates(lag) :
       /\ \A j \in Candidates(lag) : i <= j
       /\ items[i].generation < MaxGeneration
       /\ ClaimItem(w, i, lag)
  /\ status' = DeriveStatus(items', cancelReason)
  /\ UNCHANGED <<cancelReason, wave, rec, guard>>

\* What simulate_item may return for a wave item read in state s, and the
\* failures raised around it.
SimulateItem(s) ==
  {"FATAL", "EXCEPTION"} \cup (IF s = "SOURCE_READY" THEN ResultStates ELSE {s})

ExecuteClaim(w) ==
  /\ claims[w] # NoClaim
  /\ claims[w].outcome = NoResult
  /\ \E o \in IF claims[w].exhausted THEN {"EXHAUSTED"}
              ELSE SimulateItem(wave.items[claims[w].item]) :
       claims' = [claims EXCEPT ![w].outcome = o]
  /\ UNCHANGED <<status, cancelReason, items, wave, rec, guard>>

\* Mutant: any claim of a RUNNING record may publish.
FenceWithoutGeneration(c, lag) ==
  /\ items[c.item].status = "RUNNING"
  /\ items[c.item].lease >= -lag

\* The fence: only the current claim of a RUNNING record, before its lease ends.
\* The claim token is drawn together with the generation and stands for it.
FenceHolds(c, lag) ==
  /\ items[c.item].status = "RUNNING"
  /\ items[c.item].generation = c.generation
  /\ items[c.item].lease >= -lag

PublishedRecord(r, c) ==
  [r EXCEPT !.status = IF c.outcome \in Failures THEN "FAILED" ELSE "SUCCEEDED",
            !.result = IF c.outcome \in Failures THEN NoResult ELSE c.outcome,
            !.retryable = /\ c.outcome = "EXCEPTION"
                          /\ c.attempt < MaxAttempts
                          /\ cancelReason = NoReason,
            !.lease = 0]

PublishTerminal(w, lag) ==
  /\ claims[w] # NoClaim
  /\ claims[w].outcome # NoResult
  /\ IF FenceHolds(claims[w], lag)
       THEN /\ items' = [items EXCEPT ![claims[w].item] =
                                        PublishedRecord(@, claims[w])]
            /\ status' = DeriveStatus(items', cancelReason)
       ELSE UNCHANGED <<items, status>>
  /\ claims' = [claims EXCEPT ![w] = NoClaim]
  /\ UNCHANGED <<cancelReason, wave, rec, guard>>

\* A worker process dies with its claim; the record stays RUNNING.
WorkerCrash(w) ==
  /\ claims[w] # NoClaim
  /\ claims[w].generation < MaxGeneration
  /\ claims' = [claims EXCEPT ![w] = NoClaim]
  /\ UNCHANGED <<status, cancelReason, items, wave, rec, guard>>

\* Time passes, for every lease at once.
Tick ==
  /\ \A w \in Workers :
       /\ claims[w] # NoClaim
       /\ claims[w].generation = MaxGeneration
       /\ items[claims[w].item].generation = MaxGeneration
       /\ items[claims[w].item].status = "RUNNING"
       => items[claims[w].item].lease > 0
  /\ items' = [i \in Items |->
                 IF items[i].status = "RUNNING" /\ items[i].lease > LeaseFloor
                   THEN [items[i] EXCEPT !.lease = @ - 1] ELSE items[i]]
  /\ UNCHANGED <<status, cancelReason, claims, wave, rec, guard>>

-----------------------------------------------------------------------------
(* Retry and cancellation.                                                  *)

\* Mutant: a retry starts the attempts again.
RetryResetsAttempts(S) ==
  /\ cancelReason = NoReason
  /\ \E i \in S : Retryable(items[i])
  /\ items' = [i \in Items |->
                 IF i \in S /\ Retryable(items[i])
                   THEN [items[i] EXCEPT !.status = "PENDING", !.attempt = 0,
                                         !.retryable = FALSE, !.lease = 0]
                   ELSE items[i]]
  /\ status' = DeriveStatus(items', cancelReason)
  /\ UNCHANGED <<cancelReason, claims, wave, rec, guard>>

RetrySimulationItems(S) ==
  /\ cancelReason = NoReason
  /\ \E i \in S : Retryable(items[i])
  /\ items' = [i \in Items |->
                 IF i \in S /\ Retryable(items[i])
                   THEN [items[i] EXCEPT !.status = "PENDING",
                                         !.retryable = FALSE, !.lease = 0]
                   ELSE items[i]]
  /\ status' = DeriveStatus(items', cancelReason)
  /\ UNCHANGED <<cancelReason, claims, wave, rec, guard>>

Cancellable(r) == r.status \in {"PENDING", "RUNNING"} \/ Retryable(r)

\* Mutant: cancellation takes every failed record.
ReapsAllFailed(r, lag) ==
  \/ r.status \in {"PENDING", "FAILED"}
  \/ r.status = "RUNNING" /\ r.lease < -lag

\* What a cancellation stamped lag ticks ago ends at once.
Reaped(r, lag) ==
  \/ r.status = "PENDING"
  \/ Retryable(r)
  \/ r.status = "RUNNING" /\ r.lease < -lag

CancelSimulationOperation(reason, lag) ==
  /\ status \notin {"SUCCEEDED", "FAILED", "CANCELLED"}
  /\ cancelReason # NoReason \/ \E i \in Items : Cancellable(items[i])
  /\ cancelReason' = IF cancelReason = NoReason THEN reason ELSE cancelReason
  /\ items' = [i \in Items |->
                 IF Reaped(items[i], lag)
                   THEN [items[i] EXCEPT !.status = "CANCELLED",
                                         !.retryable = FALSE, !.lease = 0]
                   ELSE items[i]]
  /\ status' = DeriveStatus(items', cancelReason')
  /\ UNCHANGED <<claims, wave, rec, guard>>

-----------------------------------------------------------------------------
(* Reconciliation of the records onto the wave.                             *)

\* A record not read yet.
Unseen == [state |-> "SOURCE_READY", terminal |-> FALSE]

\* A reconciler that is not inside _reconcile_wave_simulation_operation_locked.
Idle ==
  [pc |-> "idle", version |-> 0, items |-> [i \in Items |-> "SOURCE_READY"],
   offset |-> 0, seen |-> [i \in Items |-> Unseen]]

\* What one record read from a page tells the reconciler about its item.
Seen(i, s) ==
  [state |-> ReconciledState(items[i], s), terminal |-> ItemIsTerminal(items[i])]

Release(r) == guard' = IF guard = r THEN Nobody ELSE guard

Return(r) == rec' = [rec EXCEPT ![r] = Idle] /\ Release(r)

ReconcileEnter(r) ==
  /\ rec[r].pc = "idle"
  /\ wave.state = "SIMULATING"
  /\ guard = Nobody
  /\ guard' = r
  /\ rec' = [rec EXCEPT ![r] = [Idle EXCEPT !.pc = "wave"]]
  /\ UNCHANGED <<status, cancelReason, items, claims, wave>>

ReconcileReadWave(r) ==
  /\ rec[r].pc = "wave"
  /\ IF wave.state # "SIMULATING"
       THEN Return(r)
       ELSE /\ rec' = [rec EXCEPT ![r] = [Idle EXCEPT !.pc = "pages",
                                                      !.version = wave.version,
                                                      !.items = wave.items]]
            /\ UNCHANGED guard
  /\ UNCHANGED <<status, cancelReason, items, claims, wave>>

\* One page: the next PageSize records in ordinal order.
ReconcileReadPage(r) ==
  /\ rec[r].pc = "pages"
  /\ LET offset == rec[r].offset
         next == IF offset + PageSize < NumItems THEN offset + PageSize ELSE NumItems
     IN rec' = [rec EXCEPT
                 ![r].pc = IF next = NumItems THEN "write" ELSE "pages",
                 ![r].offset = next,
                 ![r].seen = [i \in Items |->
                                IF offset < i /\ i <= next
                                  THEN Seen(i, rec[r].items[i]) ELSE rec[r].seen[i]]]
  /\ UNCHANGED <<status, cancelReason, items, claims, wave, guard>>

\* The wave a reconciler builds from what it read.
ProjectedItems(r) == [i \in Items |-> rec[r].seen[i].state]

AllTerminal(r) == \A i \in Items : rec[r].seen[i].terminal

\* Mutant: the wave is updated without comparing its version.
ReconcileWriteBlind(r) ==
  /\ rec[r].pc = "write"
  /\ IF ~AllTerminal(r) /\ ProjectedItems(r) = rec[r].items
       THEN Return(r) /\ UNCHANGED wave
       ELSE /\ wave' = [state |-> IF AllTerminal(r)
                                    THEN SimulationResultState(ProjectedItems(r))
                                    ELSE "SIMULATING",
                        version |-> rec[r].version + 1,
                        items |-> ProjectedItems(r)]
            /\ Return(r)
  /\ UNCHANGED <<status, cancelReason, items, claims>>

ReconcileWrite(r) ==
  /\ rec[r].pc = "write"
  /\ IF ~AllTerminal(r) /\ ProjectedItems(r) = rec[r].items
       THEN Return(r) /\ UNCHANGED wave
     ELSE IF wave.version = rec[r].version
       THEN /\ wave' = [state |-> IF AllTerminal(r)
                                    THEN SimulationResultState(ProjectedItems(r))
                                    ELSE "SIMULATING",
                        version |-> rec[r].version + 1,
                        items |-> ProjectedItems(r)]
            /\ Return(r)
     ELSE /\ rec' = [rec EXCEPT ![r] = [Idle EXCEPT !.pc = "wave"]]
          /\ UNCHANGED <<wave, guard>>
  /\ UNCHANGED <<status, cancelReason, items, claims>>

\* The connection that holds the advisory lock dies; the reconciler, which
\* reads and writes on other connections, goes on without noticing.
GuardLost(r) ==
  /\ guard = r
  /\ guard' = Nobody
  /\ UNCHANGED <<status, cancelReason, items, claims, wave, rec>>

\* The reconciling process dies; its lock goes with its connection.
ReconcileCrash(r) ==
  /\ rec[r].pc # "idle"
  /\ Return(r)
  /\ UNCHANGED <<status, cancelReason, items, claims, wave>>

\* A later wave command: select_persisted_wave_item_alternative.
SelectItemAlternative(i) ==
  /\ wave.state \in {"SIMULATED", "PARTIALLY_SIMULATED"}
  /\ wave.items[i] = "SIMULATED"
  /\ wave' = [wave EXCEPT !.version = @ + 1, !.items[i] = "SELECTED"]
  /\ UNCHANGED <<status, cancelReason, items, claims, rec, guard>>

-----------------------------------------------------------------------------
Init ==
  /\ status = "PENDING"
  /\ cancelReason = NoReason
  /\ items = [i \in Items |->
                [status |-> "PENDING", attempt |-> 0, generation |-> 0,
                 lease |-> 0, retryable |-> FALSE, result |-> NoResult]]
  /\ claims = [w \in Workers |-> NoClaim]
  /\ \E its \in [Items -> SourceStates] :
       wave = [state |-> "SIMULATING", version |-> 1, items |-> its]
  /\ rec = [r \in Reconcilers |-> Idle]
  /\ guard = Nobody

WorkerStep(w) ==
  \/ \E lag \in Lags : ClaimSimulationItems(w, lag)
  \/ ExecuteClaim(w)
  \/ \E lag \in Lags : PublishTerminal(w, lag)

ReconcileStep(r) ==
  \/ ReconcileEnter(r)
  \/ ReconcileReadWave(r)
  \/ ReconcileReadPage(r)
  \/ ReconcileWrite(r)

Next ==
  \/ \E w \in Workers : WorkerStep(w) \/ WorkerCrash(w)
  \/ \E S \in SUBSET Items : RetrySimulationItems(S)
  \/ \E reason \in Reasons, lag \in Lags : CancelSimulationOperation(reason, lag)
  \/ \E r \in Reconcilers : ReconcileStep(r) \/ GuardLost(r) \/ ReconcileCrash(r)
  \/ \E i \in Items : SelectItemAlternative(i)
  \/ Tick

Spec == Init /\ [][Next]_vars

\* The scheduling that a client polling the operation gives: workers go on
\* claiming, executing and publishing, retryable failures are retried, a
\* requested cancellation is repeated, results are read again after a failed
\* reconciliation so that no step of it fails for ever, and time passes.
Fairness ==
  /\ \A w \in Workers :
       /\ WF_vars(\E lag \in Lags : ClaimSimulationItems(w, lag))
       /\ WF_vars(ExecuteClaim(w))
       /\ WF_vars(\E lag \in Lags : PublishTerminal(w, lag))
  /\ WF_vars(RetrySimulationItems(Items))
  /\ WF_vars(/\ cancelReason # NoReason
             /\ \E reason \in Reasons, lag \in Lags :
                  CancelSimulationOperation(reason, lag))
  /\ \A r \in Reconcilers :
       /\ SF_vars(ReconcileEnter(r))
       /\ SF_vars(ReconcileReadWave(r))
       /\ \A n \in 0..NumItems :
            SF_vars(rec[r].offset = n /\ ReconcileReadPage(r))
       /\ SF_vars(ReconcileWrite(r))
  /\ WF_vars(Tick)

FairSpec == Spec /\ Fairness

-----------------------------------------------------------------------------
(* Properties.                                                              *)

RecState ==
  [pc: {"idle", "wave", "pages", "write"}, version: Nat,
   items: [Items -> WaveItemStates], offset: 0..NumItems,
   seen: [Items -> [state: WaveItemStates, terminal: BOOLEAN]]]

\* Every variable has the type its column, model or local variable has.
TypeOK ==
  /\ status \in OperationStatuses
  /\ cancelReason \in Reasons \cup {NoReason}
  /\ items \in [Items -> ItemRecord]
  /\ claims \in [Workers -> Claim \cup {NoClaim}]
  /\ wave \in [state: {"SIMULATING", "SIMULATED", "PARTIALLY_SIMULATED",
                       "SIMULATION_FAILED"},
               version: Nat, items: [Items -> WaveItemStates]]
  /\ rec \in [Reconcilers -> RecState]
  /\ guard \in Reconcilers \cup {Nobody}

\* The stored operation status is never stale: after every transaction it is
\* the status derived from the item records and the cancellation reason.
StatusIsDerived == status = DeriveStatus(items, cancelReason)

\* No more than max_concurrency records are RUNNING under a lease that every
\* caller's clock still takes for live, however stale or fast the timestamps
\* of the claims were (claim_simulation_items counts active leases with the
\* caller's timestamp).
ConcurrencyBound ==
  Cardinality({i \in Items : /\ items[i].status = "RUNNING"
                             /\ items[i].lease > MaxAhead}) <= MaxConcurrency

\* The attempt budget: an item is handed out for financial work once per
\* generation until max_attempts claims, and only as exhausted afterwards, so
\* crashes and expired leases never buy an extra execution (_claim_item).
AttemptBudget ==
  /\ \A i \in Items :
       items[i].attempt = IF items[i].generation < MaxAttempts
                            THEN items[i].generation ELSE MaxAttempts
  /\ \A w \in Workers : claims[w] # NoClaim =>
       claims[w].exhausted = (claims[w].generation > MaxAttempts)

\* A stored retryable flag always means that retry_simulation_items would
\* reopen the record: a failure published after a cancellation, or after the
\* last attempt, never leaves a record waiting for a retry that cannot come.
RetryableCanRetry ==
  \A i \in Items : items[i].retryable =>
    /\ items[i].status = "FAILED"
    /\ items[i].attempt < MaxAttempts
    /\ cancelReason = NoReason

Verdict(r) == ReconciledState(r, "SOURCE_READY")

\* The wave agrees with the records: an item whose state is not a source
\* state has a settled record that says so, and once the wave has left
\* SIMULATING this holds of all its items, although the reconciler read the
\* records page by page while workers published and callers cancelled.
ProjectionAgrees ==
  \A i \in Items :
    \/ wave.state = "SIMULATING" /\ wave.items[i] \in SourceStates
    \/ /\ ItemIsTerminal(items[i])
       /\ \/ wave.items[i] = Verdict(items[i])
          \/ wave.items[i] = "SELECTED" /\ Verdict(items[i]) = "SIMULATED"

\* A settled record never changes again: no late worker, retry, cancellation
\* or second claim touches it.
SettledStep ==
  \A i \in Items : ItemIsTerminal(items[i]) => items'[i] = items[i]
SettledIsFinal == [][SettledStep]_vars

\* Only the newest claim of a record publishes it, and what it publishes is
\* what that claim executed; an older claim whose lease was taken over, or
\* one that lapsed beyond any clock lag, leaves no trace.
FencedStep ==
  \A i \in Items :
    items[i].status = "RUNNING" /\ items'[i].status \in {"SUCCEEDED", "FAILED"} =>
      /\ items[i].lease + MaxLag >= 0
      /\ \E w \in Workers :
           /\ claims[w] # NoClaim
           /\ claims'[w] = NoClaim
           /\ claims[w].item = i
           /\ claims[w].generation = items[i].generation
           /\ items'[i].status = "SUCCEEDED" => items'[i].result = claims[w].outcome
           /\ items'[i].status = "FAILED" => claims[w].outcome \in Failures
FencedPublication == [][FencedStep]_vars

\* Cancellation sticks: the first reason is kept, and from then on no record
\* is claimed or reopened, whatever workers and callers do.
CancelStep ==
  cancelReason # NoReason =>
    /\ cancelReason' = cancelReason
    /\ \A i \in Items :
         /\ items'[i].generation = items[i].generation
         /\ items'[i].status = "PENDING" => items[i].status = "PENDING"
CancelIsFinal == [][CancelStep]_vars

\* What reached the wave stays: a reconciler working from an old read, even
\* one that lost its guard, never takes back an item's projected state, undoes
\* a selection, reopens the wave or lowers its version.
ProjectionStep ==
  /\ wave'.version >= wave.version
  /\ wave.state # "SIMULATING" => wave'.state = wave.state
  /\ \A i \in Items :
       wave.items[i] \notin SourceStates /\ wave'.items[i] # wave.items[i] =>
         wave.items[i] = "SIMULATED" /\ wave'.items[i] = "SELECTED"
ProjectionIsFinal == [][ProjectionStep]_vars

\* What the operation promises, as an abstract specification.
Contract == INSTANCE WaveSimulationContract WITH
  Items <- Items,
  verdict <- [i \in Items |-> IF ItemIsTerminal(items[i])
                                THEN Verdict(items[i]) ELSE "OPEN"],
  state <- wave.state

\* Every step settles open items or closes the wave on the final verdicts.
ImplementsContract == Contract!Spec

\* Under Fairness the wave does not stay in SIMULATING: crashed workers,
\* lapsed leases, lost guards and cancellation all end in a settled wave.
SimulationCompletes == <>(wave.state # "SIMULATING")
=============================================================================
