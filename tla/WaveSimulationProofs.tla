------------------------ MODULE WaveSimulationProofs ------------------------
(***************************************************************************)
(* Proofs about WaveSimulation, for every value of its constants: its      *)
(* types, the exclusion of claims and fencing of stale workers, the reads  *)
(* of callers, and that the operation table keeps the contract of          *)
(* WaveSimulationContract when it is projected.                            *)
(***************************************************************************)
EXTENDS WaveSimulation, FiniteSetTheorems, TLAPS

-----------------------------------------------------------------------------
(* Type correctness.                                                        *)

\* The derived status is one of the operation's statuses.
LEMMA DeriveStatusType ==
  ASSUME NEW its, NEW reason
  PROVE  DeriveStatus(its, reason) \in OperationStatuses
BY Zenon DEF DeriveStatus, OperationStatuses

\* A reconciler's empty state is well typed.
LEMMA IdleType ==
  ASSUME NEW p \in {"idle", "wave"}
  PROVE  [Idle EXCEPT !.pc = p] \in RecState
<1>1. Unseen \in [state: WaveItemStates, terminal: BOOLEAN]
  BY Zenon DEF Unseen, WaveItemStates, SourceStates
<1>2. [i \in Items |-> Unseen] \in [Items -> [state: WaveItemStates, terminal: BOOLEAN]]
  BY <1>1, Zenon
<1>3. [i \in Items |-> "SOURCE_READY"] \in [Items -> WaveItemStates]
  BY Zenon DEF WaveItemStates, SourceStates
<1>4. 0 \in 0..NumItems
  BY ConstantsAssumption
<1> QED
  BY <1>2, <1>3, <1>4, Zenon DEF Idle, RecState

\* The initial state, which the admission transaction commits, is well typed.
LEMMA InitType == Init => TypeOK
<1> SUFFICES ASSUME Init PROVE TypeOK
  BY Zenon
<1>1. items \in [Items -> ItemRecord]
  BY ConstantsAssumption DEF Init, ItemRecord, ItemStatuses, LeaseFloor
<1>2. rec \in [Reconcilers -> RecState]
  <2>1. Idle = [Idle EXCEPT !.pc = "idle"]
    BY DEF Idle
  <2> QED
    BY <2>1, IdleType, Zenon DEF Init
<1>3. wave \in [state: {"SIMULATING", "SIMULATED", "PARTIALLY_SIMULATED",
                        "SIMULATION_FAILED"},
                version: Nat, items: [Items -> WaveItemStates]]
  BY DEF Init, WaveItemStates
<1> QED
  BY <1>1, <1>2, <1>3, Zenon DEF Init, TypeOK, OperationStatuses

\* Updating the fields of an item record with values of their types.
LEMMA ItemRecordUpdate ==
  ASSUME NEW r \in ItemRecord, NEW s \in ItemStatuses, NEW a \in 0..MaxAttempts,
         NEW g \in 0..MaxGeneration, NEW b \in BOOLEAN,
         NEW l \in LeaseFloor..(LeaseDuration + MaxAhead),
         NEW o \in WaveItemStates \cup {NoResult}
  PROVE  /\ [r EXCEPT !.status = s, !.attempt = a, !.generation = g, !.lease = l]
              \in ItemRecord
         /\ [r EXCEPT !.status = s, !.retryable = b, !.lease = l] \in ItemRecord
         /\ [r EXCEPT !.status = s, !.result = o, !.retryable = b, !.lease = l]
              \in ItemRecord
         /\ [r EXCEPT !.lease = l] \in ItemRecord
BY Zenon DEF ItemRecord

\* The leases the actions write are in range.
LEMMA LeaseRange ==
  /\ 0 \in LeaseFloor..(LeaseDuration + MaxAhead)
  /\ \A lag \in Lags : LeaseDuration - lag \in LeaseFloor..(LeaseDuration + MaxAhead)
  /\ \A l \in LeaseFloor..(LeaseDuration + MaxAhead) :
       l > LeaseFloor => l - 1 \in LeaseFloor..(LeaseDuration + MaxAhead)
BY ConstantsAssumption DEF LeaseFloor, Lags

\* Claiming an item keeps the types.
LEMMA ClaimType ==
  ASSUME TypeOK, NEW w \in Workers, NEW lag \in Lags, ClaimSimulationItems(w, lag)
  PROVE  TypeOK'
<1>1. PICK i \in Candidates(lag) :
        /\ \A j \in Candidates(lag) : i <= j
        /\ items[i].generation < MaxGeneration
        /\ ClaimItem(w, i, lag)
  BY Zenon DEF ClaimSimulationItems
<1>2. i \in Items /\ items[i] \in ItemRecord
  BY Zenon DEF Candidates, TypeOK
<1> DEFINE exhausted == items[i].attempt >= MaxAttempts
           attempt == IF exhausted THEN items[i].attempt ELSE items[i].attempt + 1
           generation == items[i].generation + 1
<1>3. /\ attempt \in 0..MaxAttempts /\ attempt \in 1..MaxAttempts
      /\ generation \in 0..MaxGeneration /\ generation \in 1..MaxGeneration
  BY <1>1, <1>2, ConstantsAssumption DEF ItemRecord
<1>4. items' = [items EXCEPT ![i] =
                   [items[i] EXCEPT !.status = "RUNNING", !.attempt = attempt,
                                    !.generation = generation,
                                    !.lease = LeaseDuration - lag]]
  BY <1>1, Zenon DEF ClaimItem
<1>5. claims' = [claims EXCEPT ![w] =
                   [item |-> i, generation |-> generation, attempt |-> attempt,
                    exhausted |-> exhausted, outcome |-> NoResult]]
  BY <1>1, Zenon DEF ClaimItem
<1> HIDE DEF attempt, generation
<1>6. items' \in [Items -> ItemRecord]
  <2>1. [items[i] EXCEPT !.status = "RUNNING", !.attempt = attempt,
                         !.generation = generation,
                         !.lease = LeaseDuration - lag] \in ItemRecord
    BY <1>2, <1>3, LeaseRange, ItemRecordUpdate, Zenon DEF ItemStatuses
  <2> QED
    BY <1>2, <1>4, <2>1, Zenon DEF TypeOK
<1>7. claims' \in [Workers -> Claim \cup {NoClaim}]
  BY <1>2, <1>3, <1>5 DEF TypeOK, Claim, Outcomes
<1>8. status' \in OperationStatuses
  BY DeriveStatusType, Zenon DEF ClaimSimulationItems
<1> QED
  BY <1>6, <1>7, <1>8, Zenon DEF TypeOK, ClaimSimulationItems

\* Executing a claim keeps the types.
LEMMA ExecuteType ==
  ASSUME TypeOK, NEW w \in Workers, ExecuteClaim(w)
  PROVE  TypeOK'
<1>1. claims[w] \in Claim
  BY Zenon DEF TypeOK, ExecuteClaim
<1>2. wave.items[claims[w].item] \in WaveItemStates
  BY <1>1, Zenon DEF TypeOK, Claim
<1>3. PICK o \in Outcomes : claims' = [claims EXCEPT ![w].outcome = o]
  BY <1>2, Zenon
     DEF ExecuteClaim, SimulateItem, Outcomes, Failures, WaveItemStates, ResultStates
<1>4. claims' \in [Workers -> Claim \cup {NoClaim}]
  BY <1>1, <1>3, Zenon DEF TypeOK, Claim
<1> QED
  BY <1>4, Zenon DEF TypeOK, ExecuteClaim

\* Publishing a claim, accepted or fenced out, keeps the types.
LEMMA PublishType ==
  ASSUME TypeOK, NEW w \in Workers, NEW lag \in Lags, PublishTerminal(w, lag)
  PROVE  TypeOK'
<1> DEFINE c == claims[w]
<1>1. c \in Claim /\ c.outcome # NoResult
  BY Zenon DEF TypeOK, PublishTerminal
<1>2. items[c.item] \in ItemRecord /\ c.item \in Items
  BY <1>1, Zenon DEF TypeOK, Claim
<1>3. PublishedRecord(items[c.item], c) \in ItemRecord
  <2> DEFINE o == IF c.outcome \in Failures THEN NoResult ELSE c.outcome
             s == IF c.outcome \in Failures THEN "FAILED" ELSE "SUCCEEDED"
             b == /\ c.outcome = "EXCEPTION" /\ c.attempt < MaxAttempts
                  /\ cancelReason = NoReason
  <2>1. o \in WaveItemStates \cup {NoResult} /\ s \in ItemStatuses /\ b \in BOOLEAN
    BY <1>1, Zenon DEF Claim, Outcomes, ItemStatuses
  <2> HIDE DEF o, s, b
  <2>2. [items[c.item] EXCEPT !.status = s, !.result = o, !.retryable = b, !.lease = 0]
          \in ItemRecord
    BY <1>2, <2>1, LeaseRange, Zenon DEF ItemRecord
  <2> QED
    BY <2>2, Zenon DEF PublishedRecord, o, s, b
<1>4. items' \in [Items -> ItemRecord] /\ status' \in OperationStatuses
  <2>1. CASE FenceHolds(c, lag)
    <3>1. items' = [items EXCEPT ![c.item] = PublishedRecord(items[c.item], c)]
      BY <2>1, Zenon DEF PublishTerminal
    <3>2. status' \in OperationStatuses
      BY <2>1, DeriveStatusType DEF PublishTerminal
    <3> QED
      BY <1>2, <1>3, <3>1, <3>2, Zenon DEF TypeOK
  <2>2. CASE ~FenceHolds(c, lag)
    BY <2>2, Zenon DEF TypeOK, PublishTerminal
  <2> QED
    BY <2>1, <2>2, Zenon
<1>5. claims' \in [Workers -> Claim \cup {NoClaim}]
  BY Zenon DEF TypeOK, PublishTerminal
<1> QED
  BY <1>4, <1>5, Zenon DEF TypeOK, PublishTerminal

\* The passage of time keeps the types.
LEMMA TickType ==
  ASSUME TypeOK, Tick
  PROVE  TypeOK'
<1>1. items' \in [Items -> ItemRecord]
  <2>1. ASSUME NEW i \in Items, items[i].lease > LeaseFloor
        PROVE  [items[i] EXCEPT !.lease = @ - 1] \in ItemRecord
    <3>1. items[i] \in ItemRecord /\ items[i].lease \in LeaseFloor..(LeaseDuration + MaxAhead)
      BY Zenon DEF TypeOK, ItemRecord
    <3>2. items[i].lease - 1 \in LeaseFloor..(LeaseDuration + MaxAhead)
      BY <2>1, <3>1, LeaseRange, Zenon
    <3> QED
      BY <3>1, <3>2, Zenon DEF ItemRecord
  <2> QED
    BY <2>1, Zenon DEF TypeOK, Tick
<1> QED
  BY <1>1, Zenon DEF TypeOK, Tick

\* Retrying and cancelling keep the types.
LEMMA RetryCancelType ==
  ASSUME TypeOK,
         \/ \E S \in SUBSET Items : RetrySimulationItems(S)
         \/ \E reason \in Reasons, lag \in Lags : CancelSimulationOperation(reason, lag)
  PROVE  TypeOK'
<1>1. ASSUME NEW i \in Items, NEW s \in {"PENDING", "CANCELLED"}
      PROVE  [items[i] EXCEPT !.status = s, !.retryable = FALSE, !.lease = 0] \in ItemRecord
  <2>1. items[i] \in ItemRecord /\ s \in ItemStatuses
    BY Zenon DEF TypeOK, ItemStatuses
  <2> QED
    BY <2>1, LeaseRange, Zenon DEF ItemRecord
<1>2. CASE \E S \in SUBSET Items : RetrySimulationItems(S)
  <2>1. PICK S \in SUBSET Items : RetrySimulationItems(S)
    BY <1>2, Zenon
  <2>2. items' \in [Items -> ItemRecord]
    BY <1>1, <2>1, Zenon DEF TypeOK, RetrySimulationItems
  <2>3. status' \in OperationStatuses
    BY <2>1, DeriveStatusType, Zenon DEF RetrySimulationItems
  <2> QED
    BY <2>1, <2>2, <2>3, Zenon DEF TypeOK, RetrySimulationItems
<1>3. CASE \E reason \in Reasons, lag \in Lags : CancelSimulationOperation(reason, lag)
  <2>1. PICK reason \in Reasons, lag \in Lags : CancelSimulationOperation(reason, lag)
    BY <1>3, Zenon
  <2>2. items' \in [Items -> ItemRecord]
    BY <1>1, <2>1, Zenon DEF TypeOK, CancelSimulationOperation
  <2>3. status' \in OperationStatuses
    BY <2>1, DeriveStatusType, Zenon DEF CancelSimulationOperation
  <2>4. cancelReason' \in Reasons \cup {NoReason}
    BY <2>1, Zenon DEF TypeOK, CancelSimulationOperation
  <2> QED
    BY <2>1, <2>2, <2>3, <2>4, Zenon DEF TypeOK, CancelSimulationOperation
<1> QED
  BY <1>2, <1>3, Zenon

\* Every step of a reconciler keeps the types.
LEMMA ReconcileType ==
  ASSUME TypeOK, NEW r \in Reconcilers,
         ReconcileStep(r) \/ GuardLost(r) \/ ReconcileCrash(r)
  PROVE  TypeOK'
<1> USE DEF TypeOK
<1>0. Idle \in RecState /\ [Idle EXCEPT !.pc = "wave"] \in RecState
  <2>1. Idle = [Idle EXCEPT !.pc = "idle"]
    BY DEF Idle
  <2> QED
    BY <2>1, IdleType, Zenon
<1>1. CASE ReconcileEnter(r)
  BY <1>0, <1>1, Zenon DEF ReconcileEnter
<1>2. CASE ReconcileReadWave(r)
  <2>1. CASE wave.state # "SIMULATING"
    BY <1>0, <1>2, <2>1, Zenon DEF ReconcileReadWave, Return, Release
  <2>2. CASE wave.state = "SIMULATING"
    <3>1. [Idle EXCEPT !.pc = "pages", !.version = wave.version, !.items = wave.items]
            \in RecState
      BY <1>0, Zenon DEF RecState
    <3> QED
      BY <1>2, <2>2, <3>1, Zenon DEF ReconcileReadWave
  <2> QED
    BY <2>1, <2>2, Zenon
<1>3. CASE ReconcileReadPage(r)
  <2>1. rec[r] \in RecState
    BY Zenon
  <2> DEFINE next == IF rec[r].offset + PageSize < NumItems
                       THEN rec[r].offset + PageSize ELSE NumItems
             pc == IF next = NumItems THEN "write" ELSE "pages"
             seen == [i \in Items |-> IF rec[r].offset < i /\ i <= next
                                        THEN Seen(i, rec[r].items[i])
                                        ELSE rec[r].seen[i]]
  <2>2. next \in 0..NumItems /\ pc \in {"idle", "wave", "pages", "write"}
    BY <2>1, ConstantsAssumption DEF RecState
  <2>3. seen \in [Items -> [state: WaveItemStates, terminal: BOOLEAN]]
    <3>1. ASSUME NEW i \in Items
          PROVE  Seen(i, rec[r].items[i]) \in [state: WaveItemStates, terminal: BOOLEAN]
      <4>1. ReconciledState(items[i], rec[r].items[i]) \in WaveItemStates
        BY <2>1, Zenon DEF RecState, ItemRecord, ReconciledState, WaveItemStates, ResultStates
      <4>2. ItemIsTerminal(items[i]) \in BOOLEAN
        BY Zenon DEF ItemIsTerminal
      <4> QED
        BY <4>1, <4>2, Zenon DEF Seen
    <3> QED
      BY <2>1, <3>1, Zenon DEF RecState
  <2>4. rec' = [rec EXCEPT ![r] = [rec[r] EXCEPT !.pc = pc, !.offset = next, !.seen = seen]]
    BY <1>3, Zenon DEF ReconcileReadPage
  <2> HIDE DEF next, pc, seen
  <2>5. [rec[r] EXCEPT !.pc = pc, !.offset = next, !.seen = seen] \in RecState
    BY <2>1, <2>2, <2>3, Zenon DEF RecState
  <2>6. rec' \in [Reconcilers -> RecState]
    BY <2>4, <2>5, Zenon
  <2>7. UNCHANGED <<status, cancelReason, items, claims, wave, guard>>
    BY <1>3, Zenon DEF ReconcileReadPage
  <2> QED
    BY <2>6, <2>7, Zenon
<1>4. CASE ReconcileWrite(r)
  <2>1. wave' \in [state: {"SIMULATING", "SIMULATED", "PARTIALLY_SIMULATED",
                           "SIMULATION_FAILED"},
                   version: Nat, items: [Items -> WaveItemStates]]
    <3>1. rec[r].version + 1 \in Nat
      BY DEF RecState
    <3>2. ProjectedItems(r) \in [Items -> WaveItemStates]
      BY DEF RecState, ProjectedItems
    <3>3. SimulationResultState(ProjectedItems(r)) \in
            {"SIMULATED", "PARTIALLY_SIMULATED", "SIMULATION_FAILED"}
      BY Zenon DEF SimulationResultState
    <3> QED
      BY <1>4, <3>1, <3>2, <3>3 DEF ReconcileWrite
  <2>2. rec' \in [Reconcilers -> RecState] /\ guard' \in Reconcilers \cup {Nobody}
    BY <1>0, <1>4, Zenon DEF ReconcileWrite, Return, Release
  <2> QED
    BY <1>4, <2>1, <2>2, Zenon DEF ReconcileWrite
<1>5. CASE GuardLost(r)
  BY <1>5, Zenon DEF GuardLost
<1>6. CASE ReconcileCrash(r)
  BY <1>0, <1>6, Zenon DEF ReconcileCrash, Return, Release
<1> QED
  BY <1>1, <1>2, <1>3, <1>4, <1>5, <1>6, Zenon DEF ReconcileStep

\* Every step keeps the types.
LEMMA TypeStep == TypeOK /\ [Next]_vars => TypeOK'
<1> SUFFICES ASSUME TypeOK, [Next]_vars PROVE TypeOK'
  BY Zenon
<1>1. ASSUME NEW w \in Workers, WorkerStep(w) PROVE TypeOK'
  BY <1>1, ClaimType, ExecuteType, PublishType, Zenon DEF WorkerStep
<1>2. ASSUME NEW w \in Workers, WorkerCrash(w) PROVE TypeOK'
  BY <1>2, Zenon DEF TypeOK, WorkerCrash
<1>3. ASSUME NEW i \in Items, SelectItemAlternative(i) PROVE TypeOK'
  <2>1. /\ wave.version + 1 \in Nat
        /\ [wave.items EXCEPT ![i] = "SELECTED"] \in [Items -> WaveItemStates]
    BY DEF TypeOK, WaveItemStates
  <2>2. wave' = [wave EXCEPT !.version = wave.version + 1,
                             !.items = [wave.items EXCEPT ![i] = "SELECTED"]]
    BY <1>3, Zenon DEF SelectItemAlternative
  <2>3. wave' \in [state: {"SIMULATING", "SIMULATED", "PARTIALLY_SIMULATED",
                           "SIMULATION_FAILED"},
                   version: Nat, items: [Items -> WaveItemStates]]
    BY <2>1, <2>2, Zenon DEF TypeOK
  <2> QED
    BY <1>3, <2>3, Zenon DEF TypeOK, SelectItemAlternative
<1>4. CASE UNCHANGED vars
  BY <1>4, Zenon DEF TypeOK, vars
<1> QED
  BY <1>1, <1>2, <1>3, <1>4, RetryCancelType, ReconcileType, TickType, Zenon DEF Next

\* Every variable keeps its type in every reachable state.
THEOREM TypeCorrect == Spec => []TypeOK
BY InitType, TypeStep, PTL DEF Spec

-----------------------------------------------------------------------------
(* The worker side: the invariant that makes the fence and the budget work. *)

\* A claim is never ahead of its record, and the current claim carries the
\* record's attempt count: publication decides retryability from the claim.
ClaimsMatch ==
  \A w \in Workers : claims[w] # NoClaim =>
    /\ claims[w].generation <= items[claims[w].item].generation
    /\ claims[w].generation = items[claims[w].item].generation =>
         claims[w].attempt = items[claims[w].item].attempt

\* A record has a result exactly when it has succeeded.
ResultWhenSucceeded ==
  \A i \in Items : items[i].result # NoResult <=> items[i].status = "SUCCEEDED"

WorkerInv ==
  /\ TypeOK
  /\ StatusIsDerived
  /\ AttemptBudget
  /\ RetryableCanRetry
  /\ ClaimsMatch
  /\ ResultWhenSucceeded

\* The derived status depends on status, retryable and attempt only.
LEMMA DeriveStatusCongruence ==
  ASSUME NEW its, NEW its2, NEW reason,
         \A i \in Items : /\ its2[i].status = its[i].status
                          /\ its2[i].retryable = its[i].retryable
                          /\ its2[i].attempt = its[i].attempt
  PROVE  DeriveStatus(its2, reason) = DeriveStatus(its, reason)
<1>1. \A s : Some(its2, s) = Some(its, s) /\ Every(its2, s) = Every(its, s)
  BY Zenon DEF Some, Every
<1>2. \A i \in Items : Retryable(its2[i]) = Retryable(its[i])
  BY Zenon DEF Retryable
<1> QED
  BY <1>1, <1>2, Zenon DEF DeriveStatus

\* What a claim changes, field by field.
LEMMA ClaimEffect ==
  ASSUME TypeOK, NEW w \in Workers, NEW lag \in Lags, ClaimSimulationItems(w, lag)
  PROVE  \E i \in Items :
           /\ i \in Candidates(lag)
           /\ items' \in [Items -> ItemRecord]
           /\ items'[i].status = "RUNNING"
           /\ items'[i].attempt = IF items[i].attempt >= MaxAttempts
                                    THEN items[i].attempt ELSE items[i].attempt + 1
           /\ items'[i].generation = items[i].generation + 1
           /\ items'[i].lease = LeaseDuration - lag
           /\ items'[i].retryable = items[i].retryable
           /\ items'[i].result = items[i].result
           /\ \A j \in Items \ {i} : items'[j] = items[j]
           /\ claims' = [claims EXCEPT ![w] =
                [item |-> i, generation |-> items'[i].generation,
                 attempt |-> items'[i].attempt,
                 exhausted |-> items[i].attempt >= MaxAttempts, outcome |-> NoResult]]
<1>1. PICK i \in Candidates(lag) : ClaimItem(w, i, lag)
  BY Zenon DEF ClaimSimulationItems
<1>2. i \in Items
  BY Zenon DEF Candidates
<1>3. items' \in [Items -> ItemRecord]
  BY ClaimType, Zenon DEF TypeOK
<1>4. items \in [Items -> ItemRecord] /\ items[i] \in ItemRecord
  BY <1>2, Zenon DEF TypeOK
<1> DEFINE attempt == IF items[i].attempt >= MaxAttempts
                        THEN items[i].attempt ELSE items[i].attempt + 1
           generation == items[i].generation + 1
<1>5. /\ items' = [items EXCEPT ![i] =
                     [items[i] EXCEPT !.status = "RUNNING", !.attempt = attempt,
                                      !.generation = generation,
                                      !.lease = LeaseDuration - lag]]
      /\ claims' = [claims EXCEPT ![w] =
                     [item |-> i, generation |-> generation, attempt |-> attempt,
                      exhausted |-> items[i].attempt >= MaxAttempts,
                      outcome |-> NoResult]]
  BY <1>1, Zenon DEF ClaimItem
<1> HIDE DEF attempt, generation
<1>6. /\ items'[i].status = "RUNNING"
      /\ items'[i].attempt = attempt
      /\ items'[i].generation = generation
      /\ items'[i].lease = LeaseDuration - lag
      /\ items'[i].retryable = items[i].retryable
      /\ items'[i].result = items[i].result
      /\ \A j \in Items \ {i} : items'[j] = items[j]
  BY <1>2, <1>4, <1>5, Zenon DEF ItemRecord
<1>7. claims' = [claims EXCEPT ![w] =
                   [item |-> i, generation |-> items'[i].generation,
                    attempt |-> items'[i].attempt,
                    exhausted |-> items[i].attempt >= MaxAttempts, outcome |-> NoResult]]
  BY <1>5, <1>6, Zenon
<1> QED
  BY <1>2, <1>3, <1>6, <1>7, Zenon DEF attempt, generation

\* What an accepted publication changes, field by field.
LEMMA PublishEffect ==
  ASSUME TypeOK, NEW w \in Workers, NEW lag \in Lags, PublishTerminal(w, lag),
         FenceHolds(claims[w], lag)
  PROVE  LET c == claims[w]
         IN /\ c \in Claim /\ c # NoClaim /\ c.outcome # NoResult
            /\ items[c.item].status = "RUNNING"
            /\ items[c.item].generation = c.generation
            /\ items' \in [Items -> ItemRecord]
            /\ items'[c.item] = PublishedRecord(items[c.item], c)
            /\ \A j \in Items \ {c.item} : items'[j] = items[j]
            /\ items'[c.item].status =
                 IF c.outcome \in Failures THEN "FAILED" ELSE "SUCCEEDED"
            /\ items'[c.item].result =
                 IF c.outcome \in Failures THEN NoResult ELSE c.outcome
            /\ items'[c.item].retryable =
                 (/\ c.outcome = "EXCEPTION" /\ c.attempt < MaxAttempts
                  /\ cancelReason = NoReason)
            /\ items'[c.item].attempt = items[c.item].attempt
            /\ items'[c.item].generation = items[c.item].generation
            /\ items'[c.item].lease = 0
<1> DEFINE c == claims[w]
<1>1. c \in Claim /\ c # NoClaim /\ c.outcome # NoResult
  BY Zenon DEF TypeOK, PublishTerminal
<1>2. items[c.item] \in ItemRecord /\ c.item \in Items /\ items \in [Items -> ItemRecord]
  BY <1>1, Zenon DEF TypeOK, Claim
<1>3. items' = [items EXCEPT ![c.item] = PublishedRecord(items[c.item], c)]
  BY Zenon DEF PublishTerminal
<1>4. items' \in [Items -> ItemRecord]
  BY PublishType, Zenon DEF TypeOK
<1>5. /\ items'[c.item] = PublishedRecord(items[c.item], c)
      /\ \A j \in Items \ {c.item} : items'[j] = items[j]
  BY <1>2, <1>3, Zenon
<1>6. items[c.item].status = "RUNNING" /\ items[c.item].generation = c.generation
  BY Zenon DEF FenceHolds
<1> HIDE DEF c
<1>7. LET p == PublishedRecord(items[c.item], c)
      IN /\ p.status = IF c.outcome \in Failures THEN "FAILED" ELSE "SUCCEEDED"
         /\ p.result = IF c.outcome \in Failures THEN NoResult ELSE c.outcome
         /\ p.retryable = (/\ c.outcome = "EXCEPTION" /\ c.attempt < MaxAttempts
                           /\ cancelReason = NoReason)
         /\ p.attempt = items[c.item].attempt
         /\ p.generation = items[c.item].generation
         /\ p.lease = 0
  BY <1>2, Zenon DEF PublishedRecord, ItemRecord
<1> QED
  BY <1>1, <1>4, <1>5, <1>6, <1>7, Zenon DEF c

\* What a retry changes, field by field.
LEMMA RetryEffect ==
  ASSUME TypeOK, NEW S \in SUBSET Items, RetrySimulationItems(S), NEW i \in Items
  PROVE  \/ items'[i] = items[i]
         \/ /\ Retryable(items[i])
            /\ items'[i].status = "PENDING"
            /\ items'[i].retryable = FALSE
            /\ items'[i].attempt = items[i].attempt
            /\ items'[i].generation = items[i].generation
            /\ items'[i].lease = 0
            /\ items'[i].result = items[i].result
<1>1. items[i] \in ItemRecord
  BY Zenon DEF TypeOK
<1>2. items'[i] = IF i \in S /\ Retryable(items[i])
                    THEN [items[i] EXCEPT !.status = "PENDING",
                                          !.retryable = FALSE, !.lease = 0]
                    ELSE items[i]
  BY Zenon DEF RetrySimulationItems
<1>3. LET p == [items[i] EXCEPT !.status = "PENDING", !.retryable = FALSE, !.lease = 0]
      IN /\ p.status = "PENDING" /\ p.retryable = FALSE /\ p.lease = 0
         /\ p.attempt = items[i].attempt /\ p.generation = items[i].generation
         /\ p.result = items[i].result
  BY <1>1, Zenon DEF ItemRecord
<1> QED
  BY <1>2, <1>3, Zenon

\* What a cancellation changes, field by field.
LEMMA CancelEffect ==
  ASSUME TypeOK, NEW reason \in Reasons, NEW lag \in Lags,
         CancelSimulationOperation(reason, lag), NEW i \in Items
  PROVE  \/ ~Reaped(items[i], lag) /\ items'[i] = items[i]
         \/ /\ Reaped(items[i], lag)
            /\ items'[i].status = "CANCELLED"
            /\ items'[i].retryable = FALSE
            /\ items'[i].attempt = items[i].attempt
            /\ items'[i].generation = items[i].generation
            /\ items'[i].lease = 0
            /\ items'[i].result = items[i].result
<1>1. items[i] \in ItemRecord
  BY Zenon DEF TypeOK
<1>2. items'[i] = IF Reaped(items[i], lag)
                    THEN [items[i] EXCEPT !.status = "CANCELLED",
                                          !.retryable = FALSE, !.lease = 0]
                    ELSE items[i]
  BY Zenon DEF CancelSimulationOperation
<1>3. LET p == [items[i] EXCEPT !.status = "CANCELLED", !.retryable = FALSE, !.lease = 0]
      IN /\ p.status = "CANCELLED" /\ p.retryable = FALSE /\ p.lease = 0
         /\ p.attempt = items[i].attempt /\ p.generation = items[i].generation
         /\ p.result = items[i].result
  BY <1>1, Zenon DEF ItemRecord
<1> QED
  BY <1>2, <1>3, Zenon

\* Time changes leases of RUNNING records only, and only downwards.
LEMMA TickEffect ==
  ASSUME TypeOK, Tick, NEW i \in Items
  PROVE  /\ items'[i].status = items[i].status
         /\ items'[i].retryable = items[i].retryable
         /\ items'[i].attempt = items[i].attempt
         /\ items'[i].generation = items[i].generation
         /\ items'[i].result = items[i].result
         /\ items'[i].lease <= items[i].lease
         /\ items[i].status # "RUNNING" => items'[i] = items[i]
<1>1. items[i] \in ItemRecord
  BY Zenon DEF TypeOK
<1>2. items[i].lease \in Int
  BY <1>1, ConstantsAssumption DEF ItemRecord, LeaseFloor
<1>3. items'[i] = IF items[i].status = "RUNNING" /\ items[i].lease > LeaseFloor
                    THEN [items[i] EXCEPT !.lease = @ - 1] ELSE items[i]
  BY Zenon DEF Tick
<1>4. LET p == [items[i] EXCEPT !.lease = @ - 1]
      IN /\ p.status = items[i].status /\ p.retryable = items[i].retryable
         /\ p.attempt = items[i].attempt /\ p.generation = items[i].generation
         /\ p.result = items[i].result /\ p.lease = items[i].lease - 1
  BY <1>1, Zenon DEF ItemRecord
<1> QED
  BY <1>2, <1>3, <1>4

\* WorkerInv holds in the state the admission transaction commits.
LEMMA WorkerInvInit == Init => WorkerInv
<1> SUFFICES ASSUME Init PROVE WorkerInv
  BY Zenon
<1>1. \A i \in Items : /\ items[i].status = "PENDING" /\ items[i].attempt = 0
                       /\ items[i].generation = 0 /\ items[i].retryable = FALSE
                       /\ items[i].result = NoResult
  BY Zenon DEF Init
<1>2. 1 \in Items
  BY ConstantsAssumption DEF Items
<1>3. StatusIsDerived
  <2>1. /\ Some(items, "PENDING") /\ ~Some(items, "RUNNING")
        /\ ~Some(items, "SUCCEEDED") /\ ~Some(items, "FAILED")
    BY <1>1, <1>2, Zenon DEF Some
  <2> QED
    BY <2>1, Zenon DEF StatusIsDerived, DeriveStatus, Init
<1>4. AttemptBudget
  BY <1>1, ConstantsAssumption DEF AttemptBudget, Init
<1>5. RetryableCanRetry /\ ClaimsMatch /\ ResultWhenSucceeded
  BY <1>1, Zenon DEF RetryableCanRetry, ClaimsMatch, ResultWhenSucceeded, Init
<1> QED
  BY <1>3, <1>4, <1>5, InitType, Zenon DEF WorkerInv

\* A claim preserves WorkerInv.
LEMMA WorkerInvClaim ==
  ASSUME WorkerInv, NEW w \in Workers, NEW lag \in Lags, ClaimSimulationItems(w, lag)
  PROVE  WorkerInv'
<1> USE DEF WorkerInv
<1>1. PICK i \in Items :
        /\ i \in Candidates(lag)
        /\ items' \in [Items -> ItemRecord]
        /\ items'[i].status = "RUNNING"
        /\ items'[i].attempt = IF items[i].attempt >= MaxAttempts
                                 THEN items[i].attempt ELSE items[i].attempt + 1
        /\ items'[i].generation = items[i].generation + 1
        /\ items'[i].retryable = items[i].retryable
        /\ items'[i].result = items[i].result
        /\ \A j \in Items \ {i} : items'[j] = items[j]
        /\ claims' = [claims EXCEPT ![w] =
             [item |-> i, generation |-> items'[i].generation,
              attempt |-> items'[i].attempt,
              exhausted |-> items[i].attempt >= MaxAttempts, outcome |-> NoResult]]
  BY ClaimEffect
<1>2. items[i].status \in {"PENDING", "RUNNING"}
  BY <1>1, Zenon DEF Candidates
<1>3. \A j \in Items : items[j].attempt \in Nat /\ items[j].generation \in Nat
  BY DEF TypeOK, ItemRecord
<1>4. TypeOK' /\ UNCHANGED cancelReason
  BY ClaimType, Zenon DEF ClaimSimulationItems
<1>5. StatusIsDerived'
  BY <1>4, Zenon DEF StatusIsDerived, ClaimSimulationItems
<1>6. claims \in [Workers -> Claim \cup {NoClaim}]
  BY Zenon DEF TypeOK
<1>7. AttemptBudget'
  <2>1. \A j \in Items : items'[j].attempt = IF items'[j].generation < MaxAttempts
                                               THEN items'[j].generation ELSE MaxAttempts
    BY <1>1, <1>3, ConstantsAssumption DEF AttemptBudget
  <2>2. \A v \in Workers : claims'[v] # NoClaim =>
          claims'[v].exhausted = (claims'[v].generation > MaxAttempts)
    <3>1. (items[i].attempt >= MaxAttempts) = (items[i].generation + 1 > MaxAttempts)
      BY <1>3, ConstantsAssumption DEF AttemptBudget
    <3> QED
      BY <1>1, <1>6, <3>1, Zenon DEF AttemptBudget
  <2> QED
    BY <2>1, <2>2, Zenon DEF AttemptBudget
<1>8. RetryableCanRetry'
  BY <1>1, <1>2, <1>4, Zenon DEF RetryableCanRetry
<1>9. ClaimsMatch'
  <2> SUFFICES ASSUME NEW v \in Workers, claims'[v] # NoClaim
               PROVE  /\ claims'[v].generation <= items'[claims'[v].item].generation
                      /\ claims'[v].generation = items'[claims'[v].item].generation =>
                           claims'[v].attempt = items'[claims'[v].item].attempt
    BY Zenon DEF ClaimsMatch
  <2>1. CASE v = w
    BY <1>1, <1>3, <1>6, <2>1
  <2>2. CASE v # w
    <3>1. claims'[v] = claims[v] /\ claims[v] \in Claim
      BY <1>1, <1>6, <2>2, Zenon
    <3>2. claims[v].item \in Items /\ claims[v].generation \in Nat
      BY <3>1 DEF Claim
    <3>3. CASE claims[v].item = i
      BY <1>1, <1>3, <3>1, <3>2, <3>3 DEF ClaimsMatch
    <3>4. CASE claims[v].item # i
      BY <1>1, <3>1, <3>2, <3>4 DEF ClaimsMatch
    <3> QED
      BY <3>3, <3>4, Zenon
  <2> QED
    BY <2>1, <2>2, Zenon
<1>10. ResultWhenSucceeded'
  BY <1>1, <1>2, Zenon DEF ResultWhenSucceeded
<1> QED
  BY <1>4, <1>5, <1>7, <1>8, <1>9, <1>10, Zenon

\* Publishing, accepted or fenced out, preserves WorkerInv.
LEMMA WorkerInvPublish ==
  ASSUME WorkerInv, NEW w \in Workers, NEW lag \in Lags, PublishTerminal(w, lag)
  PROVE  WorkerInv'
<1> USE DEF WorkerInv
<1> DEFINE c == claims[w]
<1>1. TypeOK' /\ UNCHANGED cancelReason
  BY PublishType, Zenon DEF PublishTerminal
<1>2. claims' = [claims EXCEPT ![w] = NoClaim] /\ claims \in [Workers -> Claim \cup {NoClaim}]
  BY Zenon DEF TypeOK, PublishTerminal
<1>3. \A v \in Workers : claims'[v] # NoClaim =>
        claims'[v] = claims[v] /\ claims[v] \in Claim /\ claims[v].item \in Items
  BY <1>2, Zenon DEF Claim
<1>4. CASE ~FenceHolds(c, lag)
  <2>1. UNCHANGED <<items, status>>
    BY <1>4, Zenon DEF PublishTerminal
  <2> QED
    BY <1>1, <1>3, <2>1, Zenon DEF StatusIsDerived, AttemptBudget, RetryableCanRetry,
                            ClaimsMatch, ResultWhenSucceeded
<1>5. CASE FenceHolds(c, lag)
  <2>1. /\ c \in Claim /\ c # NoClaim /\ c.item \in Items /\ c.outcome # NoResult
        /\ items[c.item].status = "RUNNING"
        /\ items[c.item].generation = c.generation
        /\ \A j \in Items \ {c.item} : items'[j] = items[j]
        /\ items'[c.item].status =
             IF c.outcome \in Failures THEN "FAILED" ELSE "SUCCEEDED"
        /\ items'[c.item].result =
             IF c.outcome \in Failures THEN NoResult ELSE c.outcome
        /\ items'[c.item].retryable =
             (/\ c.outcome = "EXCEPTION" /\ c.attempt < MaxAttempts
              /\ cancelReason = NoReason)
        /\ items'[c.item].attempt = items[c.item].attempt
        /\ items'[c.item].generation = items[c.item].generation
    BY <1>5, PublishEffect, Zenon DEF Claim
  <2>2. StatusIsDerived'
    BY <1>1, <1>5, Zenon DEF StatusIsDerived, PublishTerminal
  <2>3. c.attempt = items[c.item].attempt
    BY <2>1, Zenon DEF ClaimsMatch
  <2> HIDE DEF c
  <2>4. AttemptBudget'
    BY <1>3, <2>1 DEF AttemptBudget
  <2>5. RetryableCanRetry'
    BY <1>1, <2>1, <2>3, Zenon DEF RetryableCanRetry, Failures
  <2>6. ClaimsMatch'
    BY <1>3, <2>1 DEF ClaimsMatch
  <2>7. ResultWhenSucceeded'
    BY <2>1, Zenon DEF ResultWhenSucceeded
  <2> QED
    BY <1>1, <2>2, <2>4, <2>5, <2>6, <2>7, Zenon
<1> QED
  BY <1>4, <1>5, Zenon

\* Retry preserves WorkerInv.
LEMMA WorkerInvRetry ==
  ASSUME WorkerInv, NEW S \in SUBSET Items, RetrySimulationItems(S)
  PROVE  WorkerInv'
<1> USE DEF WorkerInv
<1>1. TypeOK' /\ UNCHANGED <<cancelReason, claims>>
  BY RetryCancelType, Zenon DEF RetrySimulationItems
<1>2. \A i \in Items :
        \/ items'[i] = items[i]
        \/ /\ Retryable(items[i])
           /\ items'[i].status = "PENDING"
           /\ items'[i].retryable = FALSE
           /\ items'[i].attempt = items[i].attempt
           /\ items'[i].generation = items[i].generation
           /\ items'[i].result = items[i].result
  BY RetryEffect, Zenon
<1>3. StatusIsDerived'
  BY <1>1, Zenon DEF StatusIsDerived, RetrySimulationItems
<1>4. AttemptBudget'
  BY <1>1, <1>2, Zenon DEF AttemptBudget
<1>5. RetryableCanRetry'
  BY <1>1, <1>2, Zenon DEF RetryableCanRetry
<1>6. ClaimsMatch'
  <2>1. \A v \in Workers : claims[v] # NoClaim => claims[v].item \in Items
    BY Zenon DEF TypeOK, Claim
  <2> QED
    BY <1>1, <1>2, <2>1, Zenon DEF ClaimsMatch
<1>7. ResultWhenSucceeded'
  BY <1>2 DEF ResultWhenSucceeded, Retryable
<1> QED
  BY <1>1, <1>3, <1>4, <1>5, <1>6, <1>7, Zenon

\* Cancellation preserves WorkerInv.
LEMMA WorkerInvCancel ==
  ASSUME WorkerInv, NEW reason \in Reasons, NEW lag \in Lags,
         CancelSimulationOperation(reason, lag)
  PROVE  WorkerInv'
<1> USE DEF WorkerInv
<1>1. TypeOK' /\ UNCHANGED claims
  BY RetryCancelType, Zenon DEF CancelSimulationOperation
<1>2. \A i \in Items :
        \/ ~Reaped(items[i], lag) /\ items'[i] = items[i]
        \/ /\ Reaped(items[i], lag)
           /\ items'[i].status = "CANCELLED"
           /\ items'[i].retryable = FALSE
           /\ items'[i].attempt = items[i].attempt
           /\ items'[i].generation = items[i].generation
           /\ items'[i].result = items[i].result
  BY CancelEffect, Zenon
<1>3. StatusIsDerived'
  BY Zenon DEF StatusIsDerived, CancelSimulationOperation
<1>4. AttemptBudget'
  BY <1>1, <1>2, Zenon DEF AttemptBudget
<1>5. RetryableCanRetry'
  <2>1. \A i \in Items : items[i].retryable => Reaped(items[i], lag)
    BY Zenon DEF RetryableCanRetry, Reaped, Retryable
  <2> QED
    BY <1>2, <2>1, Zenon DEF RetryableCanRetry
<1>6. ClaimsMatch'
  <2>1. \A v \in Workers : claims[v] # NoClaim => claims[v].item \in Items
    BY Zenon DEF TypeOK, Claim
  <2> QED
    BY <1>1, <1>2, <2>1, Zenon DEF ClaimsMatch
<1>7. ResultWhenSucceeded'
  BY <1>2, Zenon DEF ResultWhenSucceeded, Reaped, Retryable
<1> QED
  BY <1>1, <1>3, <1>4, <1>5, <1>6, <1>7, Zenon

\* The passage of time preserves WorkerInv.
LEMMA WorkerInvTick ==
  ASSUME WorkerInv, Tick
  PROVE  WorkerInv'
<1> USE DEF WorkerInv
<1>1. TypeOK' /\ UNCHANGED <<status, cancelReason, claims>>
  BY TickType, Zenon DEF Tick
<1>2. \A i \in Items :
        /\ items'[i].status = items[i].status
        /\ items'[i].retryable = items[i].retryable
        /\ items'[i].attempt = items[i].attempt
        /\ items'[i].generation = items[i].generation
        /\ items'[i].result = items[i].result
  BY TickEffect, Zenon
<1>3. StatusIsDerived'
  BY <1>1, <1>2, DeriveStatusCongruence, Zenon DEF StatusIsDerived
<1>4. AttemptBudget' /\ RetryableCanRetry' /\ ResultWhenSucceeded'
  BY <1>1, <1>2, Zenon DEF AttemptBudget, RetryableCanRetry, ResultWhenSucceeded
<1>5. ClaimsMatch'
  <2>1. \A v \in Workers : claims[v] # NoClaim => claims[v].item \in Items
    BY Zenon DEF TypeOK, Claim
  <2> QED
    BY <1>1, <1>2, <2>1, Zenon DEF ClaimsMatch
<1> QED
  BY <1>1, <1>3, <1>4, <1>5, Zenon

\* Executing or losing a claim, and every step that touches neither the
\* records nor the claims, preserves WorkerInv.
LEMMA WorkerInvFrame ==
  ASSUME WorkerInv, TypeOK', UNCHANGED <<status, cancelReason, items>>,
         \A v \in Workers : claims'[v] # NoClaim =>
           /\ claims[v] # NoClaim
           /\ claims'[v].item = claims[v].item
           /\ claims'[v].generation = claims[v].generation
           /\ claims'[v].attempt = claims[v].attempt
           /\ claims'[v].exhausted = claims[v].exhausted
  PROVE  WorkerInv'
BY DEF WorkerInv, StatusIsDerived, AttemptBudget, RetryableCanRetry, ClaimsMatch,
       ResultWhenSucceeded

\* Every step preserves WorkerInv.
LEMMA WorkerInvStep == WorkerInv /\ [Next]_vars => WorkerInv'
<1> SUFFICES ASSUME WorkerInv, [Next]_vars PROVE WorkerInv'
  BY Zenon
<1>0. TypeOK /\ TypeOK'
  BY TypeStep, Zenon DEF WorkerInv
<1>1. ASSUME NEW w \in Workers, ExecuteClaim(w) PROVE WorkerInv'
  <2>1. PICK o : claims' = [claims EXCEPT ![w].outcome = o]
    BY <1>1, Zenon DEF ExecuteClaim
  <2>2. claims \in [Workers -> Claim \cup {NoClaim}] /\ claims[w] # NoClaim
    BY <1>0, <1>1, Zenon DEF TypeOK, ExecuteClaim
  <2>3. \A v \in Workers : claims'[v] # NoClaim =>
           /\ claims[v] # NoClaim
           /\ claims'[v].item = claims[v].item
           /\ claims'[v].generation = claims[v].generation
           /\ claims'[v].attempt = claims[v].attempt
           /\ claims'[v].exhausted = claims[v].exhausted
    BY <2>1, <2>2, Zenon DEF Claim
  <2> QED
    BY <1>0, <1>1, <2>3, WorkerInvFrame, Zenon DEF ExecuteClaim
<1>2. ASSUME NEW w \in Workers, WorkerStep(w) PROVE WorkerInv'
  BY <1>1, <1>2, WorkerInvClaim, WorkerInvPublish, Zenon DEF WorkerStep
<1>3. ASSUME NEW w \in Workers, WorkerCrash(w) PROVE WorkerInv'
  BY <1>0, <1>3, WorkerInvFrame, Zenon DEF WorkerCrash, TypeOK
<1>4. ASSUME NEW r \in Reconcilers, ReconcileStep(r) \/ GuardLost(r) \/ ReconcileCrash(r)
      PROVE  WorkerInv'
  <2>1. UNCHANGED <<status, cancelReason, items, claims>>
    BY <1>4, Zenon DEF ReconcileStep, ReconcileEnter, ReconcileReadWave, ReconcileReadPage,
                ReconcileWrite, GuardLost, ReconcileCrash
  <2> QED
    BY <1>0, <2>1, WorkerInvFrame, Zenon
<1>5. ASSUME NEW i \in Items, SelectItemAlternative(i) PROVE WorkerInv'
  BY <1>0, <1>5, WorkerInvFrame, Zenon DEF SelectItemAlternative
<1>6. CASE UNCHANGED vars
  BY <1>0, <1>6, WorkerInvFrame, Zenon DEF vars
<1> QED
  BY <1>2, <1>3, <1>4, <1>5, <1>6, WorkerInvRetry, WorkerInvCancel, WorkerInvTick, Zenon
     DEF Next

\* The fence-and-budget invariant holds in every reachable state.
THEOREM WorkerInvHolds == Spec => []WorkerInv
BY WorkerInvInit, WorkerInvStep, PTL DEF Spec

\* The stored operation status is never stale (_refresh_operation_status runs
\* in every transaction that changes a record or the cancellation reason).
THEOREM StatusNeverStale == Spec => []StatusIsDerived
<1>1. WorkerInv => StatusIsDerived
  BY Zenon DEF WorkerInv
<1> QED
  BY <1>1, WorkerInvHolds, PTL

\* No item is executed more often than max_attempts, whatever workers crash
\* or outlive their leases (_claim_item).
THEOREM AttemptsWithinBudget == Spec => []AttemptBudget
<1>1. WorkerInv => AttemptBudget
  BY Zenon DEF WorkerInv
<1> QED
  BY <1>1, WorkerInvHolds, PTL

\* A record flagged retryable can be retried: a publication that races a
\* cancellation never leaves one waiting (_publish_simulation_item_terminal).
THEOREM RetryableNeverStranded == Spec => []RetryableCanRetry
<1>1. WorkerInv => RetryableCanRetry
  BY Zenon DEF WorkerInv
<1> QED
  BY <1>1, WorkerInvHolds, PTL

-----------------------------------------------------------------------------
(* Action properties of the worker side.                                    *)

\* Steps of reconcilers and later commands leave records and claims alone.
LEMMA OtherStepsKeepRecords ==
  ASSUME [Next]_vars,
         ~ \E w \in Workers, lag \in Lags : ClaimSimulationItems(w, lag),
         ~ \E w \in Workers, lag \in Lags : PublishTerminal(w, lag),
         ~ \E S \in SUBSET Items : RetrySimulationItems(S),
         ~ \E reason \in Reasons, lag \in Lags : CancelSimulationOperation(reason, lag),
         ~ Tick
  PROVE  UNCHANGED <<items, cancelReason, status>>
BY Zenon DEF Next, WorkerStep, ExecuteClaim, WorkerCrash, ReconcileStep, ReconcileEnter,
       ReconcileReadWave, ReconcileReadPage, ReconcileWrite, GuardLost, ReconcileCrash,
       SelectItemAlternative, vars

\* A settled record never changes again, in any reachable step.
LEMMA SettledStepHolds == WorkerInv /\ [Next]_vars => SettledStep
<1> SUFFICES ASSUME WorkerInv, [Next]_vars, NEW i \in Items, ItemIsTerminal(items[i])
             PROVE  items'[i] = items[i]
  BY Zenon DEF SettledStep
<1>0. TypeOK
  BY Zenon DEF WorkerInv
<1>1. items[i].status \notin {"PENDING", "RUNNING"} /\ ~Retryable(items[i])
  BY Zenon DEF ItemIsTerminal, Retryable
<1>2. ASSUME NEW w \in Workers, NEW lag \in Lags, ClaimSimulationItems(w, lag)
      PROVE  items'[i] = items[i]
  <2>1. PICK k \in Items : k \in Candidates(lag) /\ \A j \in Items \ {k} : items'[j] = items[j]
    BY <1>0, <1>2, ClaimEffect
  <2> QED
    BY <1>1, <2>1, Zenon DEF Candidates
<1>3. ASSUME NEW w \in Workers, NEW lag \in Lags, PublishTerminal(w, lag)
      PROVE  items'[i] = items[i]
  <2>1. CASE FenceHolds(claims[w], lag)
    BY <1>0, <1>1, <1>3, <2>1, PublishEffect, Zenon
  <2>2. CASE ~FenceHolds(claims[w], lag)
    BY <1>3, <2>2, Zenon DEF PublishTerminal
  <2> QED
    BY <2>1, <2>2, Zenon
<1>4. ASSUME NEW S \in SUBSET Items, RetrySimulationItems(S) PROVE items'[i] = items[i]
  BY <1>0, <1>1, <1>4, RetryEffect, Zenon
<1>5. ASSUME NEW reason \in Reasons, NEW lag \in Lags, CancelSimulationOperation(reason, lag)
      PROVE  items'[i] = items[i]
  BY <1>0, <1>1, <1>5, CancelEffect, Zenon DEF Reaped
<1>6. ASSUME Tick PROVE items'[i] = items[i]
  BY <1>0, <1>1, <1>6, TickEffect, Zenon
<1> QED
  BY <1>2, <1>3, <1>4, <1>5, <1>6, OtherStepsKeepRecords, Zenon

\* No late worker, retry, cancellation or second claim touches a settled record.
THEOREM SettledForEver == Spec => SettledIsFinal
BY WorkerInvHolds, SettledStepHolds, PTL DEF Spec, SettledIsFinal

\* Only the newest claim publishes, and within the clock lag of its lease.
LEMMA FencedStepHolds == WorkerInv /\ [Next]_vars => FencedStep
<1> SUFFICES ASSUME WorkerInv, [Next]_vars, NEW i \in Items,
                    items[i].status = "RUNNING",
                    items'[i].status \in {"SUCCEEDED", "FAILED"}
             PROVE  /\ items[i].lease + MaxLag >= 0
                    /\ \E w \in Workers :
                         /\ claims[w] # NoClaim
                         /\ claims'[w] = NoClaim
                         /\ claims[w].item = i
                         /\ claims[w].generation = items[i].generation
                         /\ items'[i].status = "SUCCEEDED" =>
                              items'[i].result = claims[w].outcome
                         /\ items'[i].status = "FAILED" =>
                              claims[w].outcome \in Failures
  BY Zenon DEF FencedStep
<1>0. TypeOK
  BY Zenon DEF WorkerInv
<1>2. ~ \E w \in Workers, lag \in Lags : ClaimSimulationItems(w, lag)
  <2> SUFFICES ASSUME NEW w \in Workers, NEW lag \in Lags, ClaimSimulationItems(w, lag)
               PROVE  FALSE
    BY Zenon
  <2>1. PICK k \in Items : /\ items'[k].status = "RUNNING"
                           /\ \A j \in Items \ {k} : items'[j] = items[j]
    BY <1>0, ClaimEffect, Zenon
  <2> QED
    BY <2>1, Zenon
<1>3. ~ \E S \in SUBSET Items : RetrySimulationItems(S)
  BY <1>0, RetryEffect, Zenon
<1>4. ~ \E reason \in Reasons, lag \in Lags : CancelSimulationOperation(reason, lag)
  BY <1>0, CancelEffect, Zenon
<1>5. ~Tick
  BY <1>0, TickEffect, Zenon
<1>6. PICK w \in Workers, lag \in Lags : PublishTerminal(w, lag)
  BY <1>2, <1>3, <1>4, <1>5, OtherStepsKeepRecords, Zenon
<1>7. FenceHolds(claims[w], lag)
  BY <1>6, Zenon DEF PublishTerminal
<1>8. /\ claims[w] \in Claim /\ claims[w] # NoClaim
      /\ items[claims[w].item].generation = claims[w].generation
      /\ \A j \in Items \ {claims[w].item} : items'[j] = items[j]
      /\ items'[claims[w].item].status =
           IF claims[w].outcome \in Failures THEN "FAILED" ELSE "SUCCEEDED"
      /\ items'[claims[w].item].result =
           IF claims[w].outcome \in Failures THEN NoResult ELSE claims[w].outcome
  BY <1>0, <1>6, <1>7, PublishEffect, Zenon
<1>9. claims[w].item = i
  BY <1>8, Zenon
<1>10. claims'[w] = NoClaim
  BY <1>0, <1>6, Zenon DEF TypeOK, PublishTerminal
<1>11. items[i].lease + MaxLag >= 0
  <2>1. items[i].lease >= -lag
    BY <1>7, <1>9, Zenon DEF FenceHolds
  <2>2. items[i].lease \in Int
    BY <1>0, ConstantsAssumption DEF TypeOK, ItemRecord, LeaseFloor
  <2> QED
    BY <2>1, <2>2, ConstantsAssumption DEF Lags
<1> QED
  BY <1>8, <1>9, <1>10, <1>11, Zenon

\* Only the current claim of a record, before its lease ends by its caller's
\* clock, can publish it (_publish_simulation_item_terminal).
THEOREM OnlyTheFencePublishes == Spec => FencedPublication
BY WorkerInvHolds, FencedStepHolds, PTL DEF Spec, FencedPublication

\* Cancellation sticks in every reachable step.
LEMMA CancelStepHolds == WorkerInv /\ [Next]_vars => CancelStep
<1> SUFFICES ASSUME WorkerInv, [Next]_vars, cancelReason # NoReason
             PROVE  /\ cancelReason' = cancelReason
                    /\ \A i \in Items :
                         /\ items'[i].generation = items[i].generation
                         /\ items'[i].status = "PENDING" => items[i].status = "PENDING"
  BY Zenon DEF CancelStep
<1>0. TypeOK
  BY Zenon DEF WorkerInv
<1>1. status \in {"CANCEL_REQUESTED", "CANCELLED"}
  BY Zenon DEF WorkerInv, StatusIsDerived, DeriveStatus
<1>2. ~ \E w \in Workers, lag \in Lags : ClaimSimulationItems(w, lag)
  BY <1>1, Zenon DEF ClaimSimulationItems, ClosedToClaims
<1>3. ~ \E S \in SUBSET Items : RetrySimulationItems(S)
  BY Zenon DEF RetrySimulationItems
<1>4. ASSUME NEW w \in Workers, NEW lag \in Lags, PublishTerminal(w, lag)
      PROVE  /\ cancelReason' = cancelReason
             /\ \A i \in Items :
                  /\ items'[i].generation = items[i].generation
                  /\ items'[i].status = "PENDING" => items[i].status = "PENDING"
  <2>1. CASE FenceHolds(claims[w], lag)
    BY <1>0, <1>4, <2>1, PublishEffect, Zenon DEF PublishTerminal
  <2>2. CASE ~FenceHolds(claims[w], lag)
    BY <1>4, <2>2, Zenon DEF PublishTerminal
  <2> QED
    BY <2>1, <2>2, Zenon
<1>5. ASSUME NEW reason \in Reasons, NEW lag \in Lags, CancelSimulationOperation(reason, lag)
      PROVE  /\ cancelReason' = cancelReason
             /\ \A i \in Items :
                  /\ items'[i].generation = items[i].generation
                  /\ items'[i].status = "PENDING" => items[i].status = "PENDING"
  BY <1>0, <1>5, CancelEffect, Zenon DEF CancelSimulationOperation
<1>6. ASSUME Tick
      PROVE  /\ cancelReason' = cancelReason
             /\ \A i \in Items :
                  /\ items'[i].generation = items[i].generation
                  /\ items'[i].status = "PENDING" => items[i].status = "PENDING"
  BY <1>0, <1>6, TickEffect, Zenon DEF Tick
<1> QED
  BY <1>2, <1>3, <1>4, <1>5, <1>6, OtherStepsKeepRecords, Zenon

\* The first cancellation reason is kept and nothing is claimed or reopened
\* after it (claim_simulation_items, retry_simulation_items,
\* cancel_simulation_operation).
THEOREM CancellationSticks == Spec => CancelIsFinal
BY WorkerInvHolds, CancelStepHolds, PTL DEF Spec, CancelIsFinal

-----------------------------------------------------------------------------
(* The concurrency bound.                                                   *)

\* The records that are RUNNING under a lease no caller takes for over.
Leased == {i \in Items : items[i].status = "RUNNING" /\ items[i].lease > MaxAhead}

\* ConcurrencyBound is stated of the leased records.
LEMMA BoundOfLeased == ConcurrencyBound <=> Cardinality(Leased) <= MaxConcurrency
BY Zenon DEF ConcurrencyBound, Leased

\* A set of records is finite, and a smaller set has no more members.
LEMMA FiniteItems ==
  /\ \A S \in SUBSET Items : IsFiniteSet(S) /\ Cardinality(S) \in Nat
  /\ \A S, T \in SUBSET Items : S \subseteq T => Cardinality(S) <= Cardinality(T)
<1>1. IsFiniteSet(Items)
  BY FS_Interval, ConstantsAssumption DEF Items
<1>2. \A S \in SUBSET Items : IsFiniteSet(S) /\ Cardinality(S) \in Nat
  BY <1>1, FS_Subset, FS_CardinalityType, Zenon
<1>3. \A S, T \in SUBSET Items : S \subseteq T => Cardinality(S) <= Cardinality(T)
  BY <1>2, FS_Subset, Zenon
<1> QED
  BY <1>2, <1>3, Zenon

\* A step that puts no record under a lease keeps the bound.
LEMMA BoundKept ==
  ASSUME ConcurrencyBound, Leased' \subseteq Leased
  PROVE  ConcurrencyBound'
<1>1. Leased \in SUBSET Items /\ Leased' \in SUBSET Items
  BY Zenon DEF Leased
<1>2. Cardinality(Leased') <= Cardinality(Leased)
  BY <1>1, FiniteItems, Zenon
<1>3. Cardinality(Leased) \in Nat /\ Cardinality(Leased') \in Nat
  BY <1>1, FiniteItems, Zenon
<1>4. Cardinality(Leased) <= MaxConcurrency
  BY BoundOfLeased, Zenon
<1>5. Cardinality(Leased') <= MaxConcurrency
  BY <1>2, <1>3, <1>4, ConstantsAssumption
<1> QED
  BY <1>5, Zenon DEF ConcurrencyBound, Leased

\* A claim counts every leased record among the active ones, whatever its
\* timestamp, and leases one more.
LEMMA BoundClaim ==
  ASSUME TypeOK, ConcurrencyBound, NEW w \in Workers, NEW lag \in Lags,
         ClaimSimulationItems(w, lag)
  PROVE  ConcurrencyBound'
<1>1. PICK i \in Items : \A j \in Items \ {i} : items'[j] = items[j]
  BY ClaimEffect, Zenon
<1>2. \A j \in Items : items[j].lease \in Int
  BY ConstantsAssumption DEF TypeOK, ItemRecord, LeaseFloor
<1>3. Leased \subseteq Active(lag)
  BY <1>2, ConstantsAssumption DEF Leased, Active, Expired, Lags
<1>4. Leased' \subseteq Leased \cup {i}
  BY <1>1, Zenon DEF Leased
<1>5. Active(lag) \in SUBSET Items /\ Leased \in SUBSET Items /\ Leased' \in SUBSET Items
  BY Zenon DEF Active, Leased
<1>6. Cardinality(Leased) <= Cardinality(Active(lag))
  BY <1>3, <1>5, FiniteItems, Zenon
<1>7. Cardinality(Active(lag)) < MaxConcurrency
  BY Zenon DEF ClaimSimulationItems
<1>8. IsFiniteSet(Leased) /\ Cardinality(Leased) \in Nat /\ Cardinality(Active(lag)) \in Nat
  BY <1>5, FiniteItems, Zenon
<1>9. Cardinality(Leased \cup {i}) <= Cardinality(Leased) + 1
  <2>1. Cardinality(Leased \cup {i}) =
          IF i \in Leased THEN Cardinality(Leased) ELSE Cardinality(Leased) + 1
    BY <1>8, FS_AddElement, Zenon
  <2> QED
    BY <1>8, <2>1
<1>10. /\ Cardinality(Leased') <= Cardinality(Leased \cup {i})
       /\ Cardinality(Leased') \in Nat /\ Cardinality(Leased \cup {i}) \in Nat
  <2>1. Leased \cup {i} \in SUBSET Items
    BY <1>5, Zenon
  <2> QED
    BY <1>4, <1>5, <2>1, FiniteItems, Zenon
<1>11. Cardinality(Leased') <= MaxConcurrency
  BY <1>6, <1>7, <1>8, <1>9, <1>10, ConstantsAssumption
<1> QED
  BY <1>11, Zenon DEF ConcurrencyBound, Leased

\* Every step keeps the bound: only a claim puts a record under a lease.
LEMMA BoundStep == TypeOK /\ ConcurrencyBound /\ [Next]_vars => ConcurrencyBound'
<1> SUFFICES ASSUME TypeOK, ConcurrencyBound, [Next]_vars PROVE ConcurrencyBound'
  BY Zenon
<1>1. ASSUME NEW w \in Workers, NEW lag \in Lags, PublishTerminal(w, lag)
      PROVE  ConcurrencyBound'
  <2>1. CASE FenceHolds(claims[w], lag)
    <3>1. \A j \in Items : items'[j] = items[j] \/ items'[j].status # "RUNNING"
      BY <1>1, <2>1, PublishEffect, Zenon
    <3> QED
      BY <3>1, BoundKept, Zenon DEF Leased
  <2>2. CASE ~FenceHolds(claims[w], lag)
    BY <1>1, <2>2, BoundKept, Zenon DEF PublishTerminal, Leased
  <2> QED
    BY <2>1, <2>2, Zenon
<1>2. ASSUME NEW S \in SUBSET Items, RetrySimulationItems(S) PROVE ConcurrencyBound'
  <2>1. \A j \in Items : items'[j] = items[j] \/ items'[j].status # "RUNNING"
    BY <1>2, RetryEffect, Zenon
  <2> QED
    BY <2>1, BoundKept, Zenon DEF Leased
<1>3. ASSUME NEW reason \in Reasons, NEW lag \in Lags, CancelSimulationOperation(reason, lag)
      PROVE  ConcurrencyBound'
  <2>1. \A j \in Items : items'[j] = items[j] \/ items'[j].status # "RUNNING"
    BY <1>3, CancelEffect, Zenon
  <2> QED
    BY <2>1, BoundKept, Zenon DEF Leased
<1>4. ASSUME Tick PROVE ConcurrencyBound'
  <2>1. TypeOK'
    BY <1>4, TypeStep, Zenon DEF Next
  <2>2. \A j \in Items : items[j].lease \in Int /\ items'[j].lease \in Int
    BY <2>1, ConstantsAssumption DEF TypeOK, ItemRecord, LeaseFloor
  <2>3. \A j \in Items : items'[j].status = items[j].status /\ items'[j].lease <= items[j].lease
    BY <1>4, TickEffect, Zenon
  <2>4. Leased' \subseteq Leased
    BY <2>2, <2>3, ConstantsAssumption DEF Leased
  <2> QED
    BY <2>4, BoundKept, Zenon
<1>5. CASE UNCHANGED items
  BY <1>5, BoundKept, Zenon DEF Leased
<1> QED
  BY <1>1, <1>2, <1>3, <1>4, <1>5, BoundClaim, OtherStepsKeepRecords, Zenon

\* However many workers claim, with timestamps however stale or fast, no more
\* than max_concurrency records run under a lease (claim_simulation_items).
THEOREM ConcurrencyIsBounded == Spec => []ConcurrencyBound
<1>1. Init => ConcurrencyBound
  <2> SUFFICES ASSUME Init PROVE ConcurrencyBound
    BY Zenon
  <2>1. Leased = {}
    BY Zenon DEF Init, Leased
  <2>2. Cardinality(Leased) = 0
    BY <2>1, FS_EmptySet, Zenon
  <2> QED
    BY <2>2, BoundOfLeased, ConstantsAssumption
<1> QED
  BY <1>1, TypeCorrect, BoundStep, PTL DEF Spec

-----------------------------------------------------------------------------
(* The inductive invariant behind the projection.                           *)

\* What a succeeded record holds, and what the current claim of a running one
\* is about to publish, is a verdict of the contract: the source check or the
\* simulation gave it before anything was projected onto the item.
VerdictsOnly ==
  /\ \A i \in Items : items[i].status = "SUCCEEDED" => items[i].result \in Contract!Verdicts
  /\ \A w \in Workers :
       /\ claims[w] # NoClaim
       /\ items[claims[w].item].status = "RUNNING"
       /\ items[claims[w].item].generation = claims[w].generation
       => claims[w].outcome \in Contract!Verdicts \cup Failures \cup {NoResult}

\* Alternatives are selected only once the wave has left SIMULATING.
SelectedLater == wave.state = "SIMULATING" => \A i \in Items : wave.items[i] # "SELECTED"

\* What a reconciler has read stays true while it goes on, with its guard or
\* without: the wave at the version it read, the verdict of every record it
\* saw settled, and the old state of every item whose record it saw open.
ReadsAgree ==
  \A r \in Reconcilers : rec[r].pc \in {"pages", "write"} =>
    /\ rec[r].version <= wave.version
    /\ rec[r].version = wave.version =>
         wave.state = "SIMULATING" /\ rec[r].items = wave.items
    /\ \A i \in Items : i <= rec[r].offset =>
         /\ rec[r].seen[i].terminal =>
              ItemIsTerminal(items[i]) /\ rec[r].seen[i].state = Verdict(items[i])
         /\ ~rec[r].seen[i].terminal => rec[r].seen[i].state = rec[r].items[i]
    /\ rec[r].pc = "write" => rec[r].offset = NumItems

ProjectionInv ==
  /\ WorkerInv
  /\ VerdictsOnly
  /\ ProjectionAgrees
  /\ SelectedLater
  /\ ReadsAgree

\* A settled record projects its verdict whatever state its item was in, an
\* open one leaves the item alone.
LEMMA ProjectedState ==
  ASSUME TypeOK, ResultWhenSucceeded, NEW i \in Items, NEW s
  PROVE  /\ ItemIsTerminal(items[i]) => ReconciledState(items[i], s) = Verdict(items[i])
         /\ ~ItemIsTerminal(items[i]) => ReconciledState(items[i], s) = s
<1>1. items[i].status \in ItemStatuses
  BY Zenon DEF TypeOK, ItemRecord
<1>2. items[i].result # NoResult <=> items[i].status = "SUCCEEDED"
  BY Zenon DEF ResultWhenSucceeded
<1> QED
  BY <1>1, <1>2, Zenon DEF ItemIsTerminal, ReconciledState, Verdict, ItemStatuses, Retryable

\* Records that keep their status, result and generation, or end without a
\* result, and claims that are only dropped, leave VerdictsOnly as it is.
LEMMA VerdictsKept ==
  ASSUME VerdictsOnly, TypeOK,
         \A i \in Items :
           \/ items'[i].status \in {"PENDING", "CANCELLED"}
           \/ /\ items'[i].status = items[i].status
              /\ items'[i].result = items[i].result
              /\ items'[i].generation = items[i].generation,
         \A w \in Workers : claims'[w] # NoClaim => claims'[w] = claims[w]
  PROVE  VerdictsOnly'
<1>1. \A w \in Workers : claims[w] # NoClaim => claims[w].item \in Items
  BY Zenon DEF TypeOK, Claim
<1>2. ASSUME NEW i \in Items, items'[i].status = "SUCCEEDED"
      PROVE  items'[i].result \in Contract!Verdicts
  BY <1>2, Zenon DEF VerdictsOnly
<1>3. ASSUME NEW w \in Workers, claims'[w] # NoClaim,
             items'[claims'[w].item].status = "RUNNING",
             items'[claims'[w].item].generation = claims'[w].generation
      PROVE  claims'[w].outcome \in Contract!Verdicts \cup Failures \cup {NoResult}
  <2>1. claims'[w] = claims[w] /\ claims[w].item \in Items
    BY <1>1, <1>3, Zenon
  <2>2. /\ items[claims[w].item].status = "RUNNING"
        /\ items[claims[w].item].generation = claims[w].generation
    BY <1>3, <2>1, Zenon
  <2> QED
    BY <1>3, <2>1, <2>2, Zenon DEF VerdictsOnly
<1> QED
  BY <1>2, <1>3, Zenon DEF VerdictsOnly

\* A claim fences out every older one and starts without an outcome.
LEMMA VerdictsClaim ==
  ASSUME WorkerInv, VerdictsOnly, NEW w \in Workers, NEW lag \in Lags,
         ClaimSimulationItems(w, lag)
  PROVE  VerdictsOnly'
<1>0. TypeOK /\ ClaimsMatch
  BY Zenon DEF WorkerInv
<1>1. PICK i \in Items :
        /\ i \in Candidates(lag)
        /\ items' \in [Items -> ItemRecord]
        /\ items'[i].status = "RUNNING"
        /\ items'[i].attempt = IF items[i].attempt >= MaxAttempts
                                 THEN items[i].attempt ELSE items[i].attempt + 1
        /\ items'[i].generation = items[i].generation + 1
        /\ items'[i].lease = LeaseDuration - lag
        /\ items'[i].retryable = items[i].retryable
        /\ items'[i].result = items[i].result
        /\ \A j \in Items \ {i} : items'[j] = items[j]
        /\ claims' = [claims EXCEPT ![w] =
             [item |-> i, generation |-> items'[i].generation,
              attempt |-> items'[i].attempt,
              exhausted |-> items[i].attempt >= MaxAttempts, outcome |-> NoResult]]
  BY <1>0, ClaimEffect, Zenon
<1>2. claims'[w].outcome = NoResult /\ \A v \in Workers \ {w} : claims'[v] = claims[v]
  BY <1>0, <1>1, Zenon DEF TypeOK
<1>3. ASSUME NEW j \in Items, items'[j].status = "SUCCEEDED"
      PROVE  items'[j].result \in Contract!Verdicts
  BY <1>1, <1>3, Zenon DEF VerdictsOnly
<1>4. ASSUME NEW v \in Workers, claims'[v] # NoClaim,
             items'[claims'[v].item].status = "RUNNING",
             items'[claims'[v].item].generation = claims'[v].generation
      PROVE  claims'[v].outcome \in Contract!Verdicts \cup Failures \cup {NoResult}
  <2>1. CASE v = w
    BY <1>2, <2>1, Zenon
  <2>2. CASE v # w
    <3>1. claims'[v] = claims[v] /\ claims[v] \in Claim
      BY <1>0, <1>2, <1>4, <2>2, Zenon DEF TypeOK
    <3>2. /\ claims[v].item \in Items /\ claims[v].generation \in Nat
          /\ items[i].generation \in Nat
      BY <1>0, <3>1, ConstantsAssumption DEF TypeOK, Claim, ItemRecord
    <3>3. claims[v].generation <= items[claims[v].item].generation
      BY <1>0, <1>4, <3>1, Zenon DEF ClaimsMatch
    <3>4. claims[v].item # i
      BY <1>1, <1>4, <3>1, <3>2, <3>3
    <3>5. items'[claims[v].item] = items[claims[v].item]
      BY <1>1, <3>2, <3>4, Zenon
    <3> QED
      BY <1>4, <3>1, <3>5, Zenon DEF VerdictsOnly
  <2> QED
    BY <2>1, <2>2, Zenon
<1> QED
  BY <1>3, <1>4, Zenon DEF VerdictsOnly

\* The current claim executes an item that nothing has been projected onto.
LEMMA VerdictsExecute ==
  ASSUME WorkerInv, VerdictsOnly, ProjectionAgrees, NEW w \in Workers, ExecuteClaim(w)
  PROVE  VerdictsOnly'
<1>0. TypeOK
  BY Zenon DEF WorkerInv
<1>1. claims[w] \in Claim /\ claims[w].item \in Items
  BY <1>0, Zenon DEF TypeOK, ExecuteClaim, Claim
<1>2. PICK o \in IF claims[w].exhausted THEN {"EXHAUSTED"}
                 ELSE SimulateItem(wave.items[claims[w].item]) :
        claims' = [claims EXCEPT ![w].outcome = o]
  BY Zenon DEF ExecuteClaim
<1>3. /\ claims'[w].item = claims[w].item /\ claims'[w].outcome = o
      /\ claims'[w].generation = claims[w].generation
      /\ \A v \in Workers \ {w} : claims'[v] = claims[v]
  BY <1>0, <1>1, <1>2, Zenon DEF TypeOK, Claim
<1>4. items' = items
  BY Zenon DEF ExecuteClaim
<1>5. ASSUME items[claims[w].item].status = "RUNNING"
      PROVE  o \in Contract!Verdicts \cup Failures \cup {NoResult}
  <2>1. ~ItemIsTerminal(items[claims[w].item])
    BY <1>5, Zenon DEF ItemIsTerminal
  <2>2. wave.items[claims[w].item] \in SourceStates
    BY <1>1, <2>1, Zenon DEF ProjectionAgrees
  <2> QED
    BY <1>2, <2>2, Zenon
       DEF SourceStates, SimulateItem, ResultStates, Failures, Contract!Verdicts
<1>6. ASSUME NEW v \in Workers, claims'[v] # NoClaim,
             items'[claims'[v].item].status = "RUNNING",
             items'[claims'[v].item].generation = claims'[v].generation
      PROVE  claims'[v].outcome \in Contract!Verdicts \cup Failures \cup {NoResult}
  <2>1. CASE v = w
    BY <1>3, <1>4, <1>5, <1>6, <2>1, Zenon
  <2>2. CASE v # w
    BY <1>3, <1>4, <1>6, <2>2, Zenon DEF VerdictsOnly
  <2> QED
    BY <2>1, <2>2, Zenon
<1> QED
  BY <1>4, <1>6, Zenon DEF VerdictsOnly

\* A publication stores what the current claim executed.
LEMMA VerdictsPublish ==
  ASSUME WorkerInv, VerdictsOnly, NEW w \in Workers, NEW lag \in Lags,
         PublishTerminal(w, lag)
  PROVE  VerdictsOnly'
<1>0. TypeOK
  BY Zenon DEF WorkerInv
<1>1. claims'[w] = NoClaim /\ \A v \in Workers \ {w} : claims'[v] = claims[v]
  BY <1>0, Zenon DEF TypeOK, PublishTerminal
<1>2. CASE FenceHolds(claims[w], lag)
  <2>1. PICK i : i = claims[w].item
    BY Zenon
  <2>2. /\ claims[w] \in Claim /\ claims[w] # NoClaim /\ claims[w].outcome # NoResult
        /\ items[i].status = "RUNNING"
        /\ items[i].generation = claims[w].generation
        /\ \A j \in Items \ {i} : items'[j] = items[j]
        /\ items'[i].status = IF claims[w].outcome \in Failures THEN "FAILED" ELSE "SUCCEEDED"
        /\ items'[i].result = IF claims[w].outcome \in Failures THEN NoResult
                              ELSE claims[w].outcome
    BY <1>0, <1>2, <2>1, PublishEffect, Zenon
  <2>3. i \in Items
    BY <2>1, <2>2, Zenon DEF Claim
  <2>4. claims[w].outcome \in Contract!Verdicts \cup Failures \cup {NoResult}
    BY <2>1, <2>2, Zenon DEF VerdictsOnly
  <2>5. ASSUME NEW j \in Items, items'[j].status = "SUCCEEDED"
        PROVE  items'[j].result \in Contract!Verdicts
    BY <2>2, <2>4, <2>5, Zenon DEF VerdictsOnly
  <2>6. ASSUME NEW v \in Workers, claims'[v] # NoClaim,
               items'[claims'[v].item].status = "RUNNING",
               items'[claims'[v].item].generation = claims'[v].generation
        PROVE  claims'[v].outcome \in Contract!Verdicts \cup Failures \cup {NoResult}
    <3>1. claims'[v] = claims[v] /\ claims[v] # NoClaim
      BY <1>1, <2>6, Zenon
    <3>2. claims[v].item \in Items
      BY <1>0, <3>1, Zenon DEF TypeOK, Claim
    <3>3. claims[v].item # i
      BY <2>2, <2>6, <3>1, Zenon
    <3>4. items'[claims[v].item] = items[claims[v].item]
      BY <2>2, <3>2, <3>3, Zenon
    <3> QED
      BY <2>6, <3>1, <3>4, Zenon DEF VerdictsOnly
  <2> QED
    BY <2>5, <2>6, Zenon DEF VerdictsOnly
<1>3. CASE ~FenceHolds(claims[w], lag)
  <2>1. items' = items
    BY <1>3, Zenon DEF PublishTerminal
  <2> QED
    BY <1>0, <1>1, <2>1, VerdictsKept, Zenon
<1> QED
  BY <1>2, <1>3, Zenon

\* Every step keeps VerdictsOnly.
LEMMA VerdictsStep ==
  ASSUME WorkerInv, VerdictsOnly, ProjectionAgrees, [Next]_vars
  PROVE  VerdictsOnly'
<1>0. TypeOK
  BY Zenon DEF WorkerInv
<1>1. ASSUME NEW w \in Workers, WorkerStep(w) PROVE VerdictsOnly'
  BY <1>1, VerdictsClaim, VerdictsExecute, VerdictsPublish, Zenon DEF WorkerStep
<1>2. ASSUME NEW w \in Workers, WorkerCrash(w) PROVE VerdictsOnly'
  BY <1>0, <1>2, VerdictsKept, Zenon DEF WorkerCrash, TypeOK
<1>3. ASSUME NEW S \in SUBSET Items, RetrySimulationItems(S) PROVE VerdictsOnly'
  <2>1. claims' = claims
    BY <1>3, Zenon DEF RetrySimulationItems
  <2> QED
    BY <1>0, <1>3, <2>1, RetryEffect, VerdictsKept, Zenon
<1>4. ASSUME NEW reason \in Reasons, NEW lag \in Lags, CancelSimulationOperation(reason, lag)
      PROVE  VerdictsOnly'
  <2>1. claims' = claims
    BY <1>4, Zenon DEF CancelSimulationOperation
  <2> QED
    BY <1>0, <1>4, <2>1, CancelEffect, VerdictsKept, Zenon
<1>5. ASSUME Tick PROVE VerdictsOnly'
  <2>1. claims' = claims
    BY <1>5, Zenon DEF Tick
  <2> QED
    BY <1>0, <1>5, <2>1, TickEffect, VerdictsKept, Zenon
<1>6. ASSUME NEW r \in Reconcilers, ReconcileStep(r) \/ GuardLost(r) \/ ReconcileCrash(r)
      PROVE  VerdictsOnly'
  <2>1. UNCHANGED <<items, claims>>
    BY <1>6, Zenon DEF ReconcileStep, ReconcileEnter, ReconcileReadWave, ReconcileReadPage,
                ReconcileWrite, GuardLost, ReconcileCrash
  <2> QED
    BY <1>0, <2>1, VerdictsKept, Zenon
<1>7. ASSUME NEW i \in Items, SelectItemAlternative(i) PROVE VerdictsOnly'
  BY <1>0, <1>7, VerdictsKept, Zenon DEF SelectItemAlternative
<1>8. CASE UNCHANGED vars
  BY <1>0, <1>8, VerdictsKept, Zenon DEF vars
<1> QED
  BY <1>1, <1>2, <1>3, <1>4, <1>5, <1>6, <1>7, <1>8, Zenon DEF Next

-----------------------------------------------------------------------------
(* Reading, writing and later commands.                                     *)

\* The part of the invariant that relates the wave, what reconcilers have
\* read, and the records.
Projected == ProjectionAgrees /\ SelectedLater /\ ReadsAgree

\* Steps of workers and callers settle records; settled ones never change, so
\* what was projected or read before stays true.
LEMMA ProjectedRecords ==
  ASSUME Projected, SettledStep, UNCHANGED <<wave, rec>>
  PROVE  Projected'
<1>1. \A i \in Items : ItemIsTerminal(items[i]) =>
        ItemIsTerminal(items'[i]) /\ Verdict(items'[i]) = Verdict(items[i])
  BY Zenon DEF SettledStep
<1>2. ProjectionAgrees'
  BY <1>1, Zenon DEF Projected, ProjectionAgrees
<1>3. SelectedLater'
  BY Zenon DEF Projected, SelectedLater
<1>4. ReadsAgree'
  BY <1>1, Zenon DEF Projected, ReadsAgree
<1> QED
  BY <1>2, <1>3, <1>4, Zenon DEF Projected

\* A reconciler that enters, starts over, returns or dies holds no reads.
LEMMA ProjectedRestart ==
  ASSUME TypeOK, Projected, NEW r \in Reconcilers, UNCHANGED <<items, wave>>,
         rec' = [rec EXCEPT ![r] = Idle] \/ rec' = [rec EXCEPT ![r] = [Idle EXCEPT !.pc = "wave"]]
  PROVE  Projected'
<1>1. rec'[r].pc \in {"idle", "wave"} /\ \A q \in Reconcilers \ {r} : rec'[q] = rec[q]
  BY DEF TypeOK, Idle
<1>2. ReadsAgree'
  BY <1>1 DEF Projected, ReadsAgree
<1> QED
  BY <1>2, Zenon DEF Projected, ProjectionAgrees, SelectedLater

\* The wave is read in one statement, while it is SIMULATING.
LEMMA ProjectedReadWave ==
  ASSUME TypeOK, Projected, NEW r \in Reconcilers, ReconcileReadWave(r)
  PROVE  Projected'
<1>1. UNCHANGED <<items, wave>>
  BY Zenon DEF ReconcileReadWave
<1>2. CASE wave.state # "SIMULATING"
  BY <1>1, <1>2, ProjectedRestart, Zenon DEF ReconcileReadWave, Return
<1>3. CASE wave.state = "SIMULATING"
  <2>1. rec' = [rec EXCEPT ![r] = [Idle EXCEPT !.pc = "pages", !.version = wave.version,
                                               !.items = wave.items]]
    BY <1>3, Zenon DEF ReconcileReadWave
  <2>2. /\ rec'[r].pc = "pages" /\ rec'[r].version = wave.version
        /\ rec'[r].items = wave.items /\ rec'[r].offset = 0
        /\ \A q \in Reconcilers \ {r} : rec'[q] = rec[q]
    BY <2>1, Zenon DEF TypeOK, Idle
  <2>3. \A i \in Items : ~(i <= 0)
    BY DEF Items
  <2>4. wave.version <= wave.version
    BY DEF TypeOK
  <2>5. ReadsAgree'
    <3> SUFFICES ASSUME NEW q \in Reconcilers, rec'[q].pc \in {"pages", "write"}
                 PROVE  /\ rec'[q].version <= wave.version
                        /\ rec'[q].version = wave.version =>
                             wave.state = "SIMULATING" /\ rec'[q].items = wave.items
                        /\ \A i \in Items : i <= rec'[q].offset =>
                             /\ rec'[q].seen[i].terminal =>
                                  /\ ItemIsTerminal(items[i])
                                  /\ rec'[q].seen[i].state = Verdict(items[i])
                             /\ ~rec'[q].seen[i].terminal =>
                                  rec'[q].seen[i].state = rec'[q].items[i]
                        /\ rec'[q].pc = "write" => rec'[q].offset = NumItems
      BY <1>1, Zenon DEF ReadsAgree
    <3>1. CASE q = r
      BY <1>3, <2>2, <2>3, <2>4, <3>1, Zenon
    <3>2. CASE q # r
      <4>1. rec'[q] = rec[q]
        BY <2>2, <3>2, Zenon
      <4>2. /\ rec[q].version <= wave.version
            /\ rec[q].version = wave.version =>
                 wave.state = "SIMULATING" /\ rec[q].items = wave.items
            /\ \A i \in Items : i <= rec[q].offset =>
                 /\ rec[q].seen[i].terminal =>
                      /\ ItemIsTerminal(items[i])
                      /\ rec[q].seen[i].state = Verdict(items[i])
                 /\ ~rec[q].seen[i].terminal =>
                      rec[q].seen[i].state = rec[q].items[i]
            /\ rec[q].pc = "write" => rec[q].offset = NumItems
        BY <4>1, Zenon DEF Projected, ReadsAgree
      <4> QED
        BY <4>1, <4>2, Zenon
    <3> QED
      BY <3>1, <3>2, Zenon
  <2> QED
    BY <1>1, <2>5, Zenon DEF Projected, ProjectionAgrees, SelectedLater
<1> QED
  BY <1>2, <1>3, Zenon

\* A page adds what its records say now to what was read before.
LEMMA ProjectedReadPage ==
  ASSUME TypeOK, ResultWhenSucceeded, Projected, NEW r \in Reconcilers, ReconcileReadPage(r)
  PROVE  Projected'
<1> DEFINE k == rec[r]
           next == IF k.offset + PageSize < NumItems THEN k.offset + PageSize ELSE NumItems
<1>1. UNCHANGED <<items, wave>>
  BY Zenon DEF ReconcileReadPage
<1>2. /\ k.pc = "pages"
      /\ k \in RecState
  BY Zenon DEF ReconcileReadPage, TypeOK
<1>3. rec' = [rec EXCEPT
               ![r].pc = IF next = NumItems THEN "write" ELSE "pages",
               ![r].offset = next,
               ![r].seen = [i \in Items |->
                              IF k.offset < i /\ i <= next
                                THEN Seen(i, k.items[i]) ELSE k.seen[i]]]
  BY Zenon DEF ReconcileReadPage
<1>4. PICK k2 : k2 = rec'[r]
  BY Zenon
<1>5. /\ k2.pc = IF next = NumItems THEN "write" ELSE "pages"
      /\ k2.version = k.version /\ k2.items = k.items /\ k2.offset = next
      /\ k2.seen = [i \in Items |-> IF k.offset < i /\ i <= next
                                     THEN Seen(i, k.items[i]) ELSE k.seen[i]]
      /\ \A q \in Reconcilers \ {r} : rec'[q] = rec[q]
  BY <1>2, <1>3, <1>4, Zenon DEF TypeOK, RecState
<1>6. ASSUME NEW i \in Items, i <= next
      PROVE  /\ k2.seen[i].terminal =>
                  ItemIsTerminal(items[i]) /\ k2.seen[i].state = Verdict(items[i])
             /\ ~k2.seen[i].terminal => k2.seen[i].state = k.items[i]
  <2>1. CASE k.offset < i
    <3>1. k2.seen[i] = Seen(i, k.items[i])
      BY <1>5, <1>6, <2>1, Zenon
    <3>2. /\ k2.seen[i].terminal = ItemIsTerminal(items[i])
          /\ k2.seen[i].state = ReconciledState(items[i], k.items[i])
      BY <3>1, SMTT(30) DEF Seen
    <3> QED
      BY <3>2, ProjectedState, Zenon
  <2>2. CASE ~(k.offset < i)
    <3>1. k2.seen[i] = k.seen[i]
      BY <1>5, <2>2, Zenon
    <3>2. k.offset \in Int /\ i \in Int
      BY <1>2, ConstantsAssumption DEF RecState, Items
    <3>3. i <= k.offset
      BY <2>2, <3>2
    <3> QED
      BY <1>2, <3>1, <3>3, ZenonT(30) DEF Projected, ReadsAgree
  <2> QED
    BY <2>1, <2>2, Zenon
<1>7. /\ k.version <= wave.version
      /\ k.version = wave.version => wave.state = "SIMULATING" /\ k.items = wave.items
  BY <1>2, Zenon DEF Projected, ReadsAgree
<1>8. k2.pc = "write" => k2.offset = NumItems
  BY <1>5
<1> HIDE DEF next, k
<1>9. ReadsAgree'
  <2> SUFFICES ASSUME NEW q \in Reconcilers, rec'[q].pc \in {"pages", "write"}
               PROVE  /\ rec'[q].version <= wave.version
                      /\ rec'[q].version = wave.version =>
                           wave.state = "SIMULATING" /\ rec'[q].items = wave.items
                      /\ \A i \in Items : i <= rec'[q].offset =>
                           /\ rec'[q].seen[i].terminal =>
                                /\ ItemIsTerminal(items[i])
                                /\ rec'[q].seen[i].state = Verdict(items[i])
                           /\ ~rec'[q].seen[i].terminal =>
                                rec'[q].seen[i].state = rec'[q].items[i]
                      /\ rec'[q].pc = "write" => rec'[q].offset = NumItems
    BY <1>1, Zenon DEF ReadsAgree
  <2>1. CASE q = r
    BY <1>4, <1>5, <1>6, <1>7, <1>8, <2>1, Zenon
  <2>2. CASE q # r
    <3>1. rec'[q] = rec[q]
      BY <1>5, <2>2, Zenon
    <3>2. /\ rec[q].version <= wave.version
          /\ rec[q].version = wave.version =>
               wave.state = "SIMULATING" /\ rec[q].items = wave.items
          /\ \A i \in Items : i <= rec[q].offset =>
               /\ rec[q].seen[i].terminal =>
                    /\ ItemIsTerminal(items[i])
                    /\ rec[q].seen[i].state = Verdict(items[i])
               /\ ~rec[q].seen[i].terminal =>
                    rec[q].seen[i].state = rec[q].items[i]
          /\ rec[q].pc = "write" => rec[q].offset = NumItems
      BY <3>1, Zenon DEF Projected, ReadsAgree
    <3> QED
      BY <3>1, <3>2, Zenon
  <2> QED
    BY <2>1, <2>2, Zenon
<1> QED
  BY <1>1, <1>9, Zenon DEF Projected, ProjectionAgrees, SelectedLater

\* A write goes through only at the version that was read, so the wave is
\* still SIMULATING as read, and what it adds is what settled records say.
LEMMA WriteEffect ==
  ASSUME TypeOK, Projected, NEW r \in Reconcilers, ReconcileWrite(r), wave' # wave
  PROVE  /\ wave.state = "SIMULATING"
         /\ wave'.version = wave.version + 1
         /\ \A i \in Items :
              \/ ItemIsTerminal(items[i]) /\ wave'.items[i] = Verdict(items[i])
              \/ ~rec[r].seen[i].terminal /\ wave'.items[i] = wave.items[i]
         /\ \/ /\ AllTerminal(r)
               /\ wave'.state = SimulationResultState(ProjectedItems(r))
               /\ \A i \in Items : /\ ItemIsTerminal(items[i])
                                   /\ ProjectedItems(r)[i] = Verdict(items[i])
                                   /\ wave'.items[i] = Verdict(items[i])
            \/ ~AllTerminal(r) /\ wave'.state = "SIMULATING"
         /\ rec' = [rec EXCEPT ![r] = Idle]
<1>1. rec[r].pc = "write" /\ rec[r] \in RecState
  BY Zenon DEF ReconcileWrite, TypeOK
<1>2. /\ wave.version = rec[r].version
      /\ wave' = [state |-> IF AllTerminal(r) THEN SimulationResultState(ProjectedItems(r))
                            ELSE "SIMULATING",
                  version |-> rec[r].version + 1, items |-> ProjectedItems(r)]
      /\ rec' = [rec EXCEPT ![r] = Idle]
  BY Zenon DEF ReconcileWrite, Return
<1>3. wave.state = "SIMULATING" /\ rec[r].items = wave.items
  BY <1>1, <1>2, Zenon DEF Projected, ReadsAgree
<1>4. ASSUME NEW i \in Items
      PROVE  /\ ProjectedItems(r)[i] = rec[r].seen[i].state
             /\ rec[r].seen[i].terminal =>
                  ItemIsTerminal(items[i]) /\ rec[r].seen[i].state = Verdict(items[i])
             /\ ~rec[r].seen[i].terminal => rec[r].seen[i].state = wave.items[i]
  <2>1. i <= rec[r].offset
    BY <1>1 DEF Items, Projected, ReadsAgree
  <2> QED
    BY <1>1, <1>3, <2>1, Zenon DEF Projected, ReadsAgree, ProjectedItems
<1>5. wave'.items = ProjectedItems(r) /\ wave'.version = wave.version + 1
  BY <1>2, Zenon
<1>6. \A i \in Items :
        \/ ItemIsTerminal(items[i]) /\ wave'.items[i] = Verdict(items[i])
        \/ ~rec[r].seen[i].terminal /\ wave'.items[i] = wave.items[i]
  BY <1>4, <1>5, Zenon
<1>7. CASE AllTerminal(r)
  <2>1. wave'.state = SimulationResultState(ProjectedItems(r))
    BY <1>2, <1>7, Zenon
  <2>2. \A i \in Items : /\ ItemIsTerminal(items[i])
                         /\ ProjectedItems(r)[i] = Verdict(items[i])
                         /\ wave'.items[i] = Verdict(items[i])
    BY <1>4, <1>5, <1>7, Zenon DEF AllTerminal
  <2> QED
    BY <1>2, <1>3, <1>5, <1>6, <1>7, <2>1, <2>2, Zenon
<1>8. CASE ~AllTerminal(r)
  <2>1. wave'.state = "SIMULATING"
    BY <1>2, <1>8, Zenon
  <2> QED
    BY <1>2, <1>3, <1>5, <1>6, <1>8, <2>1, Zenon
<1> QED
  BY <1>7, <1>8, Zenon

\* A change of the wave moves its version past every read.
LEMMA ReadsOutdated ==
  ASSUME TypeOK, ReadsAgree, UNCHANGED items, wave'.version = wave.version + 1,
         \A q \in Reconcilers : rec'[q].pc \in {"pages", "write"} => rec'[q] = rec[q]
  PROVE  ReadsAgree'
<1>1. wave.version \in Nat /\ \A q \in Reconcilers : rec[q].version \in Nat
  BY Zenon DEF TypeOK, RecState
<1>2. \A q \in Reconcilers : rec[q].version <= wave.version =>
        rec[q].version <= wave.version + 1 /\ rec[q].version # wave.version + 1
  BY <1>1
<1> SUFFICES ASSUME NEW q \in Reconcilers, rec'[q].pc \in {"pages", "write"}
             PROVE  /\ rec[q].version <= wave.version + 1
                    /\ rec[q].version # wave.version + 1
                    /\ \A i \in Items : i <= rec[q].offset =>
                         /\ rec[q].seen[i].terminal =>
                              /\ ItemIsTerminal(items[i])
                              /\ rec[q].seen[i].state = Verdict(items[i])
                         /\ ~rec[q].seen[i].terminal =>
                              rec[q].seen[i].state = rec[q].items[i]
                    /\ rec[q].pc = "write" => rec[q].offset = NumItems
  BY DEF ReadsAgree
<1>3. rec'[q] = rec[q]
  BY Zenon
<1>4. /\ rec[q].version <= wave.version
      /\ rec[q].version = wave.version =>
           wave.state = "SIMULATING" /\ rec[q].items = wave.items
      /\ \A i \in Items : i <= rec[q].offset =>
           /\ rec[q].seen[i].terminal =>
                /\ ItemIsTerminal(items[i])
                /\ rec[q].seen[i].state = Verdict(items[i])
           /\ ~rec[q].seen[i].terminal =>
                rec[q].seen[i].state = rec[q].items[i]
      /\ rec[q].pc = "write" => rec[q].offset = NumItems
  BY <1>3, Zenon DEF ReadsAgree
<1> QED
  BY <1>2, <1>4, Zenon

\* No verdict is a selection.
LEMMA VerdictTypes ==
  ASSUME WorkerInv, VerdictsOnly, NEW i \in Items, ItemIsTerminal(items[i])
  PROVE  Verdict(items[i]) \in Contract!Verdicts
<1>1. items[i].result # NoResult <=> items[i].status = "SUCCEEDED"
  BY Zenon DEF WorkerInv, ResultWhenSucceeded
<1>2. items[i].status = "SUCCEEDED" => items[i].result \in Contract!Verdicts
  BY Zenon DEF VerdictsOnly
<1> QED
  BY <1>1, <1>2, Zenon
     DEF ItemIsTerminal, Retryable, Verdict, ReconciledState, Contract!Verdicts

\* A write, a lost compare-and-swap or a write that has nothing to say.
LEMMA ProjectedWrite ==
  ASSUME WorkerInv, VerdictsOnly, Projected, NEW r \in Reconcilers, ReconcileWrite(r)
  PROVE  Projected'
<1>0. TypeOK /\ items' = items
  BY Zenon DEF WorkerInv, ReconcileWrite
<1>1. CASE wave' = wave
  <2>1. \/ rec' = [rec EXCEPT ![r] = Idle]
        \/ rec' = [rec EXCEPT ![r] = [Idle EXCEPT !.pc = "wave"]]
    BY Zenon DEF ReconcileWrite, Return
  <2> QED
    BY <1>0, <1>1, <2>1, ProjectedRestart, Zenon
<1>2. CASE wave' # wave
  <2>1. /\ wave.state = "SIMULATING"
        /\ wave'.version = wave.version + 1
        /\ \A i \in Items :
             \/ ItemIsTerminal(items[i]) /\ wave'.items[i] = Verdict(items[i])
             \/ ~rec[r].seen[i].terminal /\ wave'.items[i] = wave.items[i]
        /\ \/ \A i \in Items :
                ItemIsTerminal(items[i]) /\ wave'.items[i] = Verdict(items[i])
           \/ wave'.state = "SIMULATING"
        /\ rec' = [rec EXCEPT ![r] = Idle]
    BY <1>0, <1>2, WriteEffect, Zenon
  <2>2. ProjectionAgrees'
    BY <1>0, <2>1, Zenon DEF Projected, ProjectionAgrees
  <2>3. SelectedLater'
    <3>1. \A i \in Items : ItemIsTerminal(items[i]) => Verdict(items[i]) # "SELECTED"
      BY VerdictTypes, Zenon DEF Contract!Verdicts
    <3> QED
      BY <2>1, <3>1, Zenon DEF Projected, SelectedLater
  <2>4. \A q \in Reconcilers : rec'[q].pc \in {"pages", "write"} => rec'[q] = rec[q]
    BY <1>0, <2>1, Zenon DEF TypeOK, Idle
  <2>5. ReadsAgree'
    BY <1>0, <2>1, <2>4, ReadsOutdated, Zenon DEF Projected
  <2> QED
    BY <2>2, <2>3, <2>5, Zenon DEF Projected
<1> QED
  BY <1>1, <1>2, Zenon

\* A selection replaces the verdict SIMULATED of a wave that is closed.
LEMMA ProjectedSelect ==
  ASSUME TypeOK, Projected, NEW i \in Items, SelectItemAlternative(i)
  PROVE  Projected'
<1>1. /\ wave'.state = wave.state /\ wave.state # "SIMULATING"
      /\ wave'.version = wave.version + 1
      /\ wave.items[i] = "SIMULATED" /\ wave'.items[i] = "SELECTED"
      /\ \A j \in Items \ {i} : wave'.items[j] = wave.items[j]
  BY Zenon DEF TypeOK, SelectItemAlternative
<1>2. UNCHANGED <<items, rec>>
  BY Zenon DEF SelectItemAlternative
<1>3. ProjectionAgrees'
  BY <1>1, <1>2, Zenon DEF Projected, ProjectionAgrees
<1>4. ReadsAgree'
  BY <1>1, <1>2, ReadsOutdated, Zenon DEF Projected
<1> QED
  BY <1>1, <1>3, <1>4, Zenon DEF Projected, SelectedLater

\* Steps of workers, callers and time leave the wave and the reads alone.
LEMMA OtherStepsKeepWave ==
  ASSUME [Next]_vars,
         ~ \E r \in Reconcilers : ReconcileStep(r) \/ ReconcileCrash(r),
         ~ \E i \in Items : SelectItemAlternative(i)
  PROVE  UNCHANGED <<wave, rec>>
BY Zenon DEF Next, WorkerStep, ClaimSimulationItems, ExecuteClaim, PublishTerminal, WorkerCrash,
       RetrySimulationItems, CancelSimulationOperation, Tick, GuardLost, vars

\* Every step keeps the projection invariant.
LEMMA ProjectionInvStep == ProjectionInv /\ [Next]_vars => ProjectionInv'
<1> SUFFICES ASSUME ProjectionInv, [Next]_vars PROVE ProjectionInv'
  BY Zenon
<1>1. /\ WorkerInv /\ VerdictsOnly /\ ProjectionAgrees /\ Projected
      /\ TypeOK /\ ResultWhenSucceeded
  BY Zenon DEF ProjectionInv, Projected, WorkerInv
<1>2. WorkerInv' /\ VerdictsOnly'
  BY <1>1, WorkerInvStep, VerdictsStep, Zenon
<1>3. ASSUME NEW r \in Reconcilers, ReconcileStep(r) PROVE Projected'
  <2>1. ReconcileEnter(r) => UNCHANGED <<items, wave>>
                             /\ rec' = [rec EXCEPT ![r] = [Idle EXCEPT !.pc = "wave"]]
    BY Zenon DEF ReconcileEnter
  <2>2. ReconcileEnter(r) => Projected'
    BY <1>1, <2>1, ProjectedRestart, Zenon
  <2> QED
    BY <1>1, <1>3, <2>2, ProjectedReadWave, ProjectedReadPage, ProjectedWrite, Zenon
       DEF ReconcileStep
<1>4. ASSUME NEW r \in Reconcilers, ReconcileCrash(r) PROVE Projected'
  BY <1>1, <1>4, ProjectedRestart, Zenon DEF ReconcileCrash, Return
<1>5. ASSUME NEW i \in Items, SelectItemAlternative(i) PROVE Projected'
  BY <1>1, <1>5, ProjectedSelect, Zenon
<1>6. ASSUME UNCHANGED <<wave, rec>> PROVE Projected'
  <2>1. SettledStep
    BY <1>1, SettledStepHolds, Zenon
  <2> QED
    BY <1>1, <1>6, <2>1, ProjectedRecords, Zenon
<1>7. Projected'
  BY <1>3, <1>4, <1>5, <1>6, OtherStepsKeepWave, Zenon
<1>8. (ProjectionAgrees /\ SelectedLater /\ ReadsAgree)'
  BY <1>7, Zenon DEF Projected
<1> QED
  BY <1>2, <1>8, Zenon DEF ProjectionInv

\* The projection invariant holds in the state the admission commits.
LEMMA ProjectionInvInit == Init => ProjectionInv
<1> SUFFICES ASSUME Init PROVE ProjectionInv
  BY Zenon
<1>1. WorkerInv
  BY WorkerInvInit, Zenon
<1>2. /\ \A i \in Items : items[i].status = "PENDING"
      /\ \A w \in Workers : claims[w] = NoClaim
      /\ \A r \in Reconcilers : rec[r].pc = "idle"
  BY Zenon DEF Init, Idle
<1>3. wave.state = "SIMULATING" /\ \A i \in Items : wave.items[i] \in SourceStates
  BY DEF Init
<1> QED
  BY <1>1, <1>2, <1>3, Zenon DEF ProjectionInv, VerdictsOnly, ProjectionAgrees, SelectedLater,
                          ReadsAgree, SourceStates

\* The projection invariant holds in every reachable state.
THEOREM ProjectionInvHolds == Spec => []ProjectionInv
BY ProjectionInvInit, ProjectionInvStep, PTL DEF Spec

\* The wave agrees with the records although it is projected page by page
\* while workers publish and callers cancel (_reconcile_wave_simulation_...).
THEOREM WaveAgreesWithRecords == Spec => []ProjectionAgrees
<1>1. ProjectionInv => ProjectionAgrees
  BY Zenon DEF ProjectionInv
<1> QED
  BY <1>1, ProjectionInvHolds, PTL

-----------------------------------------------------------------------------
(* What reached the wave stays, and the contract is implemented.            *)

\* No step takes back what was projected.
LEMMA ProjectionStepHolds == ProjectionInv /\ [Next]_vars => ProjectionStep
<1> SUFFICES ASSUME ProjectionInv, [Next]_vars PROVE ProjectionStep
  BY Zenon
<1>1. WorkerInv /\ VerdictsOnly /\ Projected /\ TypeOK
  BY Zenon DEF ProjectionInv, Projected, WorkerInv
<1>2. wave.version \in Nat
  BY <1>1, Zenon DEF TypeOK
<1>3. ASSUME wave' = wave PROVE ProjectionStep
  BY <1>2, <1>3 DEF ProjectionStep
<1>4. ASSUME NEW r \in Reconcilers, ReconcileWrite(r), wave' # wave PROVE ProjectionStep
  <2>1. /\ wave.state = "SIMULATING"
        /\ wave'.version = wave.version + 1
        /\ \A i \in Items : \/ ItemIsTerminal(items[i]) /\ wave'.items[i] = Verdict(items[i])
                            \/ wave'.items[i] = wave.items[i]
    BY <1>1, <1>4, WriteEffect, Zenon
  <2>2. \A i \in Items : wave.items[i] \notin SourceStates =>
          ItemIsTerminal(items[i]) /\ wave.items[i] = Verdict(items[i])
    BY <1>1, <2>1, Zenon DEF Projected, ProjectionAgrees, SelectedLater
  <2> QED
    BY <1>2, <2>1, <2>2 DEF ProjectionStep
<1>5. ASSUME NEW i \in Items, SelectItemAlternative(i) PROVE ProjectionStep
  <2>1. /\ wave'.state = wave.state
        /\ wave'.version = wave.version + 1
        /\ wave.items[i] = "SIMULATED" /\ wave'.items[i] = "SELECTED"
        /\ \A j \in Items \ {i} : wave'.items[j] = wave.items[j]
    BY <1>1, <1>5, Zenon DEF TypeOK, SelectItemAlternative
  <2> QED
    BY <1>2, <2>1 DEF ProjectionStep
<1>6. ASSUME NEW r \in Reconcilers, ReconcileStep(r) \/ ReconcileCrash(r) PROVE ProjectionStep
  <2>1. ReconcileWrite(r) \/ wave' = wave
    BY <1>6, Zenon DEF ReconcileStep, ReconcileEnter, ReconcileReadWave, ReconcileReadPage,
                ReconcileCrash
  <2> QED
    BY <1>3, <1>4, <2>1, Zenon
<1> QED
  BY <1>3, <1>5, <1>6, OtherStepsKeepWave, Zenon

\* A reconciler working from an old read, even one that lost its guard, never
\* takes back a projected state, undoes a selection or reopens the wave: the
\* compare-and-swap of update_wave alone is enough.
THEOREM ProjectionNeverUndone == Spec => ProjectionIsFinal
BY ProjectionInvHolds, ProjectionStepHolds, PTL DEF Spec, ProjectionIsFinal

\* The verdicts that the records amount to, as the contract sees them.
VerdictMap == [i \in Items |-> IF ItemIsTerminal(items[i]) THEN Verdict(items[i]) ELSE "OPEN"]

\* A record that is settled keeps its verdict, and one that settles gets one.
LEMMA VerdictsSettle ==
  ASSUME WorkerInv, VerdictsOnly, WorkerInv', VerdictsOnly', SettledStep
  PROVE  /\ VerdictMap' \in [Items -> Contract!Verdicts \cup {"OPEN"}]
         /\ \A i \in Items : VerdictMap[i] # "OPEN" => VerdictMap'[i] = VerdictMap[i]
<1>1. ASSUME NEW i \in Items, ItemIsTerminal(items'[i])
      PROVE  Verdict(items'[i]) \in Contract!Verdicts
  <2>1. items'[i].result # NoResult <=> items'[i].status = "SUCCEEDED"
    BY Zenon DEF WorkerInv, ResultWhenSucceeded
  <2>2. items'[i].status = "SUCCEEDED" => items'[i].result \in Contract!Verdicts
    BY Zenon DEF VerdictsOnly
  <2> QED
    BY <1>1, <2>1, <2>2, Zenon DEF ItemIsTerminal, Retryable, Verdict, ReconciledState,
                            Contract!Verdicts
<1>2. \A i \in Items : ItemIsTerminal(items[i]) => items'[i] = items[i]
  BY Zenon DEF SettledStep
<1>3. VerdictMap' = [i \in Items |-> IF ItemIsTerminal(items'[i]) THEN Verdict(items'[i])
                                     ELSE "OPEN"]
  BY Zenon DEF VerdictMap
<1>4. \A i \in Items : VerdictMap[i] # "OPEN" => VerdictMap'[i] = VerdictMap[i]
  BY <1>2, <1>3, Zenon DEF VerdictMap
<1>5. VerdictMap' \in [Items -> Contract!Verdicts \cup {"OPEN"}]
  BY <1>1, <1>3, Zenon
<1> QED
  BY <1>4, <1>5, Zenon

\* The two statements of the result state agree.
LEMMA ResultStatesAgree ==
  ASSUME NEW its, \A i \in Items : ItemIsTerminal(items[i]) /\ its[i] = Verdict(items[i])
  PROVE  SimulationResultState(its) = Contract!ResultState
<1>1. \A i \in Items : VerdictMap[i] = its[i]
  BY Zenon DEF VerdictMap
<1>2. 1 \in Items
  BY ConstantsAssumption DEF Items
<1> QED
  BY <1>1, <1>2, Zenon DEF SimulationResultState, Contract!ResultState, VerdictMap

\* Every step of the operation is a step of the contract, or none.
LEMMA ContractStep ==
  ProjectionInv /\ ProjectionInv' /\ [Next]_vars => [Contract!Next]_<<VerdictMap, wave.state>>
<1> SUFFICES ASSUME ProjectionInv, ProjectionInv', [Next]_vars
             PROVE  [Contract!Next]_<<VerdictMap, wave.state>>
  BY Zenon
<1>1. WorkerInv /\ VerdictsOnly /\ Projected /\ TypeOK /\ WorkerInv' /\ VerdictsOnly'
  BY Zenon DEF ProjectionInv, Projected, WorkerInv
<1>2. SettledStep
  BY <1>1, SettledStepHolds, Zenon
<1>3. /\ VerdictMap' \in [Items -> Contract!Verdicts \cup {"OPEN"}]
      /\ \A i \in Items : VerdictMap[i] # "OPEN" => VerdictMap'[i] = VerdictMap[i]
  BY <1>1, <1>2, VerdictsSettle, Zenon
<1>4. ASSUME wave'.state = wave.state PROVE Contract!Next
  BY <1>3, <1>4, Zenon DEF Contract!Next, Contract!Settle, VerdictMap
<1>5. ASSUME NEW r \in Reconcilers, ReconcileWrite(r), wave'.state # wave.state
      PROVE  Contract!Next
  <2>1. /\ wave.state = "SIMULATING"
        /\ wave'.state = SimulationResultState(ProjectedItems(r))
        /\ \A i \in Items : /\ ItemIsTerminal(items[i])
                            /\ ProjectedItems(r)[i] = Verdict(items[i])
    BY <1>1, <1>5, WriteEffect, Zenon
  <2>2. wave'.state = Contract!ResultState
    BY <2>1, ResultStatesAgree, Zenon
  <2>3. \A i \in Items : VerdictMap[i] # "OPEN"
    BY <1>1, <2>1, VerdictTypes, Zenon DEF VerdictMap, Contract!Verdicts
  <2>4. VerdictMap' = VerdictMap
    BY <1>5, Zenon DEF VerdictMap, ReconcileWrite
  <2> QED
    BY <2>1, <2>2, <2>3, <2>4, Zenon DEF Contract!Next, Contract!Close, VerdictMap
<1>6. ASSUME NEW r \in Reconcilers, ReconcileStep(r) \/ ReconcileCrash(r),
             wave'.state # wave.state
      PROVE  Contract!Next
  <2>1. ReconcileWrite(r)
    BY <1>6, Zenon DEF ReconcileStep, ReconcileEnter, ReconcileReadWave, ReconcileReadPage,
                ReconcileCrash
  <2> QED
    BY <1>5, <1>6, <2>1, Zenon
<1>7. ASSUME NEW i \in Items, SelectItemAlternative(i) PROVE wave'.state = wave.state
  BY <1>1, <1>7, Zenon DEF TypeOK, SelectItemAlternative
<1> QED
  BY <1>4, <1>6, <1>7, OtherStepsKeepWave, Zenon

\* The records start open, on a wave that is SIMULATING.
LEMMA ContractInit == Init => Contract!Init
<1> SUFFICES ASSUME Init PROVE Contract!Init
  BY Zenon
<1>1. \A i \in Items : ~ItemIsTerminal(items[i])
  BY Zenon DEF Init, ItemIsTerminal
<1>2. [i \in Items |-> IF ItemIsTerminal(items[i]) THEN Verdict(items[i]) ELSE "OPEN"]
        = [i \in Items |-> "OPEN"]
  BY <1>1, Zenon
<1>3. wave.state = "SIMULATING"
  BY DEF Init
<1> QED
  BY <1>2, <1>3, Zenon DEF Contract!Init

\* The operation implements its contract: each item gets one verdict, and the
\* wave leaves SIMULATING once, when all have theirs, for the state that those
\* verdicts add up to, whatever crashes, retries and lost guards interleave.
THEOREM OperationImplementsContract == Spec => ImplementsContract
<1>1. Init => Contract!Init
  BY ContractInit, Zenon
<1>2. ProjectionInv /\ ProjectionInv' /\ [Next]_vars => [Contract!Next]_<<VerdictMap, wave.state>>
  BY ContractStep, Zenon
<1> QED
  BY <1>1, <1>2, ProjectionInvHolds, PTL DEF Spec, ImplementsContract, Contract!Spec, VerdictMap
=============================================================================
