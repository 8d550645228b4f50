------------------------ MODULE AsyncOperationProofs ------------------------
(***************************************************************************)
(* Proofs about AsyncOperation, for any operations, scenarios, workers,    *)
(* lease, clock skew, attempt bound and retention setting.                 *)
(*                                                                         *)
(* The inductive invariant AsyncInv rests on the attempt: every claim      *)
(* counts it up, so the workers of one operation hold distinct attempts    *)
(* and at most one of them the newest; a run carries the attempt that      *)
(* recorded it; and a result is published from one attempt's own runs.     *)
(***************************************************************************)
EXTENDS AsyncOperation, FiniteSetTheorems, TLAPS

\* The id has been drawn: its row exists or has existed.
Drawn(o) == ops[o].status # "FREE"

\* A worker holds an attempt that its operation has reached, and the newest one
\* only while the operation is RUNNING.
OwnersInv ==
  \A w \in Workers : workers[w].pc # "idle" =>
    /\ Drawn(workers[w].op)
    /\ workers[w].pc = "run" =>
         /\ workers[w].attempt \in 1..ops[workers[w].op].attempt
         /\ workers[w].attempt = ops[workers[w].op].attempt =>
              ops[workers[w].op].status = "RUNNING"

\* No two workers execute one attempt.
DistinctOwners ==
  \A v, w \in Workers :
    /\ workers[v].pc = "run" /\ workers[w].pc = "run"
    /\ workers[v].op = workers[w].op
    /\ workers[v].attempt = workers[w].attempt
    => v = w

\* x, if it is a run, is what attempt n of o recorded for s.
Recorded(x, o, n, s) == x \in Run => x.op = o /\ x.attempt = n /\ x.scenario = s

\* An execution knows the outcome of all that is not left to do, and its runs
\* are its own.
ProgressInv ==
  \A w \in Workers : workers[w].pc = "run" =>
    /\ workers[w].todo \subseteq ops[workers[w].op].asked
    /\ \A s \in ops[workers[w].op].asked \ workers[w].todo : workers[w].done[s] # Missing
    /\ \A s \in Scenarios :
         Recorded(workers[w].done[s], workers[w].op, workers[w].attempt, s)

\* Runs belong to attempts their operation has reached, and their edges are
\* stored and deleted with them.
RunsInv ==
  /\ \A x \in runs : Drawn(x.op) /\ x.attempt \in 1..ops[x.op].attempt
  /\ members = {EdgeOf(x) : x \in runs}

\* A published result accounts for every scenario with the publishing attempt's
\* own runs.
ResultsInv ==
  \A o \in OpIds : ops[o].status = "SUCCEEDED" =>
    \A s \in ops[o].asked :
      /\ ops[o].results[s] # Missing
      /\ Recorded(ops[o].results[s], o, ops[o].attempt, s)

AsyncInv ==
  TypeOK /\ OwnersInv /\ DistinctOwners /\ ProgressInv /\ RunsInv /\ ResultsInv

-----------------------------------------------------------------------------
\* A drawn operation is a full row; an id that is not drawn only holds a request.
LEMMA RowShape ==
  ASSUME TypeOK, NEW o \in OpIds
  PROVE  /\ Drawn(o) => ops[o] \in Operation
         /\ Stored(o) => ops[o] \in Operation
         /\ ops[o].asked \subseteq Scenarios
         /\ ~Drawn(o) => ops[o] = Free(ops[o].asked)
<1>1. ops[o] \in Operation \cup {Free(S) : S \in SUBSET Scenarios}
  BY DEF TypeOK
<1>2. CASE ops[o] \in Operation
  BY <1>2 DEF Operation, Drawn, Stored
<1>3. CASE ops[o] \in {Free(S) : S \in SUBSET Scenarios}
  BY <1>3 DEF Free, Drawn, Stored
<1> QED
  BY <1>1, <1>2, <1>3

\* The shapes of a worker, by where it is.
LEMMA WorkerShape ==
  ASSUME NEW k \in Worker
  PROVE  /\ k.pc \in {"idle", "link", "inline", "run"}
         /\ k.pc = "idle" <=> k = Idle
         /\ k.pc # "idle" => k.op \in OpIds
         /\ k.pc = "run" =>
              k \in [pc: {"run"}, op: OpIds, attempt: Attempts, todo: SUBSET Scenarios,
                     done: [Scenarios -> Outcome]]
BY DEF Worker, Idle

\* The cleanup deletes rows of finished or waiting operations and keeps what
\* they were.
LEMMA CleanedRows ==
  ASSUME TypeOK, NEW X \in SUBSET Purgeable
  PROVE  /\ Cleaned(X) \in [OpIds -> Operation \cup {Free(S) : S \in SUBSET Scenarios}]
         /\ \A o \in OpIds :
              /\ Cleaned(X)[o].asked = ops[o].asked
              /\ o \notin X => Cleaned(X)[o] = ops[o]
              /\ o \in X => /\ Drawn(o) /\ ops[o].status # "RUNNING"
                            /\ Cleaned(X)[o] = [ops[o] EXCEPT !.status = "PURGED"]
                            /\ Cleaned(X)[o] \in Operation
                            /\ Cleaned(X)[o].status = "PURGED"
                            /\ Cleaned(X)[o].attempt = ops[o].attempt
<1>1. ASSUME NEW o \in OpIds, o \in X
      PROVE  /\ Drawn(o) /\ ops[o].status # "RUNNING" /\ ops[o] \in Operation
             /\ [ops[o] EXCEPT !.status = "PURGED"] \in Operation
  <2>1. o \in Purgeable
    BY <1>1
  <2>2. ops[o] \in Operation /\ Drawn(o) /\ ops[o].status # "RUNNING"
    BY <2>1, RowShape DEF Purgeable, Stored, Drawn
  <2> QED
    BY <2>2 DEF Operation
<1>2. \A o \in OpIds : ops[o] \in Operation \cup {Free(S) : S \in SUBSET Scenarios}
  BY DEF TypeOK
<1>3. \A o \in OpIds :
        Cleaned(X)[o] = IF o \in X THEN [ops[o] EXCEPT !.status = "PURGED"] ELSE ops[o]
  BY DEF Cleaned
<1>4. Cleaned(X) = [o \in OpIds |-> Cleaned(X)[o]]
  BY DEF Cleaned
<1>5. \A o \in OpIds : Cleaned(X)[o] \in Operation \cup {Free(S) : S \in SUBSET Scenarios}
  BY <1>1, <1>2, <1>3, Zenon
<1>6. ASSUME NEW o \in OpIds, o \in X
      PROVE  /\ Cleaned(X)[o].asked = ops[o].asked
             /\ Cleaned(X)[o].status = "PURGED"
             /\ Cleaned(X)[o].attempt = ops[o].attempt
  <2>1. Cleaned(X)[o] = [ops[o] EXCEPT !.status = "PURGED"]
    BY <1>3, <1>6
  <2>2. ops[o] \in Operation
    BY <1>1, <1>6, Zenon
  <2> QED
    BY <2>1, <2>2 DEF Operation
<1> QED
  BY <1>1, <1>3, <1>4, <1>5, <1>6

-----------------------------------------------------------------------------
\* Type correctness, one action at a time.
LEMMA RunShape ==
  ASSUME TypeOK, OwnersInv, NEW w \in Workers, workers[w].pc = "run", NEW s \in Scenarios
  PROVE  /\ workers[w].op \in OpIds
         /\ ops[workers[w].op] \in Operation
         /\ RunOf(workers[w], s) \in Run
         /\ EdgeOf(RunOf(workers[w], s)) \in Member
         /\ Recorded(RunOf(workers[w], s), workers[w].op, workers[w].attempt, s)
<1>1. workers[w] \in Worker
  BY DEF TypeOK
<1>2. /\ workers[w].op \in OpIds
      /\ workers[w].attempt \in Attempts
  BY <1>1, WorkerShape
<1>3. ops[workers[w].op] \in Operation
  BY <1>2, RowShape DEF OwnersInv
<1>4. RunOf(workers[w], s) \in Run
  BY <1>2, <1>3 DEF RunOf, Run, Operation
<1>5. Recorded(RunOf(workers[w], s), workers[w].op, workers[w].attempt, s)
  BY DEF Recorded, RunOf
<1>6. EdgeOf(RunOf(workers[w], s)) \in Member
  BY <1>4 DEF EdgeOf, Member, Run
<1> QED
  BY <1>2, <1>3, <1>4, <1>5, <1>6

\* A worker that settles a scenario stays an execution of its attempt.
LEMMA SettledWorker ==
  ASSUME TypeOK, NEW w \in Workers, workers[w].pc = "run", NEW s \in Scenarios,
         NEW x \in Outcome, Settle(w, s, x)
  PROVE  /\ workers' \in [Workers -> Worker]
         /\ \A v \in Workers \ {w} : workers'[v] = workers[v]
         /\ workers'[w].pc = "run"
         /\ workers'[w].op = workers[w].op
         /\ workers'[w].attempt = workers[w].attempt
         /\ workers'[w].todo = workers[w].todo \ {s}
         /\ workers'[w].done = [workers[w].done EXCEPT ![s] = x]
<1>1. workers \in [Workers -> Worker]
  BY DEF TypeOK
<1>2. workers[w] \in [pc: {"run"}, op: OpIds, attempt: Attempts, todo: SUBSET Scenarios,
                      done: [Scenarios -> Outcome]]
  BY <1>1, WorkerShape
<1>3. workers'[w] = [workers[w] EXCEPT !.todo = workers[w].todo \ {s},
                                       !.done = [workers[w].done EXCEPT ![s] = x]]
  BY <1>1, <1>2 DEF Settle
<1>4. \A v \in Workers \ {w} : workers'[v] = workers[v]
  BY <1>1 DEF Settle
<1>5. [workers[w].done EXCEPT ![s] = x] \in [Scenarios -> Outcome]
  BY <1>2
<1>6. /\ workers'[w].pc = "run"
      /\ workers'[w].op = workers[w].op
      /\ workers'[w].attempt = workers[w].attempt
      /\ workers'[w].todo = workers[w].todo \ {s}
      /\ workers'[w].done = [workers[w].done EXCEPT ![s] = x]
      /\ workers'[w] \in [pc: {"run"}, op: OpIds, attempt: Attempts, todo: SUBSET Scenarios,
                          done: [Scenarios -> Outcome]]
  BY <1>2, <1>3, <1>5, Zenon
<1>7. workers' = [v \in Workers |-> workers'[v]]
  BY <1>1, Zenon DEF Settle
<1>8. \A v \in Workers : workers'[v] \in Worker
  BY <1>1, <1>4, <1>6 DEF Worker
<1> QED
  BY <1>4, <1>6, <1>7, <1>8

-----------------------------------------------------------------------------
(* What one step does to one row, and to one worker.                       *)

\* The row of o is left alone, deleted, stored, claimed or its lease runs, or
\* published by the worker that holds its newest attempt.
RowFate(o) ==
  \/ ops'[o] = ops[o]
  \/ /\ Drawn(o) /\ ops[o].status # "RUNNING"
     /\ ops'[o] = [ops[o] EXCEPT !.status = "PURGED"]
  \/ /\ ~Drawn(o)
     /\ ops'[o].status = "PENDING" /\ ops'[o].asked = ops[o].asked
  \/ /\ ops[o].status \in {"PENDING", "RUNNING"}
     /\ ops'[o].status = "RUNNING" /\ ops'[o].asked = ops[o].asked
     /\ ops'[o].attempt \in {ops[o].attempt, ops[o].attempt + 1}
  \/ /\ ops[o].status = "RUNNING" /\ ops'[o].status \in {"SUCCEEDED", "FAILED"}
     /\ ops'[o].asked = ops[o].asked /\ ops'[o].attempt = ops[o].attempt
     /\ \E w \in Workers :
          /\ workers[w].pc = "run" /\ workers[w].op = o
          /\ workers[w].attempt = ops[o].attempt
          /\ workers'[w] = Idle
          /\ ops'[o].status = "SUCCEEDED" =>
               workers[w].todo = {} /\ ops'[o].results = workers[w].done

\* The worker stops, stores or links an operation, claims one, or settles a
\* scenario.
WorkerFate(w) ==
  \/ workers'[w] = Idle
  \/ /\ workers'[w].pc \in {"link", "inline"}
     /\ workers'[w].op \in OpIds /\ ops'[workers'[w].op].status # "FREE"
  \/ /\ workers'[w].pc = "run" /\ Drawn(workers'[w].op)
     /\ workers'[w].op \in OpIds
     /\ ops'[workers'[w].op].status = "RUNNING"
     /\ ops'[workers'[w].op].attempt = ops[workers'[w].op].attempt + 1
     /\ workers'[w].attempt = ops'[workers'[w].op].attempt
     /\ workers'[w].todo = ops'[workers'[w].op].asked
     /\ workers'[w].done = NoOutcome
  \/ /\ workers[w].pc = "run" /\ workers'[w].pc = "run"
     /\ workers'[w].op = workers[w].op
     /\ workers'[w].attempt = workers[w].attempt
     /\ \E s \in Scenarios, x \in Outcome :
          /\ x # Missing /\ Recorded(x, workers[w].op, workers[w].attempt, s)
          /\ workers'[w].todo = workers[w].todo \ {s}
          /\ workers'[w].done = [workers[w].done EXCEPT ![s] = x]

\* The runs are left alone, one is stored with its edge by the worker that
\* calculated it, or some are deleted with theirs.
RunsFate ==
  \/ UNCHANGED <<runs, members>>
  \/ \E w \in Workers, s \in Scenarios :
       /\ workers[w].pc = "run"
       /\ runs' = runs \cup {RunOf(workers[w], s)}
       /\ members' = members \cup {EdgeOf(RunOf(workers[w], s))}
  \/ \E S \in SUBSET runs :
       /\ runs' = runs \ S
       /\ members' = {e \in members : e.run \notin S}

Fates ==
  /\ TypeOK'
  /\ \A o \in OpIds : RowFate(o)
  /\ \/ workers' = workers
     \/ \E w \in Workers : /\ \A v \in Workers \ {w} : workers'[v] = workers[v]
                           /\ WorkerFate(w)
  /\ RunsFate

-----------------------------------------------------------------------------
\* A row that a cleanup leaves behind.
LEMMA CleanedFate ==
  ASSUME TypeOK, NEW X \in SUBSET Purgeable, NEW p \in OpIds, ops'[p] = Cleaned(X)[p]
  PROVE  RowFate(p)
<1>1. CASE p \in X
  <2>1. /\ Drawn(p) /\ ops[p].status # "RUNNING"
        /\ ops'[p] = [ops[p] EXCEPT !.status = "PURGED"]
    BY <1>1, CleanedRows
  <2> QED
    BY <2>1, Zenon DEF RowFate
<1>2. CASE p \notin X
  <2>1. ops'[p] = ops[p]
    BY <1>2 DEF Cleaned
  <2> QED
    BY <2>1, Zenon DEF RowFate
<1> QED
  BY <1>1, <1>2

\* Submission stores one row and deletes others.
LEMMA SubmitFates ==
  ASSUME AsyncInv, NEW w \in Workers, NEW o \in OpIds, NEW c \in Correlations, Submit(w, o, c)
  PROVE  Fates
<1> DEFINE row == [status |-> "PENDING", asked |-> ops[o].asked, corr |-> c,
                   attempt |-> 0, lease |-> 0, results |-> NoOutcome]
<1>1. TypeOK
  BY DEF AsyncInv
<1>2. PICK X \in SUBSET Purgeable : ops' = [Cleaned(X) EXCEPT ![o] = row]
  BY Zenon DEF Submit
<1>3. ~Drawn(o)
  BY DEF Submit, Drawn
<1>4. row \in Operation
  <2>1. NoOutcome \in [Scenarios -> Outcome]
    BY DEF NoOutcome, Outcome
  <2>2. 0 \in Attempts /\ 0 \in LeaseFloor..LeaseDuration
    BY AsyncConstants DEF Attempts, LeaseFloor
  <2>3. ops[o].asked \in SUBSET Scenarios
    BY <1>1, RowShape
  <2> QED
    BY <2>1, <2>2, <2>3 DEF Operation
<1>5. /\ ops' \in [OpIds -> Operation \cup {Free(S) : S \in SUBSET Scenarios}]
      /\ ops'[o] = row
      /\ \A p \in OpIds \ {o} : ops'[p] = Cleaned(X)[p]
  BY <1>1, <1>2, <1>4, CleanedRows
<1>6. \A p \in OpIds : RowFate(p)
  <2>1. RowFate(o)
    BY <1>3, <1>5 DEF RowFate
  <2>2. ASSUME NEW p \in OpIds \ {o}
        PROVE  RowFate(p)
    BY <1>1, <1>5, <2>2, CleanedFate
  <2> QED
    BY <2>1, <2>2
<1>7. /\ workers' \in [Workers -> Worker]
      /\ workers'[w] = [pc |-> "link", op |-> o]
      /\ \A v \in Workers \ {w} : workers'[v] = workers[v]
  BY <1>1 DEF Submit, TypeOK, Worker
<1>8. WorkerFate(w)
  BY <1>5, <1>7 DEF WorkerFate, Drawn
<1>9. UNCHANGED <<linked, runs, members>>
  BY DEF Submit
<1>10. TypeOK'
  BY <1>1, <1>5, <1>7, <1>9 DEF TypeOK
<1> QED
  BY <1>6, <1>7, <1>8, <1>9, <1>10 DEF Fates, RunsFate

\* The claim stores the next attempt, and its worker holds it.
LEMMA ClaimFates ==
  ASSUME AsyncInv, NEW w \in Workers, NEW o \in OpIds, NEW lag \in Lags, Claim(w, o, lag)
  PROVE  Fates
<1>1. TypeOK
  BY DEF AsyncInv
<1>2. PICK X \in SUBSET Purgeable :
        o \notin X /\ ops' = [Cleaned(X) EXCEPT ![o] = ClaimedRow(ops[o], lag)]
  BY Zenon DEF Claim
<1>3. ops[o] \in Operation /\ Drawn(o) /\ ops[o].status \in {"PENDING", "RUNNING"}
  BY <1>1, RowShape DEF Claim, Executable, Stored, Drawn
<1>4. /\ ClaimedRow(ops[o], lag) \in Operation
      /\ ClaimedRow(ops[o], lag).status = "RUNNING"
      /\ ClaimedRow(ops[o], lag).asked = ops[o].asked
      /\ ClaimedRow(ops[o], lag).attempt = ops[o].attempt + 1
  <2>1. ops[o].attempt + 1 \in Attempts
    BY <1>3, AsyncConstants DEF Claim, Operation, Attempts
  <2>2. LeaseDuration - lag \in LeaseFloor..LeaseDuration
    BY AsyncConstants DEF Lags, LeaseFloor
  <2>3. NoOutcome \in [Scenarios -> Outcome]
    BY DEF NoOutcome, Outcome
  <2> QED
    BY <1>3, <2>1, <2>2, <2>3, Zenon DEF ClaimedRow, Operation
<1>5. /\ ops' \in [OpIds -> Operation \cup {Free(S) : S \in SUBSET Scenarios}]
      /\ ops'[o] = ClaimedRow(ops[o], lag)
      /\ \A p \in OpIds \ {o} : ops'[p] = Cleaned(X)[p]
  BY <1>1, <1>2, <1>4, CleanedRows
<1>6. \A p \in OpIds : RowFate(p)
  <2>1. RowFate(o)
    BY <1>3, <1>4, <1>5 DEF RowFate
  <2>2. ASSUME NEW p \in OpIds \ {o}
        PROVE  RowFate(p)
    BY <1>1, <1>5, <2>2, CleanedFate
  <2> QED
    BY <2>1, <2>2
<1> DEFINE k == [pc |-> "run", op |-> o, attempt |-> ops'[o].attempt,
                 todo |-> ops[o].asked, done |-> NoOutcome]
<1>7. k \in Worker
  <2>1. NoOutcome \in [Scenarios -> Outcome]
    BY DEF NoOutcome, Outcome
  <2>2. ops'[o].attempt \in Attempts /\ ops[o].asked \in SUBSET Scenarios
    BY <1>3, <1>4, <1>5 DEF Operation
  <2> QED
    BY <2>1, <2>2 DEF Worker
<1>8. /\ workers' \in [Workers -> Worker]
      /\ workers'[w] = k
      /\ \A v \in Workers \ {w} : workers'[v] = workers[v]
  BY <1>1, <1>7 DEF Claim, TypeOK
<1>9. WorkerFate(w)
  BY <1>3, <1>4, <1>5, <1>8 DEF WorkerFate
<1>10. UNCHANGED <<linked, runs, members>>
  BY DEF Claim
<1>11. TypeOK'
  BY <1>1, <1>5, <1>8, <1>10 DEF TypeOK
<1> QED
  BY <1>6, <1>8, <1>9, <1>10, <1>11 DEF Fates, RunsFate

\* Publishing changes the row of the newest attempt only.
LEMMA PublishFates ==
  ASSUME AsyncInv, NEW w \in Workers, workers[w].pc = "run", FenceHolds(workers[w]),
         NEW status \in {"SUCCEEDED", "FAILED"}, NEW results \in [Scenarios -> Outcome],
         status = "SUCCEEDED" => workers[w].todo = {} /\ results = workers[w].done,
         Publish(workers[w], status, results),
         workers' = [workers EXCEPT ![w] = Idle],
         UNCHANGED <<linked, runs, members>>
  PROVE  Fates
<1> DEFINE o == workers[w].op
<1>1. TypeOK /\ OwnersInv
  BY DEF AsyncInv
<1>2. o \in OpIds /\ ops[o] \in Operation
  BY <1>1, WorkerShape, RowShape DEF TypeOK, OwnersInv
<1>3. /\ ops'[o] = [ops[o] EXCEPT !.status = status, !.lease = 0, !.results = results]
      /\ \A p \in OpIds \ {o} : ops'[p] = ops[p]
      /\ ops' = [p \in OpIds |-> ops'[p]]
  BY <1>1, <1>2, Zenon DEF Publish, TypeOK
<1>4. /\ ops'[o] \in Operation
      /\ ops'[o].status = status
      /\ ops'[o].asked = ops[o].asked
      /\ ops'[o].attempt = ops[o].attempt
      /\ ops'[o].results = results
  <2>1. 0 \in LeaseFloor..LeaseDuration
    BY AsyncConstants DEF LeaseFloor
  <2> QED
    BY <1>2, <1>3, <2>1, Zenon DEF Operation
<1>5. ops' \in [OpIds -> Operation \cup {Free(S) : S \in SUBSET Scenarios}]
  BY <1>1, <1>3, <1>4 DEF TypeOK
<1>6. /\ workers' \in [Workers -> Worker]
      /\ workers'[w] = Idle
      /\ \A v \in Workers \ {w} : workers'[v] = workers[v]
  BY <1>1 DEF TypeOK, Worker
<1>7. \A p \in OpIds : RowFate(p)
  <2>1. RowFate(o)
    <3>1. /\ workers[w].attempt = ops[o].attempt
          /\ ops[o].status = "RUNNING"
      BY DEF FenceHolds
    <3>2. ops'[o].status = "SUCCEEDED" =>
            workers[w].todo = {} /\ ops'[o].results = workers[w].done
      BY <1>4
    <3> HIDE DEF o
    <3>3. workers[w].op = o
      BY DEF o
    <3> QED
      BY <1>4, <1>6, <3>1, <3>2, <3>3 DEF RowFate
  <2>2. ASSUME NEW p \in OpIds \ {o}
        PROVE  RowFate(p)
    BY <1>3, <2>2 DEF RowFate
  <2> QED
    BY <2>1, <2>2
<1>8. TypeOK'
  BY <1>1, <1>5, <1>6 DEF TypeOK
<1> QED
  BY <1>6, <1>7, <1>8 DEF Fates, RunsFate, WorkerFate

\* A worker that gives up changes nothing else.
LEMMA StopFates ==
  ASSUME AsyncInv, NEW w \in Workers, workers' = [workers EXCEPT ![w] = Idle],
         UNCHANGED <<ops, linked, runs, members>>
  PROVE  Fates
<1>1. TypeOK
  BY DEF AsyncInv
<1>2. /\ workers' \in [Workers -> Worker]
      /\ workers'[w] = Idle
      /\ \A v \in Workers \ {w} : workers'[v] = workers[v]
  BY <1>1 DEF TypeOK, Worker
<1>3. TypeOK'
  BY <1>1, <1>2 DEF TypeOK
<1> QED
  BY <1>2, <1>3 DEF Fates, RowFate, RunsFate, WorkerFate

\* A cleanup, with or without a purge of runs, or a refused claim.
LEMMA CleanupFates ==
  ASSUME AsyncInv, NEW X \in SUBSET Purgeable, ops' = Cleaned(X), UNCHANGED linked,
         \/ UNCHANGED workers
         \/ \E w \in Workers : workers' = [workers EXCEPT ![w] = Idle],
         \/ UNCHANGED <<runs, members>>
         \/ \E S \in Expirable : PurgeRuns(S)
  PROVE  Fates
<1>1. TypeOK
  BY DEF AsyncInv
<1>2. ASSUME NEW o \in OpIds
      PROVE  RowFate(o)
  BY <1>1, <1>2, CleanedFate
<1>3. /\ workers' \in [Workers -> Worker]
      /\ \/ workers' = workers
         \/ \E w \in Workers : /\ \A v \in Workers \ {w} : workers'[v] = workers[v]
                               /\ workers'[w] = Idle
  BY <1>1 DEF TypeOK, Worker
<1>4. RunsFate
  BY DEF RunsFate, Expirable, PurgeRuns
<1>5. runs' \subseteq runs /\ members' \subseteq members
  BY DEF PurgeRuns
<1>6. TypeOK'
  BY <1>1, <1>3, <1>5, CleanedRows DEF TypeOK
<1> QED
  BY <1>2, <1>3, <1>4, <1>6 DEF Fates, WorkerFate

\* A scenario ends with or without a run.
LEMMA SettleFates ==
  ASSUME AsyncInv, NEW w \in Workers, workers[w].pc = "run", NEW s \in Scenarios,
         NEW x \in {RunOf(workers[w], s), Failed}, Settle(w, s, x),
         \/ UNCHANGED <<runs, members>>
         \/ SaveRun(RunOf(workers[w], s)),
         UNCHANGED <<ops, linked>>
  PROVE  Fates
<1>1. TypeOK /\ OwnersInv
  BY DEF AsyncInv
<1>2. /\ RunOf(workers[w], s) \in Run
      /\ EdgeOf(RunOf(workers[w], s)) \in Member
      /\ Recorded(RunOf(workers[w], s), workers[w].op, workers[w].attempt, s)
  BY <1>1, RunShape
<1>3. /\ x \in Outcome /\ x # Missing
      /\ Recorded(x, workers[w].op, workers[w].attempt, s)
  BY <1>2, OutcomeAssumption DEF Outcome, Recorded
<1>4. /\ workers' \in [Workers -> Worker]
      /\ \A v \in Workers \ {w} : workers'[v] = workers[v]
      /\ workers'[w].pc = "run"
      /\ workers'[w].op = workers[w].op
      /\ workers'[w].attempt = workers[w].attempt
      /\ workers'[w].todo = workers[w].todo \ {s}
      /\ workers'[w].done = [workers[w].done EXCEPT ![s] = x]
  BY <1>1, <1>3, SettledWorker
<1>5. WorkerFate(w)
  BY <1>3, <1>4 DEF WorkerFate
<1>6. RunsFate
  BY DEF RunsFate, SaveRun
<1>7. runs' \subseteq Run /\ members' \subseteq Member
  BY <1>1, <1>2 DEF SaveRun, TypeOK
<1>8. TypeOK'
  BY <1>1, <1>4, <1>7 DEF TypeOK
<1> QED
  BY <1>4, <1>5, <1>6, <1>8 DEF Fates, RowFate

\* The submitter links its operation and, INLINE, keeps it to execute.
LEMMA LineageFates ==
  ASSUME AsyncInv, NEW w \in Workers, RecordLineage(w)
  PROVE  Fates
<1>1. TypeOK /\ OwnersInv
  BY DEF AsyncInv
<1>2. workers[w].op \in OpIds /\ Drawn(workers[w].op)
  BY <1>1, WorkerShape DEF RecordLineage, TypeOK, OwnersInv
<1>3. /\ workers' \in [Workers -> Worker]
      /\ \A v \in Workers \ {w} : workers'[v] = workers[v]
      /\ workers'[w] \in {Idle, [pc |-> "inline", op |-> workers[w].op]}
  BY <1>1, <1>2 DEF RecordLineage, TypeOK, Worker
<1>4. ops' = ops /\ UNCHANGED <<runs, members>>
  BY DEF RecordLineage
<1>5. WorkerFate(w)
  BY <1>2, <1>3, <1>4 DEF WorkerFate, Drawn
<1>6. TypeOK'
  BY <1>1, <1>2, <1>3, <1>4 DEF TypeOK, RecordLineage
<1> QED
  BY <1>3, <1>4, <1>5, <1>6 DEF Fates, RowFate, RunsFate

\* Time runs.
LEMMA TickFates ==
  ASSUME AsyncInv, Tick
  PROVE  Fates
<1>1. TypeOK
  BY DEF AsyncInv
<1>2. ASSUME NEW o \in OpIds
      PROVE  /\ RowFate(o)
             /\ ops'[o] \in Operation \cup {Free(S) : S \in SUBSET Scenarios}
  <2>1. CASE ops[o].status = "RUNNING" /\ ops[o].lease > LeaseFloor
    <3>1. ops[o] \in Operation
      BY <1>1, <2>1, RowShape DEF Drawn
    <3>2. ops'[o] = [ops[o] EXCEPT !.lease = ops[o].lease - 1]
      BY <2>1, <1>2 DEF Tick
    <3>3. ops[o].lease - 1 \in LeaseFloor..LeaseDuration
      BY <2>1, <3>1, AsyncConstants DEF Operation, LeaseFloor
    <3>4. /\ ops'[o] \in Operation
          /\ ops'[o].status = "RUNNING"
          /\ ops'[o].asked = ops[o].asked
          /\ ops'[o].attempt = ops[o].attempt
      BY <2>1, <3>1, <3>2, <3>3 DEF Operation
    <3> QED
      BY <2>1, <3>4 DEF RowFate
  <2>2. CASE ~(ops[o].status = "RUNNING" /\ ops[o].lease > LeaseFloor)
    BY <1>1, <1>2, <2>2 DEF Tick, TypeOK, RowFate
  <2> QED
    BY <2>1, <2>2
<1>3. ops' = [o \in OpIds |-> ops'[o]]
  BY DEF Tick
<1>4. TypeOK'
  BY <1>1, <1>2, <1>3, Zenon DEF TypeOK, Tick
<1> QED
  BY <1>2, <1>4, Zenon DEF Fates, RunsFate, Tick

\* Every step is covered.
LEMMA NextFates ==
  ASSUME AsyncInv, Next
  PROVE  Fates
<1>1. ASSUME NEW w \in Workers, WorkerStep(w)
      PROVE  Fates
  <2>0. TypeOK /\ workers[w] \in Worker
    BY DEF AsyncInv, TypeOK
  <2>1. ASSUME NEW o \in OpIds, NEW c \in Correlations, Submit(w, o, c)
        PROVE  Fates
    BY <2>1, SubmitFates
  <2>2. CASE RecordLineage(w)
    BY <2>2, LineageFates
  <2>3. ASSUME NEW o \in OpIds, NEW lag \in Lags, Claim(w, o, lag)
        PROVE  Fates
    BY <2>3, ClaimFates
  <2>4. ASSUME NEW lag \in Lags, ClaimRefused(w, lag)
        PROVE  Fates
    BY <2>4, CleanupFates, Zenon DEF ClaimRefused
  <2>5. ASSUME NEW s \in Scenarios, ScenarioSucceeds(w, s)
        PROVE  Fates
    BY <2>5, SettleFates DEF ScenarioSucceeds
  <2>6. ASSUME NEW s \in Scenarios, ScenarioFails(w, s)
        PROVE  Fates
    BY <2>6, SettleFates DEF ScenarioFails
  <2>7. ASSUME NEW s \in Scenarios, ArtifactFails(w, s)
        PROVE  Fates
    BY <2>7, SettleFates DEF ArtifactFails
  <2>8. ASSUME NEW s \in Scenarios, RunRefused(w, s)
        PROVE  Fates
    BY <2>8, StopFates, Zenon DEF RunRefused
  <2>9. CASE PublishSuccess(w)
    <3>1. workers[w].done \in [Scenarios -> Outcome]
      BY <2>0, <2>9, WorkerShape DEF PublishSuccess
    <3> QED
      BY <2>9, <3>1, PublishFates, Zenon DEF PublishSuccess
  <2>10. CASE PublishFailure(w)
    <3>1. NoOutcome \in [Scenarios -> Outcome]
      BY DEF NoOutcome, Outcome
    <3> QED
      BY <2>10, <3>1, PublishFates, Zenon DEF PublishFailure
  <2>11. CASE PublishStale(w)
    BY <2>11, StopFates, Zenon DEF PublishStale
  <2>12. CASE WorkerCrash(w)
    BY <2>12, StopFates, Zenon DEF WorkerCrash
  <2> QED
    BY <1>1, <2>1, <2>2, <2>3, <2>4, <2>5, <2>6, <2>7, <2>8, <2>9, <2>10, <2>11, <2>12
       DEF WorkerStep, ScenarioStep, PublishStep
<1>2. CASE Read
  <2>1. PICK X \in SUBSET Purgeable : ops' = Cleaned(X)
    BY <1>2 DEF Read
  <2> QED
    BY <1>2, <2>1, CleanupFates DEF Read
<1>3. CASE Tick
  BY <1>3, TickFates
<1> QED
  BY <1>1, <1>2, <1>3 DEF Next

-----------------------------------------------------------------------------
(* The fates preserve the invariant.                                       *)

\* A drawn row stays drawn, for the same scenarios, and its attempts only grow.
RowsGrow ==
  \A o \in OpIds : Drawn(o) =>
    /\ ops'[o].status # "FREE"
    /\ ops'[o].asked = ops[o].asked
    /\ ops[o].attempt \in Nat /\ ops'[o].attempt \in Nat
    /\ ops[o].attempt <= ops'[o].attempt

\* Whatever a step does to a row, it grows.
LEMMA RowsOnlyGrow ==
  ASSUME TypeOK, Fates
  PROVE  RowsGrow
<1> SUFFICES ASSUME NEW o \in OpIds, Drawn(o)
             PROVE  /\ ops'[o].status # "FREE"
                    /\ ops'[o].asked = ops[o].asked
                    /\ ops[o].attempt \in Nat /\ ops'[o].attempt \in Nat
                    /\ ops[o].attempt <= ops'[o].attempt
  BY DEF RowsGrow
<1>1. ops[o] \in Operation
  BY RowShape
<1>2. ops[o].attempt \in Nat /\ ops[o].status # "FREE"
  BY <1>1, AsyncConstants DEF Operation, Attempts
<1>3. RowFate(o)
  BY DEF Fates
<1>4. CASE ops'[o] = [ops[o] EXCEPT !.status = "PURGED"]
  BY <1>1, <1>2, <1>4 DEF Operation
<1> QED
  BY <1>2, <1>3, <1>4 DEF RowFate, Drawn

\* A worker other than the one that moves keeps its attempt, and the newest one
\* keeps its row RUNNING: only its holder publishes.
LEMMA OwnersKept ==
  ASSUME AsyncInv, Fates
  PROVE  OwnersInv'
<1>1. /\ TypeOK /\ OwnersInv /\ DistinctOwners
      /\ RowsGrow
      /\ \A v \in Workers : workers[v] \in Worker /\ workers'[v] \in Worker
  BY RowsOnlyGrow DEF AsyncInv, Fates, TypeOK
<1>2. ASSUME NEW v \in Workers, workers'[v] = workers[v], workers[v].pc # "idle"
      PROVE  /\ ops'[workers[v].op].status # "FREE"
             /\ workers[v].pc = "run" =>
                  /\ workers[v].attempt \in 1..ops'[workers[v].op].attempt
                  /\ workers[v].attempt = ops'[workers[v].op].attempt =>
                       ops'[workers[v].op].status = "RUNNING"
  <2>1. PICK o \in OpIds : o = workers[v].op /\ Drawn(o)
    BY <1>1, <1>2, WorkerShape DEF OwnersInv
  <2>2. /\ ops'[o].status # "FREE" /\ ops[o].attempt \in Nat /\ ops'[o].attempt \in Nat
        /\ ops[o].attempt <= ops'[o].attempt
    BY <1>1, <2>1 DEF RowsGrow
  <2>3. CASE workers[v].pc = "run"
    <3>1. /\ workers[v].attempt \in 1..ops[o].attempt
          /\ workers[v].attempt = ops[o].attempt => ops[o].status = "RUNNING"
      BY <1>1, <1>2, <2>1, <2>3 DEF OwnersInv
    <3>2. ASSUME workers[v].attempt = ops'[o].attempt
          PROVE  ops'[o].status = "RUNNING"
      <4>1. workers[v].attempt = ops[o].attempt /\ ops[o].status = "RUNNING"
        BY <2>2, <3>1, <3>2
      <4>2. RowFate(o)
        BY DEF Fates
      <4>3. ASSUME NEW w \in Workers, workers[w].pc = "run", workers[w].op = o,
                   workers[w].attempt = ops[o].attempt, workers'[w] = Idle
            PROVE  FALSE
        <5>1. w = v
          BY <1>1, <2>1, <2>3, <4>1, <4>3 DEF DistinctOwners
        <5> QED
          BY <1>2, <4>3, <5>1 DEF Idle
      <4> QED
        BY <2>1, <4>1, <4>2, <4>3, Zenon DEF RowFate, Drawn
    <3> QED
      BY <2>1, <2>2, <3>1, <3>2
  <2> QED
    BY <2>1, <2>2, <2>3
<1>3. ASSUME NEW w \in Workers, WorkerFate(w), workers'[w].pc # "idle"
      PROVE  /\ ops'[workers'[w].op].status # "FREE"
             /\ workers'[w].pc = "run" =>
                  /\ workers'[w].attempt \in 1..ops'[workers'[w].op].attempt
                  /\ workers'[w].attempt = ops'[workers'[w].op].attempt =>
                       ops'[workers'[w].op].status = "RUNNING"
  <2>1. CASE workers'[w].pc \in {"link", "inline"} /\ ops'[workers'[w].op].status # "FREE"
    BY <2>1
  <2>2. CASE /\ workers'[w].pc = "run" /\ Drawn(workers'[w].op)
             /\ workers'[w].op \in OpIds
             /\ ops'[workers'[w].op].status = "RUNNING"
             /\ ops'[workers'[w].op].attempt = ops[workers'[w].op].attempt + 1
             /\ workers'[w].attempt = ops'[workers'[w].op].attempt
    BY <1>1, <2>2 DEF RowsGrow
  <2>3. CASE /\ workers[w].pc = "run" /\ workers'[w].pc = "run"
             /\ workers'[w].op = workers[w].op
             /\ workers'[w].attempt = workers[w].attempt
    <3>1. PICK o \in OpIds : o = workers[w].op /\ Drawn(o)
      BY <1>1, <2>3, WorkerShape DEF OwnersInv
    <3>2. /\ ops'[o].status # "FREE" /\ ops[o].attempt \in Nat /\ ops'[o].attempt \in Nat
          /\ ops[o].attempt <= ops'[o].attempt
      BY <1>1, <3>1 DEF RowsGrow
    <3>3. /\ workers[w].attempt \in 1..ops[o].attempt
          /\ workers[w].attempt = ops[o].attempt => ops[o].status = "RUNNING"
      BY <1>1, <2>3, <3>1 DEF OwnersInv
    <3>4. ASSUME workers[w].attempt = ops'[o].attempt
          PROVE  ops'[o].status = "RUNNING"
      <4>1. workers[w].attempt = ops[o].attempt /\ ops[o].status = "RUNNING"
        BY <3>2, <3>3, <3>4
      <4>2. RowFate(o)
        BY DEF Fates
      <4>3. ASSUME NEW v \in Workers, workers[v].pc = "run", workers[v].op = o,
                   workers[v].attempt = ops[o].attempt, workers'[v] = Idle
            PROVE  FALSE
        <5>1. w = v
          BY <1>1, <2>3, <3>1, <4>1, <4>3 DEF DistinctOwners
        <5> QED
          BY <2>3, <4>3, <5>1 DEF Idle
      <4> QED
        BY <3>1, <4>1, <4>2, <4>3, Zenon DEF RowFate, Drawn
    <3> QED
      BY <2>3, <3>1, <3>2, <3>3, <3>4
  <2>4. workers'[w] # Idle
    BY <1>3 DEF Idle
  <2>5. \/ workers'[w].pc \in {"link", "inline"} /\ ops'[workers'[w].op].status # "FREE"
        \/ /\ workers'[w].pc = "run" /\ Drawn(workers'[w].op)
           /\ workers'[w].op \in OpIds
           /\ ops'[workers'[w].op].status = "RUNNING"
           /\ ops'[workers'[w].op].attempt = ops[workers'[w].op].attempt + 1
           /\ workers'[w].attempt = ops'[workers'[w].op].attempt
        \/ /\ workers[w].pc = "run" /\ workers'[w].pc = "run"
           /\ workers'[w].op = workers[w].op
           /\ workers'[w].attempt = workers[w].attempt
    BY <1>3, <2>4, Zenon DEF WorkerFate
  <2> QED
    BY <2>1, <2>2, <2>3, <2>5
<1>4. \A v \in Workers : workers'[v].pc # "idle" =>
        /\ ops'[workers'[v].op].status # "FREE"
        /\ workers'[v].pc = "run" =>
             /\ workers'[v].attempt \in 1..ops'[workers'[v].op].attempt
             /\ workers'[v].attempt = ops'[workers'[v].op].attempt =>
                  ops'[workers'[v].op].status = "RUNNING"
  BY <1>2, <1>3 DEF Fates
<1> QED
  BY <1>4 DEF OwnersInv, Drawn

\* A claim's attempt is above all attempts anyone holds on the operation.
LEMMA OwnersDistinct ==
  ASSUME AsyncInv, Fates
  PROVE  DistinctOwners'
<1>1. /\ TypeOK /\ OwnersInv /\ DistinctOwners
      /\ RowsGrow
  BY RowsOnlyGrow DEF AsyncInv
<1>2. CASE workers' = workers
  BY <1>1, <1>2 DEF DistinctOwners
<1>3. ASSUME NEW w \in Workers, \A v \in Workers \ {w} : workers'[v] = workers[v],
             WorkerFate(w)
      PROVE  DistinctOwners'
  <2>1. ASSUME NEW v \in Workers \ {w}, workers'[v].pc = "run", workers'[w].pc = "run",
               workers'[v].op = workers'[w].op, workers'[v].attempt = workers'[w].attempt
        PROVE  FALSE
    <3>1. workers[v].pc = "run" /\ workers[v] = workers'[v]
      BY <1>3, <2>1
    <3>2. CASE /\ workers'[w].op \in OpIds /\ Drawn(workers'[w].op)
               /\ ops'[workers'[w].op].attempt = ops[workers'[w].op].attempt + 1
               /\ workers'[w].attempt = ops'[workers'[w].op].attempt
      <4>1. workers[v].attempt \in 1..ops[workers[v].op].attempt
        BY <1>1, <3>1 DEF OwnersInv
      <4>2. ops[workers'[w].op].attempt \in Nat
        BY <1>1, <3>2 DEF RowsGrow
      <4> QED
        BY <2>1, <3>1, <3>2, <4>1, <4>2
    <3>3. CASE /\ workers[w].pc = "run"
               /\ workers'[w].op = workers[w].op
               /\ workers'[w].attempt = workers[w].attempt
      BY <1>1, <2>1, <3>1, <3>3 DEF DistinctOwners
    <3> QED
      BY <1>3, <2>1, <3>2, <3>3 DEF WorkerFate, Idle
  <2>2. ASSUME NEW u \in Workers, NEW v \in Workers,
               workers'[u].pc = "run", workers'[v].pc = "run",
               workers'[u].op = workers'[v].op, workers'[u].attempt = workers'[v].attempt
        PROVE  u = v
    <3>1. CASE u = w \/ v = w
      BY <2>1, <2>2, <3>1
    <3>2. CASE u # w /\ v # w
      BY <1>1, <1>3, <2>2, <3>2 DEF DistinctOwners
    <3> QED
      BY <3>1, <3>2
  <2> QED
    BY <2>2 DEF DistinctOwners
<1> QED
  BY <1>2, <1>3 DEF Fates

\* What an execution knows stays true: its operation asks for the same scenarios,
\* and a settled scenario has an outcome of its own attempt.
LEMMA ProgressKept ==
  ASSUME AsyncInv, Fates
  PROVE  ProgressInv'
<1>1. /\ TypeOK /\ OwnersInv /\ ProgressInv
      /\ RowsGrow
      /\ \A v \in Workers : workers[v] \in Worker
  BY RowsOnlyGrow DEF AsyncInv, TypeOK
<1>2. ASSUME NEW v \in Workers, workers[v].pc = "run"
      PROVE  /\ workers[v].op \in OpIds
             /\ ops'[workers[v].op].asked = ops[workers[v].op].asked
             /\ ops[workers[v].op].asked \subseteq Scenarios
  <2>1. workers[v].op \in OpIds /\ Drawn(workers[v].op)
    BY <1>1, <1>2, WorkerShape DEF OwnersInv
  <2> QED
    BY <1>1, <2>1, RowShape DEF RowsGrow
<1>3. ASSUME NEW v \in Workers, workers'[v] = workers[v], workers[v].pc = "run"
      PROVE  /\ workers'[v].todo \subseteq ops'[workers'[v].op].asked
             /\ \A s \in ops'[workers'[v].op].asked \ workers'[v].todo : workers'[v].done[s] # Missing
             /\ \A s \in Scenarios :
                  Recorded(workers'[v].done[s], workers'[v].op, workers'[v].attempt, s)
  BY <1>1, <1>2, <1>3 DEF ProgressInv
<1>4. ASSUME NEW w \in Workers, WorkerFate(w), workers'[w].pc = "run"
      PROVE  /\ workers'[w].todo \subseteq ops'[workers'[w].op].asked
             /\ \A s \in ops'[workers'[w].op].asked \ workers'[w].todo : workers'[w].done[s] # Missing
             /\ \A s \in Scenarios :
                  Recorded(workers'[w].done[s], workers'[w].op, workers'[w].attempt, s)
  <2>1. CASE /\ workers'[w].todo = ops'[workers'[w].op].asked
             /\ workers'[w].done = NoOutcome
    BY <2>1, OutcomeAssumption DEF NoOutcome, Recorded
  <2>2. CASE /\ workers[w].pc = "run" /\ workers'[w].op = workers[w].op
             /\ workers'[w].attempt = workers[w].attempt
             /\ \E s \in Scenarios, x \in Outcome :
                  /\ x # Missing /\ Recorded(x, workers[w].op, workers[w].attempt, s)
                  /\ workers'[w].todo = workers[w].todo \ {s}
                  /\ workers'[w].done = [workers[w].done EXCEPT ![s] = x]
    <3>1. PICK s \in Scenarios, x \in Outcome :
            /\ x # Missing /\ Recorded(x, workers[w].op, workers[w].attempt, s)
            /\ workers'[w].todo = workers[w].todo \ {s}
            /\ workers'[w].done = [workers[w].done EXCEPT ![s] = x]
      BY <2>2
    <3>2. workers[w].done \in [Scenarios -> Outcome]
      BY <1>1, <2>2, WorkerShape
    <3>3. /\ workers'[w].done[s] = x
          /\ \A t \in Scenarios \ {s} : workers'[w].done[t] = workers[w].done[t]
      BY <3>1, <3>2
    <3>4. /\ workers[w].todo \subseteq ops[workers[w].op].asked
          /\ \A t \in ops[workers[w].op].asked \ workers[w].todo : workers[w].done[t] # Missing
          /\ \A t \in Scenarios :
               Recorded(workers[w].done[t], workers[w].op, workers[w].attempt, t)
      BY <1>1, <2>2 DEF ProgressInv
    <3>5. ops'[workers'[w].op].asked = ops[workers[w].op].asked
          /\ ops[workers[w].op].asked \subseteq Scenarios
      BY <1>2, <2>2
    <3>6. \A t \in Scenarios :
            Recorded(workers'[w].done[t], workers'[w].op, workers'[w].attempt, t)
      BY <2>2, <3>1, <3>3, <3>4
    <3>7. \A t \in ops'[workers'[w].op].asked \ workers'[w].todo : workers'[w].done[t] # Missing
      BY <3>1, <3>3, <3>4, <3>5
    <3> QED
      BY <3>1, <3>4, <3>5, <3>6, <3>7
  <2>3. workers'[w] # Idle /\ workers'[w].pc \notin {"link", "inline"}
    BY <1>4 DEF Idle
  <2>4. \/ /\ workers'[w].todo = ops'[workers'[w].op].asked
           /\ workers'[w].done = NoOutcome
        \/ /\ workers[w].pc = "run" /\ workers'[w].op = workers[w].op
           /\ workers'[w].attempt = workers[w].attempt
           /\ \E s \in Scenarios, x \in Outcome :
                /\ x # Missing /\ Recorded(x, workers[w].op, workers[w].attempt, s)
                /\ workers'[w].todo = workers[w].todo \ {s}
                /\ workers'[w].done = [workers[w].done EXCEPT ![s] = x]
    BY <1>4, <2>3, Zenon DEF WorkerFate
  <2> QED
    BY <2>1, <2>2, <2>4
<1>5. \A v \in Workers : workers'[v].pc = "run" =>
        /\ workers'[v].todo \subseteq ops'[workers'[v].op].asked
        /\ \A s \in ops'[workers'[v].op].asked \ workers'[v].todo : workers'[v].done[s] # Missing
        /\ \A s \in Scenarios :
             Recorded(workers'[v].done[s], workers'[v].op, workers'[v].attempt, s)
  BY <1>3, <1>4 DEF Fates
<1> QED
  BY <1>5 DEF ProgressInv, Recorded

\* Runs and their edges come and go together, under attempts that exist.
LEMMA RunsKept ==
  ASSUME AsyncInv, Fates
  PROVE  RunsInv'
<1>1. /\ TypeOK /\ OwnersInv /\ RunsInv
      /\ RowsGrow
  BY RowsOnlyGrow DEF AsyncInv
<1>2. ASSUME NEW x \in runs
      PROVE  /\ ops'[x.op].status # "FREE"
             /\ x.attempt \in 1..ops'[x.op].attempt
             /\ EdgeOf(x).run = x
  <2>1. /\ x.op \in OpIds /\ Drawn(x.op)
        /\ x.attempt \in 1..ops[x.op].attempt
    BY <1>1 DEF TypeOK, Run, RunsInv
  <2> QED
    BY <1>1, <2>1 DEF RowsGrow, EdgeOf
<1>3. CASE UNCHANGED <<runs, members>>
  BY <1>1, <1>2, <1>3 DEF RunsInv, Drawn, EdgeOf
<1>4. ASSUME NEW w \in Workers, NEW s \in Scenarios, workers[w].pc = "run",
             runs' = runs \cup {RunOf(workers[w], s)},
             members' = members \cup {EdgeOf(RunOf(workers[w], s))}
      PROVE  RunsInv'
  <2> DEFINE x == RunOf(workers[w], s)
  <2>1. /\ workers[w].op \in OpIds /\ Drawn(workers[w].op)
        /\ workers[w].attempt \in 1..ops[workers[w].op].attempt
    BY <1>1, <1>4, RunShape DEF OwnersInv
  <2>2. x.op = workers[w].op /\ x.attempt = workers[w].attempt
    BY DEF RunOf
  <2>3. ops'[x.op].status # "FREE" /\ x.attempt \in 1..ops'[x.op].attempt
    BY <1>1, <2>1, <2>2 DEF RowsGrow
  <2> HIDE DEF x
  <2>4. runs' = runs \cup {x} /\ members' = members \cup {EdgeOf(x)}
    BY <1>4 DEF x
  <2>5. members' = {EdgeOf(y) : y \in runs'}
    BY <1>1, <2>4 DEF RunsInv
  <2>6. \A y \in runs' : ops'[y.op].status # "FREE" /\ y.attempt \in 1..ops'[y.op].attempt
    BY <1>2, <2>3, <2>4
  <2> QED
    BY <2>5, <2>6 DEF RunsInv, Drawn, EdgeOf
<1>5. ASSUME NEW S \in SUBSET runs, runs' = runs \ S,
             members' = {e \in members : e.run \notin S}
      PROVE  RunsInv'
  <2>1. members' = {EdgeOf(y) : y \in runs'}
    BY <1>1, <1>2, <1>5 DEF RunsInv
  <2> QED
    BY <1>2, <1>5, <2>1 DEF RunsInv, Drawn, EdgeOf
<1> QED
  BY <1>3, <1>4, <1>5 DEF Fates, RunsFate

\* A result is published once, from what its worker knows.
LEMMA ResultsKept ==
  ASSUME AsyncInv, Fates
  PROVE  ResultsInv'
<1>1. /\ TypeOK /\ OwnersInv /\ ProgressInv /\ ResultsInv
  BY DEF AsyncInv
<1>2. ASSUME NEW o \in OpIds, ops'[o].status = "SUCCEEDED", NEW s \in ops'[o].asked
      PROVE  /\ ops'[o].results[s] # Missing
             /\ Recorded(ops'[o].results[s], o, ops'[o].attempt, s)
  <2>1. RowFate(o)
    BY DEF Fates
  <2>2. CASE ops'[o] = ops[o]
    BY <1>1, <1>2, <2>2 DEF ResultsInv
  <2>3. CASE Drawn(o) /\ ops'[o] = [ops[o] EXCEPT !.status = "PURGED"]
    <3>1. ops'[o].status = "PURGED"
      BY <1>1, <2>3, RowShape DEF Operation
    <3> QED
      BY <1>2, <3>1
  <2>4. ASSUME NEW w \in Workers, workers[w].pc = "run", workers[w].op = o,
               workers[w].attempt = ops[o].attempt, workers[w].todo = {},
               ops'[o].results = workers[w].done,
               ops'[o].asked = ops[o].asked, ops'[o].attempt = ops[o].attempt
        PROVE  /\ ops'[o].results[s] # Missing
               /\ Recorded(ops'[o].results[s], o, ops'[o].attempt, s)
    <3>1. s \in ops[o].asked \ workers[w].todo /\ s \in Scenarios
      BY <1>1, <1>2, <2>4, RowShape
    <3> QED
      BY <1>1, <2>4, <3>1 DEF ProgressInv
  <2> QED
    BY <1>2, <2>1, <2>2, <2>3, <2>4 DEF RowFate
<1> QED
  BY <1>2 DEF ResultsInv, Recorded

\* Every step keeps the invariant.
LEMMA AsyncInvStep ==
  ASSUME AsyncInv, [Next]_vars
  PROVE  AsyncInv'
<1>1. CASE Next
  <2>1. Fates
    BY <1>1, NextFates
  <2> QED
    BY <2>1, OwnersKept, OwnersDistinct, ProgressKept, RunsKept, ResultsKept DEF AsyncInv, Fates
<1>2. CASE UNCHANGED vars
  <2>1. UNCHANGED <<ops, linked, runs, members, workers>>
    BY <1>2 DEF vars
  <2>2. TypeOK' /\ OwnersInv' /\ DistinctOwners'
    BY <2>1 DEF AsyncInv, TypeOK, OwnersInv, DistinctOwners, Drawn
  <2>3. ProgressInv'
    BY <2>1 DEF AsyncInv, ProgressInv, Recorded
  <2>4. RunsInv'
    BY <2>1 DEF AsyncInv, RunsInv, Drawn, EdgeOf
  <2>5. ResultsInv'
    BY <2>1 DEF AsyncInv, ResultsInv, Recorded
  <2> QED
    BY <2>2, <2>3, <2>4, <2>5 DEF AsyncInv
<1> QED
  BY <1>1, <1>2

\* It holds at the start.
LEMMA AsyncInvInit ==
  ASSUME Init
  PROVE  AsyncInv
<1>1. PICK asked \in Requests : ops = [o \in OpIds |-> Free(asked[o])]
  BY DEF Init
<1>2. ASSUME NEW o \in OpIds
      PROVE  /\ ops[o] \in {Free(S) : S \in SUBSET Scenarios}
             /\ ops[o].status = "FREE"
  BY <1>1, <1>2, AsyncConstants, Zenon DEF Free
<1>3. ASSUME NEW w \in Workers
      PROVE  workers[w] = Idle /\ workers[w].pc = "idle"
  BY <1>3 DEF Init, Idle
<1>4. TypeOK
  BY <1>1, <1>2 DEF Init, TypeOK, Worker
<1>5. OwnersInv /\ DistinctOwners /\ ProgressInv
  BY <1>3 DEF OwnersInv, DistinctOwners, ProgressInv
<1>6. RunsInv
  BY DEF Init, RunsInv
<1>7. ResultsInv
  BY <1>2 DEF ResultsInv
<1> QED
  BY <1>4, <1>5, <1>6, <1>7 DEF AsyncInv

-----------------------------------------------------------------------------
\* The invariant holds in every behaviour.
LEMMA AsyncInvariant == Spec => []AsyncInv
<1>1. Init => AsyncInv
  BY AsyncInvInit
<1>2. AsyncInv /\ [Next]_vars => AsyncInv'
  BY AsyncInvStep
<1> QED
  BY <1>1, <1>2, PTL DEF Spec

\* Every variable keeps its type, for any constants.
THEOREM AsyncTypes == Spec => []TypeOK
<1>1. AsyncInv => TypeOK
  BY DEF AsyncInv
<1> QED
  BY <1>1, AsyncInvariant, PTL

\* However often an operation is taken over and purges run, the worker of its
\* newest attempt finds it RUNNING and can publish.
THEOREM NewestOwnersPublish == Spec => []NewestOwnerCanPublish
<1>1. ASSUME AsyncInv
      PROVE  NewestOwnerCanPublish
  BY <1>1 DEF AsyncInv, OwnersInv, NewestOwnerCanPublish
<1> QED
  BY <1>1, AsyncInvariant, PTL

\* Terminal evidence is final: no late worker and no repeated execute call
\* changes a published outcome; it can only be deleted.
THEOREM TerminalNeverChanges == Spec => TerminalIsFinal
<1>1. ASSUME AsyncInv, [Next]_vars
      PROVE  [FinishedStep]_vars
  <2>1. CASE Next
    <3>1. ASSUME NEW o \in OpIds, ops[o].status \in {"SUCCEEDED", "FAILED"}
          PROVE  ops'[o] \in {ops[o], [ops[o] EXCEPT !.status = "PURGED"]}
      BY <1>1, <2>1, <3>1, NextFates, Zenon DEF Fates, RowFate, Drawn
    <3> QED
      BY <3>1 DEF FinishedStep
  <2> QED
    BY <1>1, <2>1
<1> QED
  BY <1>1, AsyncInvariant, PTL DEF Spec, TerminalIsFinal

\* No run is lost from sight: while retention keeps it, it is in the support
\* bundle of its operation, and no membership edge outlives its run.
THEOREM RunsStayAccountedFor == Spec => []RunsAccountedFor
<1>1. ASSUME AsyncInv
      PROVE  RunsAccountedFor
  <2>1. TypeOK /\ RunsInv
    BY <1>1 DEF AsyncInv
  <2>2. ASSUME NEW x \in runs
        PROVE  x \in SelectedRuns(x.op) \cup HistoricalRuns(x.op)
    <3>1. /\ EdgeOf(x) \in members
          /\ x.attempt \in 1..ops[x.op].attempt
      BY <2>1 DEF RunsInv
    <3>2. EdgeOf(x).op = x.op /\ EdgeOf(x).run = x /\ EdgeOf(x).attempt = x.attempt
      BY DEF EdgeOf
    <3> QED
      BY <3>1, <3>2 DEF HistoricalRuns
  <2>3. ASSUME NEW e \in members
        PROVE  e.run \in runs
    BY <2>1 DEF RunsInv, EdgeOf
  <2> QED
    BY <2>2, <2>3 DEF RunsAccountedFor
<1> QED
  BY <1>1, AsyncInvariant, PTL

\* The published result is the evidence of one attempt, and the support bundle
\* shows it as long as retention keeps its runs.
THEOREM PublishedIsEvidence == Spec => []PublishedEvidence
<1>1. ASSUME AsyncInv
      PROVE  PublishedEvidence
  <2>1. TypeOK /\ RunsInv /\ ResultsInv
    BY <1>1 DEF AsyncInv
  <2>2. ASSUME NEW o \in OpIds, ops[o].status = "SUCCEEDED", NEW s \in ops[o].asked
        PROVE  LET x == ops[o].results[s]
               IN /\ x # Missing
                  /\ x \in Run => x.op = o /\ x.attempt = ops[o].attempt /\ x.scenario = s
                  /\ x \in runs => Authoritative(o, s)
    <3> DEFINE x == ops[o].results[s]
    <3>1. x # Missing /\ Recorded(x, o, ops[o].attempt, s)
      BY <2>1, <2>2 DEF ResultsInv
    <3> HIDE DEF x
    <3>2. ASSUME x \in runs
          PROVE  Authoritative(o, s)
      <4> DEFINE matching == {e \in members : e.op = o /\ e.scenario = s /\ e.run = x}
      <4>1. /\ x \in Run
            /\ x.op = o /\ x.attempt = ops[o].attempt /\ x.scenario = s
        BY <2>1, <3>1, <3>2 DEF TypeOK, Recorded
      <4>2. /\ EdgeOf(x).op = o /\ EdgeOf(x).scenario = s
            /\ EdgeOf(x).run = x /\ EdgeOf(x).attempt = ops[o].attempt
        BY <4>1 DEF EdgeOf
      <4>3. \A e \in members : e.run = x => e = EdgeOf(x)
        BY <2>1 DEF RunsInv, EdgeOf
      <4>4. matching = {EdgeOf(x)}
        <5>1. EdgeOf(x) \in members
          BY <2>1, <3>2 DEF RunsInv
        <5> QED
          BY <4>2, <4>3, <5>1
      <4>5. Cardinality(matching) = 1
        BY <4>4, FS_Singleton
      <4>6. x \notin {Missing, Failed}
        BY <4>1, OutcomeAssumption
      <4>7. \A e \in matching : e.attempt = ops[o].attempt
        BY <4>2, <4>4
      <4> QED
        BY <2>2, <3>2, <4>5, <4>6, <4>7 DEF Authoritative, x
    <3> QED
      BY <3>1, <3>2 DEF Recorded, x
  <2> QED
    BY <2>2 DEF PublishedEvidence
<1> QED
  BY <1>1, AsyncInvariant, PTL
=============================================================================
