------------------------ MODULE RunSubmissionProofs ------------------------
(***************************************************************************)
(* Proofs about RunSubmission, for any tenants, keys, requests, callers,   *)
(* lease, clock skew and retention setting.                                *)
(*                                                                         *)
(* The inductive invariant SubmissionInv ties every caller in flight, and  *)
(* every answer ever given, to the row of its claim.  Its heart is that a  *)
(* row once COMPLETED never changes, so that whatever a caller read from   *)
(* it before a poll, a purge or a pause is still true when it is used.     *)
(***************************************************************************)
EXTENDS RunSubmission, TLAPS

\* What a caller remembers of its claim: owners know their request is the one
\* the row is bound to and hold a generation the row has reached; a caller
\* about to load holds the run of the completed row.
CallerKnows(k) ==
  /\ k # Idle => Row(k.req) # NoRow /\ Row(k.req).hash = k.req.hash
  /\ k.pc = "load" => Row(k.req).status = "COMPLETED" /\ Row(k.req).run = k.run

CallerInv == \A c \in Callers : CallerKnows(callers[c])

\* A completed row names a run of its own tenant, key and hash.
RowInv ==
  \A p \in Ids :
    claims[p] # NoRow /\ claims[p].status = "COMPLETED" =>
      /\ claims[p].run \in Run
      /\ claims[p].run.hash = claims[p].hash

\* Every answer is the run of the completed row of its request.
ReplyInv ==
  \A a \in replies :
    /\ Row(a[1]) # NoRow
    /\ Row(a[1]).status = "COMPLETED"
    /\ Row(a[1]).run = a[2]
    /\ Row(a[1]).hash = a[1].hash

SubmissionInv == TypeOK /\ CallerInv /\ RowInv /\ ReplyInv /\ PublishedWhole

-----------------------------------------------------------------------------
\* The shapes of a caller, by where it is.
LEMMA CallerShape ==
  ASSUME NEW k \in Caller
  PROVE  /\ k.pc \in {"idle", "owner", "abandon", "wait", "load"}
         /\ k.pc = "idle" <=> k = Idle
         /\ k # Idle => k.req \in Requests
         /\ k.pc \in {"owner", "abandon"} =>
              /\ k.generation \in 1..MaxGeneration
              /\ k \in [pc: {"owner", "abandon"}, req: Requests,
                        generation: 1..MaxGeneration]
         /\ k.pc = "load" => k.run \in Run
BY DEF Caller, Idle

\* Requests name rows of the claim table.
LEMMA RequestShape ==
  ASSUME NEW r \in Requests
  PROVE  /\ r.tenant \in Tenants
         /\ r.key \in Keys
         /\ r.hash \in Hashes
         /\ r.corr \in Correlations
         /\ Id(r) \in Ids
BY DEF Requests, Ids, Id

LEMMA RowShape ==
  ASSUME TypeOK, NEW p \in Ids, claims[p] # NoRow
  PROVE  /\ claims[p] \in ClaimRow
         /\ claims[p].hash \in Hashes
         /\ claims[p].status \in {"IN_PROGRESS", "COMPLETED"}
         /\ claims[p].generation \in 1..MaxGeneration
         /\ claims[p].lease \in LeaseFloor..(LeaseDuration + MaxAhead)
         /\ claims[p].run \in Run \cup {NoRun}
<1>1. claims[p] \in ClaimRow
  BY DEF TypeOK
<1> QED
  BY <1>1 DEF ClaimRow

-----------------------------------------------------------------------------
\* Rows are never deleted, never rebound to another hash, and a completed row
\* never changes.
RowsKept ==
  \A p \in Ids : claims[p] # NoRow =>
    /\ claims'[p] # NoRow
    /\ claims'[p].hash = claims[p].hash
    /\ claims[p].status = "COMPLETED" => claims'[p] = claims[p]

\* A winning claim writes a fresh row for its request.
LEMMA WinEffect ==
  ASSUME TypeOK, NEW c \in Callers, NEW r \in Requests, NEW lag \in Lags,
         NEW g \in 1..MaxGeneration, Win(c, r, lag, g),
         Row(r) # NoRow => Row(r).hash = r.hash /\ Row(r).status = "IN_PROGRESS"
  PROVE  /\ claims' \in [Ids -> ClaimRow \cup {NoRow}]
         /\ callers' \in [Callers -> Caller]
         /\ RowsKept
         /\ claims'[Id(r)] # NoRow /\ claims'[Id(r)].hash = r.hash
         /\ claims'[Id(r)].status = "IN_PROGRESS"
         /\ \A p \in Ids : p # Id(r) => claims'[p] = claims[p]
<1> DEFINE row == [hash |-> r.hash, status |-> "IN_PROGRESS", generation |-> g,
                   lease |-> LeaseDuration - lag, run |-> NoRun]
<1>1. Id(r) \in Ids /\ r.hash \in Hashes
  BY RequestShape
<1>2. LeaseDuration - lag \in LeaseFloor..(LeaseDuration + MaxAhead)
  BY SubmissionConstants DEF Lags, LeaseFloor
<1>3. row \in ClaimRow /\ row # NoRow
  BY <1>1, <1>2, NoRowAssumption DEF ClaimRow
<1>4. claims' = [claims EXCEPT ![Id(r)] = row]
  BY DEF Win
<1>5. claims \in [Ids -> ClaimRow \cup {NoRow}]
  BY DEF TypeOK
<1>6. claims'[Id(r)] = row /\ \A p \in Ids : p # Id(r) => claims'[p] = claims[p]
  BY <1>1, <1>4, <1>5
<1>7. claims' \in [Ids -> ClaimRow \cup {NoRow}]
  BY <1>3, <1>4, <1>5
<1>8. callers' \in [Callers -> Caller]
  BY DEF Win, TypeOK, Caller
<1>9. RowsKept
  BY <1>3, <1>6 DEF RowsKept, Row
<1> QED
  BY <1>3, <1>6, <1>7, <1>8, <1>9 DEF Row

\* The completing transaction ends an open row with the run of its owner.
LEMMA CompleteEffect ==
  ASSUME SubmissionInv, NEW c \in Callers, Complete(c), NEW k, k = callers[c]
  PROVE  /\ k.req \in Requests /\ RunOf(k) \in Run
         /\ claims' \in [Ids -> ClaimRow \cup {NoRow}]
         /\ RowsKept
         /\ claims[Id(k.req)] # NoRow
         /\ claims[Id(k.req)].status = "IN_PROGRESS"
         /\ claims'[Id(k.req)] # NoRow
         /\ claims'[Id(k.req)].status = "COMPLETED"
         /\ claims'[Id(k.req)].run = RunOf(k)
         /\ claims'[Id(k.req)].hash = k.req.hash
         /\ \A p \in Ids : p # Id(k.req) => claims'[p] = claims[p]
<1> DEFINE row == [claims[Id(k.req)] EXCEPT !.status = "COMPLETED", !.lease = 0,
                                            !.run = RunOf(k)]
<1>1. /\ k \in Caller /\ k.pc = "owner" /\ k # Idle
      /\ k.req \in Requests /\ k.generation \in 1..MaxGeneration
  BY CallerShape DEF SubmissionInv, TypeOK, Complete, Idle
<1>2. Id(k.req) \in Ids
  BY <1>1, RequestShape
<1>3. RunOf(k) \in Run
  BY <1>1, RequestShape DEF RunOf, Run
<1>4. claims[Id(k.req)] # NoRow /\ claims[Id(k.req)].hash = k.req.hash
  BY <1>1 DEF SubmissionInv, CallerInv, CallerKnows, Row
<1>5. claims[Id(k.req)].status = "IN_PROGRESS"
  BY DEF Complete, FenceHolds, Row
<1>6. claims[Id(k.req)] \in ClaimRow
  BY <1>2, <1>4, RowShape DEF SubmissionInv
<1>7. 0 \in LeaseFloor..(LeaseDuration + MaxAhead)
  BY SubmissionConstants DEF LeaseFloor
<1>8. row \in ClaimRow
  BY <1>3, <1>6, <1>7 DEF ClaimRow
<1>9. /\ row # NoRow /\ row.hash = k.req.hash
      /\ row.status = "COMPLETED" /\ row.run = RunOf(k)
  BY <1>4, <1>6, <1>8, NoRowAssumption DEF ClaimRow
<1>10. claims' = [claims EXCEPT ![Id(k.req)] = row]
  BY DEF Complete
<1>11. claims \in [Ids -> ClaimRow \cup {NoRow}]
  BY DEF SubmissionInv, TypeOK
<1>12. /\ claims'[Id(k.req)] = row
       /\ \A p \in Ids : p # Id(k.req) => claims'[p] = claims[p]
  BY <1>2, <1>10, <1>11
<1>13. claims' \in [Ids -> ClaimRow \cup {NoRow}]
  BY <1>8, <1>10, <1>11
<1>14. RowsKept
  BY <1>4, <1>5, <1>9, <1>12 DEF RowsKept
<1> QED
  BY <1>1, <1>3, <1>4, <1>5, <1>9, <1>12, <1>13, <1>14
\* Releasing a claim only moves the end of an open lease.
LEMMA AbandonEffect ==
  ASSUME SubmissionInv, NEW c \in Callers, NEW lag \in Lags, Abandon(c, lag)
  PROVE  /\ claims' \in [Ids -> ClaimRow \cup {NoRow}]
         /\ RowsKept
         /\ \A p \in Ids : claims'[p] # NoRow => claims'[p].status = claims[p].status
<1> DEFINE k == callers[c]
<1>0. claims \in [Ids -> ClaimRow \cup {NoRow}]
  BY DEF SubmissionInv, TypeOK
<1>1. CASE ~Abandons(k)
  BY <1>0, <1>1 DEF Abandon, RowsKept
<1>2. CASE Abandons(k)
  <2> DEFINE row == [claims[Id(k.req)] EXCEPT !.lease = -lag]
  <2>1. /\ k \in Caller /\ k # Idle /\ k.req \in Requests
    BY CallerShape DEF SubmissionInv, TypeOK, Abandon, Idle
  <2>2. Id(k.req) \in Ids
    BY <2>1, RequestShape
  <2>3. claims[Id(k.req)] # NoRow /\ claims[Id(k.req)] \in ClaimRow
    BY <2>1, <2>2, RowShape DEF SubmissionInv, CallerInv, CallerKnows, Row
  <2>4. claims[Id(k.req)].status = "IN_PROGRESS"
    BY <1>2 DEF Abandons, Row
  <2>5. -lag \in LeaseFloor..(LeaseDuration + MaxAhead)
    BY SubmissionConstants DEF Lags, LeaseFloor
  <2>6. row \in ClaimRow /\ row # NoRow
    BY <2>3, <2>5, NoRowAssumption DEF ClaimRow
  <2>7. row.hash = claims[Id(k.req)].hash /\ row.status = claims[Id(k.req)].status
    BY <2>3 DEF ClaimRow
  <2>8. claims' = [claims EXCEPT ![Id(k.req)] = row]
    BY <1>2 DEF Abandon
  <2>9. /\ claims'[Id(k.req)] = row
        /\ \A p \in Ids : p # Id(k.req) => claims'[p] = claims[p]
    BY <1>0, <2>2, <2>8
  <2>10. claims' \in [Ids -> ClaimRow \cup {NoRow}]
    BY <1>0, <2>6, <2>8
  <2> QED
    BY <2>4, <2>6, <2>7, <2>9, <2>10 DEF RowsKept
<1> QED
  BY <1>1, <1>2

\* Time only shortens open leases.
LEMMA TickEffect ==
  ASSUME SubmissionInv, Tick
  PROVE  /\ claims' \in [Ids -> ClaimRow \cup {NoRow}]
         /\ RowsKept
         /\ \A p \in Ids : claims'[p] # NoRow => claims'[p].status = claims[p].status
         /\ \A p \in Ids : claims[p] # NoRow => claims'[p].lease >= claims[p].lease - 1
<1>0. claims \in [Ids -> ClaimRow \cup {NoRow}]
  BY DEF SubmissionInv, TypeOK
<1>1. ASSUME NEW p \in Ids
      PROVE  /\ claims'[p] \in ClaimRow \cup {NoRow}
             /\ claims[p] # NoRow =>
                  /\ claims'[p] # NoRow
                  /\ claims'[p].hash = claims[p].hash
                  /\ claims'[p].status = claims[p].status
                  /\ claims[p].status = "COMPLETED" => claims'[p] = claims[p]
                  /\ claims'[p].lease >= claims[p].lease - 1
             /\ claims[p] = NoRow => claims'[p] = NoRow
  <2>1. CASE claims[p] = NoRow
    BY <2>1 DEF Tick
  <2>2. CASE claims[p] # NoRow /\ claims[p].status = "IN_PROGRESS" /\ claims[p].lease > LeaseFloor
    <3> DEFINE row == [claims[p] EXCEPT !.lease = claims[p].lease - 1]
    <3>1. claims'[p] = row
      BY <2>2 DEF Tick
    <3>2. /\ claims[p] \in ClaimRow
          /\ claims[p].lease \in LeaseFloor..(LeaseDuration + MaxAhead)
      BY <2>2, RowShape DEF SubmissionInv
    <3>3. LeaseFloor \in Int /\ LeaseDuration + MaxAhead \in Int
      BY SubmissionConstants DEF LeaseFloor
    <3>4. claims[p].lease - 1 \in LeaseFloor..(LeaseDuration + MaxAhead)
      BY <2>2, <3>2, <3>3
    <3>5. row \in ClaimRow /\ row.hash = claims[p].hash /\ row.status = claims[p].status
      BY <3>2, <3>4 DEF ClaimRow
    <3>6. row.lease = claims[p].lease - 1
      BY <3>2 DEF ClaimRow
    <3>7. row.lease >= claims[p].lease - 1
      BY <3>2, <3>3, <3>6
    <3> QED
      BY <2>2, <3>1, <3>5, <3>7, NoRowAssumption
  <2>3. CASE claims[p] # NoRow /\ ~(claims[p].status = "IN_PROGRESS" /\ claims[p].lease > LeaseFloor)
    <3>1. claims'[p] = claims[p]
      BY <2>3 DEF Tick
    <3>2. claims[p].lease \in LeaseFloor..(LeaseDuration + MaxAhead)
      BY <2>3, RowShape DEF SubmissionInv
    <3>3. claims[p].lease >= claims[p].lease - 1
      BY <3>2, SubmissionConstants DEF LeaseFloor
    <3> QED
      BY <1>0, <2>3, <3>1, <3>3
  <2> QED
    BY <2>1, <2>2, <2>3
<1>2. claims' = [p \in Ids |-> claims'[p]]
  BY DEF Tick
<1>3. claims' \in [Ids -> ClaimRow \cup {NoRow}]
  BY <1>1, <1>2
<1> QED
  BY <1>1, <1>3 DEF RowsKept
-----------------------------------------------------------------------------
\* What was known of a row is still known after a step that keeps the rows.
LEMMA KnowledgeKept ==
  ASSUME SubmissionInv, RowsKept
  PROVE  /\ \A k \in Caller : CallerKnows(k) => CallerKnows(k)'
         /\ \A a \in replies : /\ Row(a[1])' # NoRow
                               /\ Row(a[1])'.status = "COMPLETED"
                               /\ Row(a[1])'.run = a[2]
                               /\ Row(a[1])'.hash = a[1].hash
         /\ \A x \in runs : /\ Row(x)' # NoRow
                            /\ Row(x)'.status = "COMPLETED"
                            /\ Row(x)'.run = x
<1>1. ASSUME NEW k \in Caller, CallerKnows(k)
      PROVE  CallerKnows(k)'
  <2>1. CASE k = Idle
    BY <2>1 DEF CallerKnows, Idle
  <2>2. CASE k # Idle
    <3>1. k.req \in Requests /\ Id(k.req) \in Ids
      BY <2>2, CallerShape, RequestShape
    <3> QED
      BY <1>1, <2>2, <3>1 DEF CallerKnows, Row, RowsKept
  <2> QED
    BY <2>1, <2>2
<1>2. ASSUME NEW a \in replies
      PROVE  /\ Row(a[1])' # NoRow
             /\ Row(a[1])'.status = "COMPLETED"
             /\ Row(a[1])'.run = a[2]
             /\ Row(a[1])'.hash = a[1].hash
  <2>1. a[1] \in Requests /\ Id(a[1]) \in Ids
    BY RequestShape DEF SubmissionInv, TypeOK
  <2> QED
    BY <2>1 DEF SubmissionInv, ReplyInv, Row, RowsKept
<1>3. ASSUME NEW x \in runs
      PROVE  /\ Row(x)' # NoRow
             /\ Row(x)'.status = "COMPLETED"
             /\ Row(x)'.run = x
  <2>1. Id(x) \in Ids
    BY DEF SubmissionInv, TypeOK, Run, Id, Ids
  <2> QED
    BY <2>1 DEF SubmissionInv, PublishedWhole, Row, RowsKept
<1> QED
  BY <1>1, <1>2, <1>3

\* A step that completes no row and stores nothing keeps the invariant when
\* each caller stays where it is or knows the row it moves to.
LEMMA RowsMove ==
  ASSUME SubmissionInv, RowsKept, UNCHANGED <<store, replies>>,
         claims' \in [Ids -> ClaimRow \cup {NoRow}],
         callers' \in [Callers -> Caller],
         \A p \in Ids : claims'[p] # NoRow /\ claims'[p].status = "COMPLETED" =>
                          claims[p] # NoRow /\ claims[p].status = "COMPLETED",
         \A c \in Callers : \/ callers'[c] = callers[c]
                             \/ CallerKnows(callers[c])'
  PROVE  SubmissionInv'
<1>1. TypeOK'
  BY DEF SubmissionInv, TypeOK, store
<1>2. CallerInv'
  <2> SUFFICES ASSUME NEW c \in Callers PROVE CallerKnows(callers[c])'
    BY DEF CallerInv
  <2>1. CASE callers'[c] = callers[c]
    <3>1. PICK k \in Caller : k = callers[c]
      BY DEF SubmissionInv, TypeOK
    <3>2. CallerKnows(k)'
      BY <3>1, KnowledgeKept DEF SubmissionInv, CallerInv
    <3> QED
      BY <2>1, <3>1, <3>2 DEF CallerKnows, Row
  <2> QED
    BY <2>1
<1>3. RowInv'
  BY DEF SubmissionInv, RowInv, RowsKept
<1>4. ReplyInv'
  BY KnowledgeKept DEF ReplyInv, store, Row
<1>5. PublishedWhole'
  <2>1. runs' = runs /\ mapped' = mapped /\ history' = history /\ artifacts' = artifacts
    BY DEF store
  <2>2. \A x \in runs' : Row(x)' # NoRow /\ Row(x)'.status = "COMPLETED" /\ Row(x)'.run = x
    BY <2>1, KnowledgeKept
  <2> QED
    BY <2>1, <2>2 DEF SubmissionInv, PublishedWhole, Row
<1> QED
  BY <1>1, <1>2, <1>3, <1>4, <1>5 DEF SubmissionInv

\* One caller moves and nothing else does.
LEMMA CallerMoves ==
  ASSUME SubmissionInv, NEW c \in Callers, NEW k \in Caller, CallerKnows(k),
         callers' = [callers EXCEPT ![c] = k],
         UNCHANGED <<claims, store, replies>>
  PROVE  SubmissionInv'
<1>1. RowsKept
  BY DEF RowsKept
<1>2. claims' \in [Ids -> ClaimRow \cup {NoRow}]
  BY DEF SubmissionInv, TypeOK
<1>3. callers' \in [Callers -> Caller]
  BY DEF SubmissionInv, TypeOK
<1>4. ASSUME NEW d \in Callers
      PROVE  callers'[d] = callers[d] \/ CallerKnows(callers[d])'
  <2>1. CASE d = c
    <3>1. callers'[d] = k
      BY <2>1 DEF SubmissionInv, TypeOK
    <3> QED
      BY <3>1 DEF CallerKnows, Row
  <2>2. CASE d # c
    BY <2>2 DEF SubmissionInv, TypeOK
  <2> QED
    BY <2>1, <2>2
<1> QED
  BY <1>1, <1>2, <1>3, <1>4, RowsMove
-----------------------------------------------------------------------------
\* Claims that win.
LEMMA ClaimKeeps ==
  ASSUME SubmissionInv, NEW c \in Callers, NEW r \in Requests, NEW lag \in Lags,
         ClaimNew(c, r, lag) \/ ClaimTakeover(c, r, lag)
  PROVE  SubmissionInv'
<1>1. PICK g \in 1..MaxGeneration :
        /\ Win(c, r, lag, g)
        /\ Row(r) # NoRow => Row(r).hash = r.hash /\ Row(r).status = "IN_PROGRESS"
  <2>1. CASE ClaimNew(c, r, lag)
    BY <2>1, SubmissionConstants DEF ClaimNew
  <2>2. CASE ClaimTakeover(c, r, lag)
    <3>1. Id(r) \in Ids /\ Row(r) # NoRow
      BY <2>2, RequestShape DEF ClaimTakeover
    <3>2. Row(r).generation \in 1..MaxGeneration
      BY <3>1, RowShape DEF SubmissionInv, Row
    <3>3. Row(r).generation + 1 \in 1..MaxGeneration
      BY <2>2, <3>2, SubmissionConstants DEF ClaimTakeover
    <3> QED
      BY <2>2, <3>3 DEF ClaimTakeover, CanTakeOver
  <2> QED
    BY <2>1, <2>2
<1>2. /\ claims' \in [Ids -> ClaimRow \cup {NoRow}]
      /\ callers' \in [Callers -> Caller]
      /\ RowsKept
      /\ claims'[Id(r)] # NoRow /\ claims'[Id(r)].hash = r.hash
      /\ claims'[Id(r)].status = "IN_PROGRESS"
      /\ \A p \in Ids : p # Id(r) => claims'[p] = claims[p]
  BY <1>1, WinEffect DEF SubmissionInv
<1>3. ASSUME NEW d \in Callers
      PROVE  callers'[d] = callers[d] \/ CallerKnows(callers[d])'
  <2>1. CASE d = c
    <3>1. callers'[d] = [pc |-> "owner", req |-> r, generation |-> g]
      BY <1>1, <2>1 DEF Win, SubmissionInv, TypeOK
    <3>2. callers'[d].pc = "owner" /\ callers'[d].req = r
      BY <3>1
    <3> QED
      BY <1>2, <3>2 DEF CallerKnows, Row
  <2>2. CASE d # c
    BY <1>1, <2>2 DEF Win, SubmissionInv, TypeOK
  <2> QED
    BY <2>1, <2>2
<1>4. UNCHANGED <<store, replies>>
  BY DEF ClaimNew, ClaimTakeover
<1>5. \A p \in Ids : claims'[p] # NoRow /\ claims'[p].status = "COMPLETED" =>
                     claims[p] # NoRow /\ claims[p].status = "COMPLETED"
  BY <1>2
<1> QED
  BY <1>2, <1>3, <1>4, <1>5, RowsMove

\* The completing transaction.
LEMMA CompleteKeeps ==
  ASSUME SubmissionInv, NEW c \in Callers, Complete(c)
  PROVE  SubmissionInv'
<1>1. PICK k : k = callers[c]
  OBVIOUS
<1> DEFINE x == RunOf(k)
<1>2. /\ k.req \in Requests /\ x \in Run
      /\ claims' \in [Ids -> ClaimRow \cup {NoRow}]
      /\ RowsKept
      /\ claims'[Id(k.req)] # NoRow
      /\ claims'[Id(k.req)].status = "COMPLETED"
      /\ claims'[Id(k.req)].run = x
      /\ claims'[Id(k.req)].hash = k.req.hash
      /\ \A p \in Ids : p # Id(k.req) => claims'[p] = claims[p]
  BY <1>1, CompleteEffect
<1>3. /\ runs' = runs \cup {x} /\ mapped' = mapped \cup {x}
      /\ history' = history \cup {x}
      /\ artifacts' = IF Persisted THEN artifacts \cup {x} ELSE artifacts
      /\ edges' = edges \cup LineageOf(x)
      /\ replies' = replies \cup {<<k.req, x>>}
      /\ callers' = [callers EXCEPT ![c] = Idle]
  BY <1>1 DEF Complete, StoreRun
<1>4. Id(x) = Id(k.req) /\ x.hash = k.req.hash
  BY DEF RunOf, Id
<1>5. TypeOK'
  <2>1. LineageOf(x) \subseteq Edge
    BY <1>2 DEF LineageOf, Edge, Run
  <2>2. callers' \in [Callers -> Caller]
    BY <1>3 DEF SubmissionInv, TypeOK, Caller
  <2>3. artifacts' \subseteq Run
    BY <1>2, <1>3 DEF SubmissionInv, TypeOK
  <2>4. <<k.req, x>> \in Requests \X Run
    BY <1>2
  <2> QED
    BY <1>2, <1>3, <2>1, <2>2, <2>3, <2>4 DEF SubmissionInv, TypeOK
<1>6. CallerInv'
  <2> SUFFICES ASSUME NEW d \in Callers PROVE CallerKnows(callers[d])'
    BY DEF CallerInv
  <2>1. CASE d = c
    <3>1. callers'[d] = Idle
      BY <1>3, <2>1 DEF SubmissionInv, TypeOK
    <3> QED
      BY <3>1 DEF CallerKnows, Idle
  <2>2. CASE d # c
    <3>1. PICK m \in Caller : m = callers[d]
      BY DEF SubmissionInv, TypeOK
    <3>2. CallerKnows(m)'
      BY <1>2, <3>1, KnowledgeKept DEF SubmissionInv, CallerInv
    <3>3. callers'[d] = m
      BY <1>3, <2>2, <3>1 DEF SubmissionInv, TypeOK
    <3> QED
      BY <3>2, <3>3 DEF CallerKnows, Row
  <2> QED
    BY <2>1, <2>2
<1>7. RowInv'
  <2> SUFFICES ASSUME NEW p \in Ids, claims'[p] # NoRow, claims'[p].status = "COMPLETED"
               PROVE  claims'[p].run \in Run /\ claims'[p].run.hash = claims'[p].hash
    BY DEF RowInv
  <2>1. CASE p = Id(k.req)
    BY <1>2, <1>4, <2>1
  <2>2. CASE p # Id(k.req)
    BY <1>2, <2>2 DEF SubmissionInv, RowInv
  <2> QED
    BY <2>1, <2>2
<1>8. ReplyInv'
  <2> SUFFICES ASSUME NEW a \in replies'
               PROVE  /\ Row(a[1])' # NoRow /\ Row(a[1])'.status = "COMPLETED"
                      /\ Row(a[1])'.run = a[2] /\ Row(a[1])'.hash = a[1].hash
    BY DEF ReplyInv
  <2>1. CASE a \in replies
    BY <1>2, <2>1, KnowledgeKept
  <2>2. CASE a = <<k.req, x>>
    BY <1>2, <2>2 DEF Row
  <2> QED
    BY <1>3, <2>1, <2>2
<1>9. PublishedWhole'
  <2>1. ASSUME NEW y \in runs'
        PROVE  Row(y)' # NoRow /\ Row(y)'.status = "COMPLETED" /\ Row(y)'.run = y
    <3>1. CASE y \in runs
      BY <1>2, <3>1, KnowledgeKept
    <3>2. CASE y = x
      BY <1>2, <1>4, <3>2 DEF Row
    <3> QED
      BY <1>3, <3>1, <3>2
  <2>2. artifacts' = IF Persisted THEN runs' ELSE {}
    BY <1>3 DEF SubmissionInv, PublishedWhole
  <2> QED
    BY <1>3, <2>1, <2>2 DEF SubmissionInv, PublishedWhole
<1> QED
  BY <1>5, <1>6, <1>7, <1>8, <1>9 DEF SubmissionInv
\* A purge, with or without an answer to a caller that loads its run.
LEMMA PurgeKeeps ==
  ASSUME SubmissionInv, NEW S \in Expirable, Purge(S), UNCHANGED claims,
         \/ UNCHANGED <<callers, replies>>
         \/ \E c \in Callers :
              /\ callers[c].pc = "load"
              /\ callers' = [callers EXCEPT ![c] = Idle]
              /\ \/ replies' = replies
                 \/ replies' = replies \cup {<<callers[c].req, callers[c].run>>}
  PROVE  SubmissionInv'
<1>1. RowsKept
  BY DEF RowsKept
<1>2. \A c \in Callers : callers'[c] = callers[c] \/ callers'[c] = Idle
  BY DEF SubmissionInv, TypeOK
<1>3. callers' \in [Callers -> Caller]
  BY DEF SubmissionInv, TypeOK, Caller
<1>4. \A a \in replies' :
        \/ a \in replies
        \/ \E c \in Callers : callers[c].pc = "load" /\ a = <<callers[c].req, callers[c].run>>
  OBVIOUS
<1>5. ASSUME NEW c \in Callers, callers[c].pc = "load"
      PROVE  /\ <<callers[c].req, callers[c].run>> \in Requests \X Run
             /\ Row(callers[c].req) # NoRow /\ Row(callers[c].req).status = "COMPLETED"
             /\ Row(callers[c].req).run = callers[c].run
             /\ Row(callers[c].req).hash = callers[c].req.hash
  <2>1. callers[c] \in Caller /\ callers[c] # Idle
    BY <1>5 DEF SubmissionInv, TypeOK, Idle
  <2>2. callers[c].req \in Requests /\ callers[c].run \in Run
    BY <1>5, <2>1, CallerShape
  <2> QED
    BY <1>5, <2>1, <2>2 DEF SubmissionInv, CallerInv, CallerKnows
<1>6. TypeOK'
  <2>1. replies' \subseteq Requests \X Run
    BY <1>4, <1>5 DEF SubmissionInv, TypeOK
  <2>2. runs' \subseteq Run /\ mapped' \subseteq Run /\ history' \subseteq Run /\ artifacts' \subseteq Run
    BY DEF SubmissionInv, TypeOK, Purge
  <2>3. edges' \subseteq Edge
    BY DEF SubmissionInv, TypeOK, Purge
  <2> QED
    BY <1>3, <2>1, <2>2, <2>3 DEF SubmissionInv, TypeOK
<1>7. CallerInv'
  <2> SUFFICES ASSUME NEW d \in Callers PROVE CallerKnows(callers[d])'
    BY DEF CallerInv
  <2>1. CASE callers'[d] = Idle
    BY <2>1 DEF CallerKnows, Idle
  <2>2. CASE callers'[d] = callers[d]
    BY <2>2 DEF SubmissionInv, CallerInv, CallerKnows, Row
  <2> QED
    BY <1>2, <2>1, <2>2
<1>8. RowInv'
  BY DEF SubmissionInv, RowInv
<1>9. ReplyInv'
  <2> SUFFICES ASSUME NEW a \in replies'
               PROVE  /\ Row(a[1]) # NoRow /\ Row(a[1]).status = "COMPLETED"
                      /\ Row(a[1]).run = a[2] /\ Row(a[1]).hash = a[1].hash
    BY DEF ReplyInv, Row
  <2>1. CASE a \in replies
    BY <2>1 DEF SubmissionInv, ReplyInv
  <2>2. ASSUME NEW c \in Callers, callers[c].pc = "load", a = <<callers[c].req, callers[c].run>>
        PROVE  /\ Row(a[1]) # NoRow /\ Row(a[1]).status = "COMPLETED"
               /\ Row(a[1]).run = a[2] /\ Row(a[1]).hash = a[1].hash
    BY <1>5, <2>2
  <2> QED
    BY <1>4, <2>1, <2>2
<1>10. PublishedWhole'
  <2>1. \A x \in runs' : Row(x)' # NoRow /\ Row(x)'.status = "COMPLETED" /\ Row(x)'.run = x
    BY DEF SubmissionInv, PublishedWhole, Purge, Row
  <2>2. mapped' = runs' /\ history' = runs' /\ artifacts' = IF Persisted THEN runs' ELSE {}
    BY SubmissionConstants DEF SubmissionInv, PublishedWhole, Purge
  <2> QED
    BY <2>1, <2>2 DEF PublishedWhole
<1> QED
  BY <1>6, <1>7, <1>8, <1>9, <1>10 DEF SubmissionInv

\* The steps in which a caller only changes its mind.
LEMMA CallerOnlyKeeps ==
  ASSUME SubmissionInv, NEW c \in Callers,
         \/ \E r \in Requests, lag \in Lags : ClaimFound(c, r, lag)
         \/ CompleteLost(c) \/ CompleteRefused(c) \/ CalculationFails(c)
         \/ PollCompleted(c) \/ PollGivesUp(c) \/ CallerCrash(c)
  PROVE  SubmissionInv'
<1>0. callers[c] \in Caller /\ CallerKnows(callers[c])
  BY DEF SubmissionInv, TypeOK, CallerInv
<1>1. Idle \in Caller /\ CallerKnows(Idle)
  BY DEF Caller, CallerKnows, Idle
<1>2. ASSUME NEW r \in Requests, NEW lag \in Lags, ClaimFound(c, r, lag)
      PROVE  SubmissionInv'
  <2> DEFINE k == IF Row(r).status = "COMPLETED"
                    THEN [pc |-> "load", req |-> r, run |-> Row(r).run]
                    ELSE [pc |-> "wait", req |-> r]
  <2>1. Row(r) # NoRow /\ Row(r).hash = r.hash
    BY <1>2 DEF ClaimFound, SameRequest
  <2>2. Row(r).status = "COMPLETED" => Row(r).run \in Run
    BY <2>1, RequestShape DEF SubmissionInv, RowInv, Row
  <2>3. k \in Caller
    BY <2>2 DEF Caller
  <2>4. CallerKnows(k)
    BY <2>1 DEF CallerKnows
  <2>5. callers' = [callers EXCEPT ![c] = k] /\ UNCHANGED <<claims, store, replies>>
    BY <1>2 DEF ClaimFound
  <2> QED
    BY <2>3, <2>4, <2>5, CallerMoves
<1>3. CASE CompleteLost(c)
  <2> DEFINE k == [pc |-> "wait", req |-> callers[c].req]
  <2>1. callers[c] # Idle
    BY <1>3 DEF CompleteLost, Idle
  <2>2. k \in Caller
    BY <1>0, <2>1, CallerShape DEF Caller
  <2>3. CallerKnows(k)
    BY <1>0, <2>1 DEF CallerKnows
  <2> QED
    BY <1>3, <2>2, <2>3, CallerMoves DEF CompleteLost
<1>4. CASE CompleteRefused(c) \/ CalculationFails(c)
  <2> DEFINE k == [callers[c] EXCEPT !.pc = "abandon"]
  <2>1. callers[c].pc = "owner" /\ callers[c] # Idle
    BY <1>4 DEF CompleteRefused, CalculationFails, Idle
  <2>2. callers[c] \in [pc: {"owner", "abandon"}, req: Requests, generation: 1..MaxGeneration]
    BY <1>0, <2>1, CallerShape
  <2>3. k \in [pc: {"owner", "abandon"}, req: Requests, generation: 1..MaxGeneration]
    BY <2>2
  <2>4. k \in Caller /\ k.pc = "abandon" /\ k.req = callers[c].req
    BY <2>2, <2>3 DEF Caller
  <2>5. CallerKnows(k)
    BY <1>0, <2>1, <2>4 DEF CallerKnows
  <2>6. callers' = [callers EXCEPT ![c] = k] /\ UNCHANGED <<claims, store, replies>>
    BY <1>4 DEF CompleteRefused, CalculationFails
  <2> QED
    BY <2>4, <2>5, <2>6, CallerMoves
<1>5. CASE PollCompleted(c)
  <2> DEFINE k == [pc |-> "load", req |-> callers[c].req, run |-> Row(callers[c].req).run]
  <2>1. callers[c] # Idle /\ Row(callers[c].req).status = "COMPLETED"
    BY <1>5 DEF PollCompleted, Idle
  <2>2. callers[c].req \in Requests /\ Row(callers[c].req) # NoRow
    BY <1>0, <2>1, CallerShape DEF CallerKnows
  <2>3. Row(callers[c].req).run \in Run
    BY <2>1, <2>2, RequestShape DEF SubmissionInv, RowInv, Row
  <2>4. k \in Caller
    BY <2>2, <2>3 DEF Caller
  <2>5. CallerKnows(k)
    BY <1>0, <2>1 DEF CallerKnows
  <2> QED
    BY <1>5, <2>4, <2>5, CallerMoves DEF PollCompleted
<1>6. CASE PollGivesUp(c) \/ CallerCrash(c)
  BY <1>1, <1>6, CallerMoves DEF PollGivesUp, CallerCrash
<1> QED
  BY <1>2, <1>3, <1>4, <1>5, <1>6
\* Releasing a claim.
LEMMA AbandonKeeps ==
  ASSUME SubmissionInv, NEW c \in Callers, NEW lag \in Lags, Abandon(c, lag)
  PROVE  SubmissionInv'
<1>1. /\ callers' = [callers EXCEPT ![c] = Idle]
      /\ UNCHANGED <<store, replies>>
  BY DEF Abandon
<1>2. callers' \in [Callers -> Caller]
  BY <1>1 DEF SubmissionInv, TypeOK, Caller
<1>3. ASSUME NEW d \in Callers
      PROVE  callers'[d] = callers[d] \/ CallerKnows(callers[d])'
  <2>1. callers'[d] = callers[d] \/ callers'[d] = Idle
    BY <1>1 DEF SubmissionInv, TypeOK
  <2> QED
    BY <2>1 DEF CallerKnows, Idle
<1>4. ASSUME NEW p \in Ids, claims'[p] # NoRow, claims'[p].status = "COMPLETED"
      PROVE  claims[p] # NoRow /\ claims[p].status = "COMPLETED"
  <2>1. claims[p].status = "COMPLETED"
    BY <1>4, AbandonEffect
  <2>2. claims[p] # NoRow
    BY <1>4 DEF Abandon, SubmissionInv, TypeOK, CallerInv, CallerKnows, Abandons, Row, Idle
  <2> QED
    BY <2>1, <2>2
<1> QED
  BY <1>1, <1>2, <1>3, <1>4, AbandonEffect, RowsMove

\* Time passing.
LEMMA TickKeeps ==
  ASSUME SubmissionInv, Tick
  PROVE  SubmissionInv'
<1>1. UNCHANGED <<store, replies>> /\ callers' = callers
  BY DEF Tick
<1>2. callers' \in [Callers -> Caller]
  BY <1>1 DEF SubmissionInv, TypeOK
<1>3. \A p \in Ids : claims'[p] # NoRow /\ claims'[p].status = "COMPLETED" =>
                     claims[p] # NoRow /\ claims[p].status = "COMPLETED"
  BY TickEffect DEF Tick
<1> QED
  BY <1>1, <1>2, <1>3, TickEffect, RowsMove

\* Every step keeps the invariant.
LEMMA SubmissionStep ==
  ASSUME SubmissionInv, [Next]_vars
  PROVE  SubmissionInv'
<1>1. CASE UNCHANGED vars
  BY <1>1 DEF vars, SubmissionInv, TypeOK, CallerInv, CallerKnows, RowInv, ReplyInv,
              PublishedWhole, Row
<1>2. ASSUME NEW c \in Callers, CallerStep(c)
      PROVE  SubmissionInv'
  <2>1. ASSUME NEW r \in Requests, NEW lag \in Lags, ClaimSubmission(c, r, lag)
        PROVE  SubmissionInv'
    BY <2>1, ClaimKeeps, CallerOnlyKeeps DEF ClaimSubmission
  <2>2. CASE Complete(c)
    BY <2>2, CompleteKeeps
  <2>3. CASE LoadCompleted(c)
    <3>1. PICK S \in Expirable : Purge(S)
      BY <2>3 DEF LoadCompleted
    <3>2. UNCHANGED claims
      BY <2>3 DEF LoadCompleted
    <3>3. /\ callers[c].pc = "load"
          /\ callers' = [callers EXCEPT ![c] = Idle]
          /\ \/ replies' = replies
             \/ replies' = replies \cup {<<callers[c].req, callers[c].run>>}
      BY <2>3 DEF LoadCompleted
    <3> QED
      BY <3>1, <3>2, <3>3, PurgeKeeps
  <2>4. ASSUME NEW lag \in Lags, Abandon(c, lag)
        PROVE  SubmissionInv'
    BY <2>4, AbandonKeeps
  <2> QED
    BY <1>2, <2>1, <2>2, <2>3, <2>4, CallerOnlyKeeps DEF CallerStep
<1>3. CASE ReadRuns
  <2>1. PICK S \in Expirable : Purge(S)
    BY <1>3 DEF ReadRuns
  <2> QED
    BY <1>3, <2>1, PurgeKeeps DEF ReadRuns
<1>4. CASE Tick
  BY <1>4, TickKeeps
<1> QED
  BY <1>1, <1>2, <1>3, <1>4 DEF Next

LEMMA SubmissionInit ==
  ASSUME Init PROVE SubmissionInv
<1>1. TypeOK
  BY DEF Init, TypeOK, Caller
<1>2. CallerInv
  BY DEF Init, CallerInv, CallerKnows, Idle
<1> QED
  BY <1>1, <1>2 DEF Init, SubmissionInv, RowInv, ReplyInv, PublishedWhole

\* The inductive invariant holds in every reachable state.
THEOREM SubmissionInvHolds == Spec => []SubmissionInv
BY SubmissionInit, SubmissionStep, PTL DEF Spec

\* Types of the claim, run and caller state.
THEOREM SubmissionTypes == Spec => []TypeOK
<1>1. SubmissionInv => TypeOK
  BY DEF SubmissionInv
<1> QED
  BY <1>1, SubmissionInvHolds, PTL

\* Two answers under one tenant and key are the same run of the same request,
\* in spite of takeovers, crashes and retention.
THEOREM AnswersAgree == Spec => []OneAuthoritativeRun
<1>1. SubmissionInv => OneAuthoritativeRun
  <2> SUFFICES ASSUME SubmissionInv, NEW a \in replies, NEW b \in replies,
                      a[1].tenant = b[1].tenant, a[1].key = b[1].key
               PROVE  a[2] = b[2] /\ a[1].hash = b[1].hash /\ a[2].hash = a[1].hash
    BY DEF OneAuthoritativeRun
  <2>1. Row(a[1]) = Row(b[1])
    BY DEF Row, Id
  <2>2. Row(a[1]).run = a[2] /\ Row(b[1]).run = b[2]
    BY DEF SubmissionInv, ReplyInv
  <2>3. Row(a[1]).hash = a[1].hash /\ Row(b[1]).hash = b[1].hash
    BY DEF SubmissionInv, ReplyInv
  <2>4. Id(a[1]) \in Ids
    BY RequestShape DEF SubmissionInv, TypeOK
  <2>5. Row(a[1]).run.hash = Row(a[1]).hash
    BY <2>4 DEF SubmissionInv, RowInv, ReplyInv, Row
  <2> QED
    BY <2>1, <2>2, <2>3, <2>5
<1> QED
  BY <1>1, SubmissionInvHolds, PTL

\* Publication and retention are all or nothing.
THEOREM PublicationIsWhole == Spec => []PublishedWhole
<1>1. SubmissionInv => PublishedWhole
  BY DEF SubmissionInv
<1> QED
  BY <1>1, SubmissionInvHolds, PTL
\* A caller whose claim was taken over never publishes.
THEOREM StaleOwnersAreFenced == Spec => StaleOwnerNeverPublishes
<1>1. ASSUME SubmissionInv, [Next]_vars
      PROVE  PublicationStep
  <2> SUFFICES ASSUME NEW x \in runs' \ runs
               PROVE  /\ Row(x) # NoRow
                      /\ Row(x).status = "IN_PROGRESS"
                      /\ Row(x).generation = x.generation
    BY DEF PublicationStep
  <2>1. PICK c \in Callers : Complete(c)
    BY <1>1 DEF Next, vars, CallerStep, ClaimSubmission, ClaimNew, ClaimTakeover, ClaimFound,
                CompleteLost, CompleteRefused, CalculationFails, Abandon, PollCompleted,
                PollGivesUp, LoadCompleted, CallerCrash, ReadRuns, Tick, Purge, store
  <2>2. PICK k : k = callers[c]
    OBVIOUS
  <2>3. x = RunOf(k)
    BY <2>1, <2>2 DEF Complete, StoreRun
  <2>4. Row(k.req) # NoRow /\ Row(k.req).status = "IN_PROGRESS"
    BY <1>1, <2>1, <2>2, CompleteEffect DEF Row
  <2>5. Row(k.req).generation = k.generation
    BY <2>1, <2>2 DEF Complete, FenceHolds
  <2> QED
    BY <2>3, <2>4, <2>5 DEF RunOf, Row, Id
<1> QED
  BY <1>1, SubmissionInvHolds, PTL DEF Spec, StaleOwnerNeverPublishes

\* A lease ends early only by the hand of the newest owner.
THEOREM LeasesAreRespected == Spec => LeaseEndsByOwner
<1>1. ASSUME SubmissionInv, [Next]_vars
      PROVE  LeaseStep
  <2> SUFFICES ASSUME NEW p \in Ids, claims[p] # NoRow, claims[p].status = "IN_PROGRESS",
                      claims'[p].generation = claims[p].generation,
                      claims'[p].lease < claims[p].lease - 1
               PROVE  \E c \in Callers :
                        /\ callers[c].pc \in {"owner", "abandon"}
                        /\ Id(callers[c].req) = p
                        /\ callers[c].generation = claims[p].generation
                        /\ callers'[c] # callers[c]
    BY DEF LeaseStep
  <2>0. claims[p].lease \in Int /\ claims[p].generation \in Int
    BY <1>1, RowShape, SubmissionConstants DEF SubmissionInv, LeaseFloor
  <2>1. claims' # claims
    BY <2>0
  <2>2. CASE Tick
    <3>1. claims'[p] \in ClaimRow /\ claims'[p].lease >= claims[p].lease - 1
      BY <1>1, <2>2, TickEffect DEF RowsKept
    <3>2. claims'[p].lease \in Int
      BY <3>1, SubmissionConstants DEF ClaimRow, LeaseFloor
    <3> QED
      BY <2>0, <3>1, <3>2
  <2>3. ASSUME NEW c \in Callers, NEW r \in Requests, NEW lag \in Lags,
               ClaimNew(c, r, lag) \/ ClaimTakeover(c, r, lag)
        PROVE  FALSE
    <3>1. Id(r) \in Ids /\ claims \in [Ids -> ClaimRow \cup {NoRow}]
      BY <1>1, RequestShape DEF SubmissionInv, TypeOK
    <3>2. CASE ClaimNew(c, r, lag)
      <4>1. \A q \in Ids : q # Id(r) => claims'[q] = claims[q]
        BY <3>1, <3>2 DEF ClaimNew, Win
      <4> QED
        BY <2>0, <3>2, <4>1 DEF ClaimNew, Row
    <3>3. CASE ClaimTakeover(c, r, lag)
      <4>1. claims'[Id(r)].generation = claims[Id(r)].generation + 1
        BY <3>1, <3>3 DEF ClaimTakeover, Win, Row
      <4>2. \A q \in Ids : q # Id(r) => claims'[q] = claims[q]
        BY <3>1, <3>3 DEF ClaimTakeover, Win
      <4> QED
        BY <2>0, <4>1, <4>2
    <3> QED
      BY <2>3, <3>2, <3>3
  <2>4. ASSUME NEW c \in Callers, \/ Complete(c)
                                  \/ \E lag \in Lags : Abandon(c, lag)
        PROVE  /\ callers[c].pc \in {"owner", "abandon"}
               /\ Id(callers[c].req) = p
               /\ callers[c].generation = claims[p].generation
               /\ callers'[c] # callers[c]
    <3>1. \A q \in Ids : q # Id(callers[c].req) => claims'[q] = claims[q]
      BY <1>1, <2>4 DEF Complete, Abandon, SubmissionInv, TypeOK
    <3>2. p = Id(callers[c].req)
      BY <2>0, <3>1
    <3>3. Row(callers[c].req).generation = callers[c].generation
      BY <2>1, <2>4 DEF Complete, Abandon, FenceHolds, Abandons
    <3>4. callers'[c] = Idle
      BY <1>1, <2>4 DEF Complete, Abandon, SubmissionInv, TypeOK
    <3>5. callers[c].pc \in {"owner", "abandon"}
      BY <2>4 DEF Complete, Abandon
    <3>6. Idle.pc = "idle"
      BY DEF Idle
    <3>7. callers'[c] # callers[c]
      BY <3>4, <3>5, <3>6
    <3> QED
      BY <2>4, <3>2, <3>3, <3>5, <3>7 DEF Row
  <2>5. \/ Tick
        \/ \E c \in Callers, r \in Requests, lag \in Lags :
             ClaimNew(c, r, lag) \/ ClaimTakeover(c, r, lag)
        \/ \E c \in Callers : Complete(c) \/ \E lag \in Lags : Abandon(c, lag)
    BY <1>1, <2>1 DEF Next, vars, CallerStep, ClaimSubmission, ClaimFound, CompleteLost,
                      CompleteRefused, CalculationFails, PollCompleted, PollGivesUp,
                      LoadCompleted, CallerCrash, ReadRuns
  <2> QED
    BY <2>2, <2>3, <2>4, <2>5
<1> QED
  BY <1>1, SubmissionInvHolds, PTL DEF Spec, LeaseEndsByOwner
=============================================================================
