----------------------------- MODULE Campaigns ------------------------------
(***************************************************************************)
(* The campaign service over its PostgreSQL repository.  A request reads   *)
(* the definition, computes the document it wants in its place and asks    *)
(* the repository to store it; the repository reads the row again, checks  *)
(* it against what the request had read, and updates it under a condition. *)
(* Other requests run between any two of these steps.  A launch also       *)
(* creates a wave, in another transaction, before it records itself.       *)
(*                                                                         *)
(* The in-memory repository runs the repository's steps under one lock:    *)
(* its behaviours are the ones in which those steps are adjacent.          *)
(***************************************************************************)
EXTENDS CampaignEvidence

CONSTANTS
  Clients,    \* concurrent requests
  Versions,   \* versions of one campaign of one tenant
  Workloads   \* by name: the initial rows, the commands sent, the bounds

VARIABLES
  rows,        \* the definition of each version, or None
  projection,  \* the workflow read model row of each version, or None
  waves,       \* the waves launches created, in order
  calls,       \* the request each client is waiting for
  restart,     \* the rows a starting process read to rebuild the projection
  load,        \* the workload, and how much of it is left
  answers,     \* history: the commands that succeeded
  exposed      \* history: versions hit by an unfenced write

vars == <<rows, projection, waves, calls, restart, load, answers, exposed>>

Idle == [step |-> "idle"]

Init ==
  /\ load \in {[name |-> w, requests |-> Workloads[w].requests,
                restarts |-> Workloads[w].restarts,
                losses |-> Workloads[w].losses] : w \in DOMAIN Workloads}
  /\ rows = Workloads[load.name].rows
  /\ projection = [v \in Versions |->
                     IF rows[v] = None THEN None ELSE WorkflowProjection(rows[v])]
  /\ waves = <<>>
  /\ calls = [c \in Clients |-> Idle]
  /\ restart = None
  /\ answers = {}
  /\ exposed = [evidence |-> {}, projection |-> {}]

Menu(c) == Workloads[load.name].menu[c]

Send(c, cmd) ==
  /\ calls[c] = Idle
  /\ load.requests > 0
  /\ load' = [load EXCEPT !.requests = @ - 1]

Reply(c, cmd, out, wave) ==
  /\ calls' = [calls EXCEPT ![c] = Idle]
  /\ answers' = answers \cup When(out = "OK", [cmd |-> cmd, wave |-> wave])

Proceed(c, call) ==
  /\ calls' = [calls EXCEPT ![c] = call]
  /\ UNCHANGED answers

-----------------------------------------------------------------------------
(* The service: read the definition and compute the one that replaces it.  *)

EvidenceKinds == {"DECIDE", "ASSIGN", "OPEN", "TRANSITION", "CONTROL"}

RecordEvidence(c, cmd) ==
  /\ Send(c, cmd)
  /\ cmd.kind \in EvidenceKinds
  /\ IF rows[cmd.version] = None THEN Reply(c, cmd, "NOT_FOUND", None)
     ELSE LET read == rows[cmd.version]
              result == Applied(read, cmd)
          IN IF result.refused # None THEN Reply(c, cmd, result.refused, None)
             ELSE Proceed(c, [step |-> "select", cmd |-> cmd, read |-> read,
                              update |-> result.definition, wave |-> None])
  /\ UNCHANGED <<rows, projection, waves, restart, exposed>>

Launch(c, cmd) ==
  /\ Send(c, cmd)
  /\ cmd.kind = "LAUNCH"
  /\ IF rows[cmd.version] = None THEN Reply(c, cmd, "NOT_FOUND", None)
     ELSE IF ~Ready(rows[cmd.version], cmd.date, cmd.by)
     THEN Reply(c, cmd, "BLOCKED", None)
     ELSE Proceed(c, [step |-> "wave", cmd |-> cmd, read |-> rows[cmd.version]])
  /\ UNCHANGED <<rows, projection, waves, restart, exposed>>

\* A launch that names no correlation gets one derived from the version.
Correlation(cmd) ==
  [given |-> cmd.correlation,
   derived |-> IF cmd.correlation = None THEN cmd.version ELSE None]

WithKey(key) == {i \in DOMAIN waves : waves[i].key = key}

\* The unique index on the correlation of a tenant's waves.
Correlated(correlation) ==
  {i \in DOMAIN waves : waves[i].correlation = correlation}

\* The key is looked up before the wave is saved and again when the save
\* meets a conflict, so two requests with one key get one wave.
CreateWave(c) ==
  /\ calls[c].step = "wave"
  /\ LET cmd == calls[c].cmd
         read == calls[c].read
         key == LaunchKey(read, cmd)
         fresh == WithKey(key) = {}
         wave == IF fresh THEN Len(waves) + 1 ELSE CHOOSE i \in WithKey(key) : TRUE
         update == Launched(read, key, wave, cmd)
     IN /\ IF fresh /\ Correlated(Correlation(cmd)) # {}
           THEN Reply(c, cmd, "CORRELATION_CONFLICT", None) /\ UNCHANGED waves
           ELSE /\ waves' = IF fresh
                            THEN Append(waves, [key |-> key, cmd |-> cmd,
                                                correlation |-> Correlation(cmd)])
                            ELSE waves
                /\ IF update = read THEN Reply(c, cmd, "OK", wave)
                   ELSE Proceed(c, [step |-> "select", cmd |-> cmd, read |-> read,
                                    update |-> update, wave |-> wave])
  /\ UNCHANGED <<rows, projection, restart, load, exposed>>

Retire(c, cmd) ==
  /\ Send(c, cmd)
  /\ cmd.kind = "RETIRE"
  /\ LET read == rows[cmd.version] IN
     IF read = None THEN Reply(c, cmd, "NOT_FOUND", None)
     ELSE IF read.status = "RETIRED" THEN Reply(c, cmd, "OK", None)
     ELSE IF read.status # "ACTIVE" THEN Reply(c, cmd, "LIFECYCLE_CONFLICT", None)
     ELSE Proceed(c, [step |-> "close", cmd |-> cmd, read |-> read,
                      update |-> Retired(read)])
  /\ UNCHANGED <<rows, projection, waves, restart, exposed>>

Supersede(c, cmd) ==
  /\ Send(c, cmd)
  /\ cmd.kind = "SUPERSEDE"
  /\ LET read == rows[cmd.version] IN
     IF read = None THEN Reply(c, cmd, "NOT_FOUND", None)
     ELSE IF read.status = "SUPERSEDED" THEN Reply(c, cmd, "OK", None)
     ELSE IF read.status # "ACTIVE" THEN Reply(c, cmd, "LIFECYCLE_CONFLICT", None)
     ELSE IF cmd.replacement = cmd.version
     THEN Reply(c, cmd, "REPLACEMENT_VERSION_INVALID", None)
     ELSE Proceed(c, [step |-> "replacement", cmd |-> cmd, read |-> read])
  /\ UNCHANGED <<rows, projection, waves, restart, exposed>>

ReadReplacement(c) ==
  /\ calls[c].step = "replacement"
  /\ LET cmd == calls[c].cmd
         replacement == rows[cmd.replacement]
     IN IF replacement = None THEN Reply(c, cmd, "REPLACEMENT_NOT_FOUND", None)
        ELSE IF replacement.status # "ACTIVE"
        THEN Reply(c, cmd, "REPLACEMENT_NOT_ACTIVE", None)
        ELSE Proceed(c, [step |-> "close", cmd |-> cmd, read |-> calls[c].read,
                         update |-> Superseded(calls[c].read, cmd.replacement,
                                               replacement)])
  /\ UNCHANGED <<rows, projection, waves, restart, load, exposed>>

-----------------------------------------------------------------------------
(* The repository.                                                         *)

\* A transaction that stores a document stores its projection with it.
Store(v, d) ==
  /\ rows' = [rows EXCEPT ![v] = d]
  /\ projection' = [projection EXCEPT ![v] = WorkflowProjection(d)]

\* A launch adds one record to the history as it stands; no other update
\* may change the history.
AppendFence(existing, updated, kind) ==
  IF kind = "LAUNCH"
  THEN /\ Len(updated.launches) = Len(existing.launches) + 1
       /\ SubSeq(updated.launches, 1, Len(existing.launches)) = existing.launches
  ELSE existing.launches = updated.launches

SelectRow(c) ==
  /\ calls[c].step = "select"
  /\ LET call == calls[c]
         cmd == call.cmd
         existing == rows[cmd.version]
     IN IF call.update = call.read /\ existing = call.read
        THEN Reply(c, cmd, "OK", call.wave)
        ELSE IF existing.status # "ACTIVE"
        THEN Reply(c, cmd, "LIFECYCLE_CONFLICT", None)
        ELSE IF \/ ContentOf(existing) # ContentOf(call.read)
                \/ ~AppendFence(existing, call.update, cmd.kind)
        THEN Reply(c, cmd, "STALE_WRITE", None)
        ELSE Proceed(c, [step |-> "update", cmd |-> cmd, read |-> existing,
                         update |-> call.update, wave |-> call.wave])
  /\ UNCHANGED <<rows, projection, waves, restart, load, exposed>>

\* The update is conditional on the row being the one just read.
UpdateRow(c) ==
  /\ calls[c].step = "update"
  /\ LET call == calls[c]
         v == call.cmd.version
     IN IF rows[v] = call.read
        THEN /\ Store(v, call.update)
             /\ exposed' = [exposed EXCEPT !.projection = @ \ {v}]
             /\ Reply(c, call.cmd, "OK", call.wave)
        ELSE /\ Reply(c, call.cmd, "STALE_WRITE", None)
             /\ UNCHANGED <<rows, projection, exposed>>
  /\ UNCHANGED <<waves, restart, load>>

SelectToClose(c) ==
  /\ calls[c].step = "close"
  /\ LET call == calls[c] IN
     IF rows[call.cmd.version].status = call.update.status
     THEN Reply(c, call.cmd, "OK", None)
     ELSE Proceed(c, [call EXCEPT !.step = "write"])
  /\ UNCHANGED <<rows, projection, waves, restart, load, exposed>>

\* The update is conditional on the status alone: the document stored is the
\* one computed from what the service had read.
CloseRow(c) ==
  /\ calls[c].step = "write"
  /\ LET call == calls[c]
         v == call.cmd.version
     IN IF rows[v].status = "ACTIVE"
        THEN /\ Store(v, call.update)
             /\ exposed' = [evidence |-> exposed.evidence
                                           \cup When(rows[v] # call.read, v),
                            projection |-> exposed.projection \ {v}]
             /\ Reply(c, call.cmd, "OK", None)
        ELSE /\ Reply(c, call.cmd, "LIFECYCLE_CONFLICT", None)
             /\ UNCHANGED <<rows, projection, exposed>>
  /\ UNCHANGED <<waves, restart, load>>

\* Saving a definition: a new version is inserted with its projection; an
\* existing one must have the same content.
SaveDefinition(c, cmd) ==
  /\ Send(c, cmd)
  /\ cmd.kind = "PUT"
  /\ LET definition == NewDefinition(cmd.body) IN
     IF rows[cmd.version] = None
     THEN Store(cmd.version, definition) /\ Reply(c, cmd, "OK", None)
     ELSE /\ IF ContentOf(rows[cmd.version]) # definition
             THEN Reply(c, cmd, "IMMUTABLE_CONFLICT", None)
             ELSE Proceed(c, [step |-> "refresh", cmd |-> cmd,
                              update |-> definition])
          /\ UNCHANGED <<rows, projection>>
  /\ UNCHANGED <<waves, restart, exposed>>

\* A replayed save stores the projection of the document it was sent.
RefreshProjection(c) ==
  /\ calls[c].step = "refresh"
  /\ LET v == calls[c].cmd.version
         stale == ContentOf(rows[v]) # calls[c].update
     IN /\ projection' = [projection EXCEPT ![v] =
                            WorkflowProjection(calls[c].update)]
        /\ exposed' = [exposed EXCEPT !.projection =
                         (@ \ {v}) \cup When(stale, v)]
        /\ Reply(c, calls[c].cmd, "OK", None)
  /\ UNCHANGED <<rows, waves, restart, load>>

-----------------------------------------------------------------------------
(* A process starts: it rebuilds the projection from the rows it reads.    *)

RebuildRead ==
  /\ restart = None
  /\ load.restarts > 0
  /\ restart' = rows
  /\ load' = [load EXCEPT !.restarts = @ - 1]
  /\ UNCHANGED <<rows, projection, waves, calls, answers, exposed>>

RebuildWrite ==
  /\ restart # None
  /\ projection' = [v \in Versions |->
                      IF restart[v] = None THEN projection[v]
                      ELSE WorkflowProjection(restart[v])]
  /\ exposed' = [exposed EXCEPT !.projection =
                   {v \in Versions :
                      IF restart[v] = None THEN v \in exposed.projection
                      ELSE ContentOf(restart[v]) # ContentOf(rows[v])}]
  /\ restart' = None
  /\ UNCHANGED <<rows, waves, calls, load, answers>>

\* A request ends without an answer: the connection or the process is lost.
Abandon(c) ==
  /\ calls[c] # Idle
  /\ load.losses > 0
  /\ calls' = [calls EXCEPT ![c] = Idle]
  /\ load' = [load EXCEPT !.losses = @ - 1]
  /\ UNCHANGED <<rows, projection, waves, restart, answers, exposed>>

Next ==
  \/ \E c \in Clients :
       \/ \E cmd \in Menu(c) :
            \/ RecordEvidence(c, cmd)
            \/ Launch(c, cmd)
            \/ Retire(c, cmd)
            \/ Supersede(c, cmd)
            \/ SaveDefinition(c, cmd)
       \/ CreateWave(c)
       \/ ReadReplacement(c)
       \/ SelectRow(c)
       \/ UpdateRow(c)
       \/ SelectToClose(c)
       \/ CloseRow(c)
       \/ RefreshProjection(c)
       \/ Abandon(c)
  \/ RebuildRead
  \/ RebuildWrite

Spec == Init /\ [][Next]_vars

-----------------------------------------------------------------------------
(* Properties.                                                             *)

\* What an acknowledged command leaves in the document.
Evident(d, a) ==
  LET cmd == a.cmd IN
  CASE cmd.kind = "DECIDE" ->
         \E e \in Range(d.decisions) :
           e = [ref |-> cmd.ref, type |-> cmd.type, by |-> cmd.by]
    [] cmd.kind = "ASSIGN" ->
         \E e \in Range(d.actions) : e.ref = cmd.ref /\ e.actors = cmd.actors
    [] cmd.kind = "OPEN" ->
         \E t \in Range(d.tasks) :
           t.ref = cmd.ref /\ t.transitions[1].by = cmd.by
    [] cmd.kind = "TRANSITION" ->
         \E t \in Range(d.tasks) : \E e \in Range(t.transitions) :
           t.ref = cmd.task /\ e.ref = cmd.ref /\ e.type = cmd.type
    [] cmd.kind = "CONTROL" ->
         \E e \in Range(d.controls) :
           e.ref = cmd.ref /\ e.action = cmd.action /\ e.outcome = cmd.outcome
    [] cmd.kind = "LAUNCH" ->
         \E e \in Range(d.launches) : e.wave = a.wave
    [] OTHER -> TRUE

\* A record that was acknowledged stays in the definition: no other request,
\* restart or lost connection removes it.  The exception is a retirement or
\* supersession that read the definition before the record was added, whose
\* write (campaign_definitions.py, retire_definition and supersede_definition)
\* is conditional on the status only.
AcknowledgedIsKept ==
  \A a \in answers :
    a.cmd.version \notin exposed.evidence => Evident(rows[a.cmd.version], a)

\* The launch audit: the records of a version name different waves, made
\* under different keys, each the wave that its key created; and requests that
\* are the same in every field never create two waves, however often they are
\* sent and wherever an earlier attempt stopped (launch_campaign_definition).
LaunchesAreAudited ==
  /\ \A v \in Versions : rows[v] # None =>
       \A i, j \in DOMAIN rows[v].launches :
         LET l == rows[v].launches[i] IN
         /\ l.wave \in DOMAIN waves /\ waves[l.wave].key = l.key
         /\ i # j => /\ rows[v].launches[j].key # l.key
                     /\ rows[v].launches[j].wave # l.wave
  /\ \A i, j \in DOMAIN waves : waves[i].cmd = waves[j].cmd => i = j

\* One review of the ledger: the submission it answers is the latest one, no
\* other review answered it, and the reviewer is not the submitter but is the
\* one assigned last, in the role required last.
ReviewIsSeparated(controls, j) ==
  \E s \in 1..j-1 :
    /\ controls[s].action = "SUBMITTED_FOR_REVIEW"
    /\ controls[s].submitter = controls[j].submitter
    /\ controls[j].reviewer # controls[s].submitter
    /\ \A k \in s+1..j-1 :
         /\ controls[k].action \notin {"SUBMITTED_FOR_REVIEW", "REVIEW_COMPLETED"}
         /\ \/ controls[k].action # "REVIEWER_ASSIGNED"
            \/ \E m \in k+1..j-1 : controls[m].action = "REVIEWER_ASSIGNED"
            \/ /\ controls[k].reviewer = controls[j].reviewer
               /\ controls[k].role = controls[j].role

\* A task's transitions tell its story: it was opened, each transition starts
\* where the one before it ended, nothing follows the closing one, and the
\* task stands where the last one left it, with somebody to do it while open.
TaskStoryHolds(t) ==
  /\ t.transitions[1].type = "OPENED"
  /\ \A k \in 2..Len(t.transitions) :
       /\ t.transitions[k].from = t.transitions[k-1].to
       /\ t.transitions[k].from \notin ClosedTask
       /\ t.transitions[k].to # "OPEN" \/ t.transitions[k].from = "OPEN"
  /\ t.status = t.transitions[Len(t.transitions)].to
  /\ t.actors = t.transitions[Len(t.transitions)].actors
  /\ t.status \notin ClosedTask => t.actors # {}

\* Whatever the interleaving of the requests, the ledgers of a definition read
\* as if one clerk had kept them: no reference is used twice, every review is
\* separated from its submission, and every task has a legal story
\* (campaign_maker_checker_controls.py, campaign_assignment_tasks.py).
LedgersAreLegal ==
  \A v \in Versions : rows[v] # None =>
    LET d == rows[v] IN
    /\ \A list \in {"decisions", "actions", "tasks", "controls"} :
         \A i, j \in DOMAIN d[list] : d[list][i].ref = d[list][j].ref => i = j
    /\ \A j \in DOMAIN d.controls :
         d.controls[j].action = "REVIEW_COMPLETED"
           => ReviewIsSeparated(d.controls, j)
    /\ \A t \in Range(d.tasks) : TaskStoryHolds(t)

\* The stored read model is the one the document has: every write refreshes
\* it.  The exceptions are the two writers that project a document they did
\* not just store: the rebuild at start-up and a replayed save, when another
\* request updated the definition after they read it.
ReadModelAgrees ==
  \A v \in Versions :
    rows[v] # None /\ v \notin exposed.projection
      => projection[v] = WorkflowProjection(rows[v])
=============================================================================
