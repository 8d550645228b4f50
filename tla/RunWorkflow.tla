----------------------------- MODULE RunWorkflow -----------------------------
(***************************************************************************)
(* The review workflow of rebalance runs.  A reviewer's request reads the  *)
(* latest decision of the run, checks its action against the status that   *)
(* decision left, and appends a decision of its own in a later             *)
(* transaction.  The latest decision is the one with the greatest          *)
(* decided_at, a time each process reads from its own clock.               *)
(***************************************************************************)
EXTENDS Naturals, FiniteSets

CONSTANTS
  Runs,          \* the runs there were
  NeedsReview,   \* those whose status is in the configured review set
  Reviewers,     \* concurrent requests of apply_workflow_action
  MaxLag,        \* how far a decided_at may be behind the true time
  MaxDecisions,  \* bound: decisions ever appended
  Retention      \* supportability_retention_days >= 1

VARIABLES
  stored,     \* runs of dpm_runs
  decisions,  \* dpm_workflow_decisions
  reviewers,  \* what each request has checked
  time        \* the number of decisions appended so far

vars == <<stored, decisions, reviewers, time>>

Actions == {"APPROVE", "REJECT", "REQUEST_CHANGES"}
Statuses == {"NOT_REQUIRED", "PENDING_REVIEW", "APPROVED", "REJECTED"}

\* Appending takes time: order numbers the decisions as they were stored, at
\* is the decided_at they carry.
Decision == [run: Runs, action: Actions, order: 1..MaxDecisions, at: 0..MaxDecisions]

Idle == [pc |-> "idle"]

-----------------------------------------------------------------------------
status_for_action(action) ==
  CASE action = "APPROVE" -> "APPROVED"
    [] action = "REJECT" -> "REJECTED"
    [] OTHER -> "PENDING_REVIEW"

\* VALID_WORKFLOW_TRANSITIONS; the new status is always status_for_action.
Allowed(status, action) ==
  \/ status = "PENDING_REVIEW"
  \/ status = "APPROVED" /\ action \in {"REQUEST_CHANGES", "REJECT"}
  \/ status = "REJECTED" /\ action = "REQUEST_CHANGES"

\* The decisions that may be the latest of S; a tie is broken by the order in
\* which the database happens to return the rows.
LatestDecisions(S) == {d \in S : \A e \in S : e.at <= d.at}

DecisionsOf(r) == {d \in decisions : d.run = r}

\* The statuses resolve_workflow_status may give for the run.
StatusesOf(r) ==
  IF r \notin NeedsReview THEN {"NOT_REQUIRED"}
  ELSE IF DecisionsOf(r) = {} THEN {"PENDING_REVIEW"}
  ELSE {status_for_action(d.action) : d \in LatestDecisions(DecisionsOf(r))}

-----------------------------------------------------------------------------
\* The first half of apply_workflow_action, up to its last read.  A missing run,
\* one that needs no review and an invalid transition are refused.
CheckAction(w, r, a) ==
  /\ reviewers[w] = Idle
  /\ r \in stored
  /\ \E s \in StatusesOf(r) :
       /\ Allowed(s, a)
       /\ reviewers' = [reviewers EXCEPT ![w] =
                          [pc |-> "append", run |-> r, action |-> a]]
  /\ UNCHANGED <<stored, decisions, time>>

\* decided_at as read by a process whose clock is lag behind.
DecidedAt(lag) == IF lag <= time + 1 THEN time + 1 - lag ELSE 0

\* The second half: stamp, append, answer.
AppendDecision(w, lag) ==
  /\ reviewers[w].pc = "append"
  /\ time < MaxDecisions
  /\ decisions' = decisions \cup
       {[run |-> reviewers[w].run, action |-> reviewers[w].action,
         order |-> time + 1, at |-> DecidedAt(lag)]}
  /\ time' = time + 1
  /\ reviewers' = [reviewers EXCEPT ![w] = Idle]
  /\ UNCHANGED stored

\* purge_expired_runs deletes runs with their decisions.
Purge(S) ==
  /\ stored' = stored \ S
  /\ decisions' = {d \in decisions : d.run \notin S}

\* Any request: it cleans up before it looks for its run.
Cleanup ==
  /\ Retention
  /\ \E S \in SUBSET stored : Purge(S)
  /\ UNCHANGED <<reviewers, time>>

RequestDies(w) ==
  /\ reviewers[w] # Idle
  /\ reviewers' = [reviewers EXCEPT ![w] = Idle]
  /\ UNCHANGED <<stored, decisions, time>>

Init ==
  /\ stored = Runs
  /\ decisions = {}
  /\ reviewers = [w \in Reviewers |-> Idle]
  /\ time = 0

Next ==
  \/ \E w \in Reviewers :
       \/ \E r \in Runs, a \in Actions : CheckAction(w, r, a)
       \/ \E lag \in 0..MaxLag : AppendDecision(w, lag)
       \/ RequestDies(w)
  \/ Cleanup

Spec == Init /\ [][Next]_vars

-----------------------------------------------------------------------------
\* The status that the decisions stored before d leave.
StatusBefore(d) ==
  LET earlier == {e \in DecisionsOf(d.run) : e.order < d.order}
      newest == CHOOSE e \in earlier : \A f \in earlier : f.order <= e.order
  IN IF earlier = {} THEN "PENDING_REVIEW" ELSE status_for_action(newest.action)

\* The audit trail is a legal path.  Every decision of a stored run is a valid
\* transition from the status that the decisions stored before it left, so an
\* approval never stands on a rejection that nobody reopened.
HistoryIsLegal ==
  \A d \in decisions : d.run \in stored => Allowed(StatusBefore(d), d.action)
=============================================================================
