-------------------------- MODULE CampaignEvidence --------------------------
(***************************************************************************)
(* A bulk-review campaign definition and what may be done to it.  The      *)
(* document is immutable: a command returns a new document (its history    *)
(* grown by one record, or its status closed) or a reason for refusing.    *)
(* The read models (readiness, queue, inbox, board, plan) are functions of *)
(* the document.                                                           *)
(*                                                                         *)
(* Texts (reasons, rationales, source references) are left out: a record   *)
(* is told apart by the fields that a rule reads.  A date is a number; a   *)
(* transition reference 0 is the one the service derives when it opens the *)
(* task.  Instants are left out: every list is in the order of recording.  *)
(***************************************************************************)
EXTENDS Integers, Sequences, Functions

CONSTANTS
  None,       \* an absent optional field
  Malformed   \* a date text that is not an ISO date

When(condition, code) == IF condition THEN {code} ELSE {}

-----------------------------------------------------------------------------
(* The document.                                                           *)

NewDefinition(body) ==
  [body |-> body, status |-> "ACTIVE", successor |-> None,
   launches |-> <<>>, decisions |-> <<>>, actions |-> <<>>,
   tasks |-> <<>>, controls |-> <<>>]

\* The content hash covers everything but the launch audit records.
ContentOf(d) == [d EXCEPT !.launches = <<>>]

Closed(d) == d.status \in {"RETIRED", "SUPERSEDED"}

Governed(d) == d.body.governance # None

Entitled(d) == IF Governed(d) THEN d.body.governance.entitled ELSE {}

\* A command by an actor the campaign's governance does not name is refused.
MayCommand(d, actor) == Entitled(d) = {} \/ actor \in Entitled(d)

-----------------------------------------------------------------------------
(* The read models.                                                        *)

ApprovalState(d) ==
  CASE ~Governed(d) \/ d.body.governance.approvals = 0 -> "NOT_SUPPLIED"
    [] Governed(d) /\ d.body.governance.approvals = 3 -> "APPROVED"
    [] OTHER -> "INCOMPLETE"

\* day is None when nobody asks about a day, or when the day does not parse.
ExpiryState(d, day) ==
  IF ~Governed(d) \/ d.body.governance.expires = None THEN "NOT_SUPPLIED"
  ELSE IF d.body.governance.expires = Malformed THEN "INVALID"
  ELSE IF day # None /\ d.body.governance.expires < day THEN "EXPIRED"
  ELSE "ACTIVE"

EntitlementState(d, actor) ==
  IF Entitled(d) = {} THEN "NOT_SUPPLIED"
  ELSE IF actor = None THEN "ACTOR_REQUIRED"
  ELSE IF actor \in Entitled(d) THEN "AUTHORIZED" ELSE "UNAUTHORIZED"

Day(date) == IF date = Malformed THEN None ELSE date

\* Why a wave may not be created from the definition; ready when empty.
ReadinessReasons(d, date, actor) ==
  When(date = Malformed, "REQUESTED_AS_OF_DATE_INVALID")
    \cup When(d.status = "RETIRED", "RETIRED")
    \cup When(d.status = "SUPERSEDED", "SUPERSEDED")
    \cup When(d.body.asOf # date, "AS_OF_DATE_MISMATCH")
    \cup When(d.body.eligible = 0, "MEMBERSHIP_EMPTY")
    \cup When(ApprovalState(d) = "INCOMPLETE", "APPROVAL_EVIDENCE_INCOMPLETE")
    \cup When(ExpiryState(d, Day(date)) = "INVALID", "EXPIRY_DATE_INVALID")
    \cup When(ExpiryState(d, Day(date)) = "EXPIRED", "EXPIRED")
    \cup When(EntitlementState(d, actor) = "ACTOR_REQUIRED", "ACTOR_REQUIRED")
    \cup When(EntitlementState(d, actor) = "UNAUTHORIZED", "ACTOR_NOT_ENTITLED")

Ready(d, date, actor) == ReadinessReasons(d, date, actor) = {}

QueueStatus(d, date, actor) ==
  IF Closed(d) THEN "CLOSED"
  ELSE IF Ready(d, date, actor) THEN "READY_TO_LAUNCH" ELSE "ATTENTION_REQUIRED"

InboxStatus(d, date, actor, activeOn) ==
  IF Closed(d) THEN "CLOSED"
  ELSE IF EntitlementState(d, actor) \in {"ACTOR_REQUIRED", "UNAUTHORIZED"}
       THEN "ENTITLEMENT_ATTENTION"
  ELSE IF {ExpiryState(d, activeOn), ExpiryState(d, Day(date))}
            \cap {"EXPIRED", "INVALID"} # {} THEN "EXPIRY_ATTENTION"
  ELSE CASE ApprovalState(d) = "INCOMPLETE" -> "APPROVAL_INCOMPLETE"
         [] ApprovalState(d) = "NOT_SUPPLIED" -> "APPROVAL_REQUIRED"
         [] ApprovalState(d) = "APPROVED" -> "APPROVAL_COMPLETE"

NextAction(d, date, actor, activeOn) ==
  CASE InboxStatus(d, date, actor, activeOn) = "CLOSED" -> "NO_ACTION_CLOSED"
    [] InboxStatus(d, date, actor, activeOn) = "ENTITLEMENT_ATTENTION" ->
         "REVIEW_ACTOR_ENTITLEMENT"
    [] InboxStatus(d, date, actor, activeOn) = "APPROVAL_REQUIRED" ->
         "RECORD_APPROVAL_DECISION"
    [] InboxStatus(d, date, actor, activeOn) = "APPROVAL_INCOMPLETE" ->
         "REMEDIATE_APPROVAL_EVIDENCE"
    [] InboxStatus(d, date, actor, activeOn) = "EXPIRY_ATTENTION" ->
         "REFRESH_EXPIRY_OR_AS_OF_DATE"
    [] InboxStatus(d, date, actor, activeOn) = "APPROVAL_COMPLETE" ->
         IF QueueStatus(d, date, actor) = "READY_TO_LAUNCH" THEN "LAUNCH_CAMPAIGN"
         ELSE "REVIEW_CAMPAIGN_ATTENTION"

BoardStatus(next) ==
  CASE next = "NO_ACTION_CLOSED" -> "CLOSED"
    [] next = "LAUNCH_CAMPAIGN" -> "READY_FOR_ACTOR"
    [] OTHER -> "ATTENTION_FOR_ACTOR"

AssignedActors(d, actor) ==
  IF Entitled(d) # {} THEN Entitled(d) ELSE {actor} \ {None}

EscalationTier(next) ==
  CASE next = "NO_ACTION_CLOSED" -> "NONE"
    [] next = "LAUNCH_CAMPAIGN" -> "PM"
    [] next \in {"RECORD_APPROVAL_DECISION", "REMEDIATE_APPROVAL_EVIDENCE",
                 "REFRESH_EXPIRY_OR_AS_OF_DATE"} -> "GOVERNANCE"
    [] OTHER -> "OPS"

SlaPosture(next) ==
  CASE next \in {"NO_ACTION_CLOSED", "LAUNCH_CAMPAIGN"} -> "ON_TRACK"
    [] next = "REVIEW_ACTOR_ENTITLEMENT" -> "BREACHED_OR_BLOCKED"
    [] OTHER -> "ATTENTION"

ClosedTask == {"RESOLVED", "CANCELLED"}

\* The row of the workflow read model that is stored beside the document.
WorkflowProjection(d) ==
  LET next == NextAction(d, d.body.asOf, None, None) IN
  [status |-> d.status, content |-> ContentOf(d),
   board |-> BoardStatus(next), next |-> next,
   tier |-> EscalationTier(next), sla |-> SlaPosture(next),
   actors |-> AssignedActors(d, None)
                \cup UNION {a.actors : a \in Range(d.actions)}
                \cup UNION {t.actors : t \in Range(d.tasks)},
   taskStatuses |-> {t.status : t \in Range(d.tasks)},
   outcomes |-> {k.outcome : k \in Range(d.controls)},
   decisionTypes |-> {k.type : k \in Range(d.decisions)}]

-----------------------------------------------------------------------------
(* What a command returns: the document after it, or why it is refused.    *)

Done(d) == [refused |-> None, definition |-> d]

Refuse(reason) == [refused |-> reason, definition |-> None]

\* Where a list uses a reference, and the first and the last of those places.
Uses(entries, ref) == {i \in DOMAIN entries : entries[i].ref = ref}

FirstUse(entries, ref) ==
  CHOOSE i \in Uses(entries, ref) : \A j \in Uses(entries, ref) : i <= j

LastUse(entries, ref) ==
  CHOOSE i \in Uses(entries, ref) : \A j \in Uses(entries, ref) : j <= i

\* A record under a reference already used is a replay when it is the same
\* record, and a conflict otherwise.
Recorded(d, list, entry) ==
  IF Uses(d[list], entry.ref) = {} THEN Done([d EXCEPT ![list] = Append(@, entry)])
  ELSE IF d[list][LastUse(d[list], entry.ref)] = entry THEN Done(d)
  ELSE Refuse("REF_CONFLICT")

Decide(d, c) ==
  IF d.status # "ACTIVE" THEN Refuse("ACTIVE_REQUIRED")
  ELSE IF None \in {c.ref, c.by} THEN Refuse("TEXT_REQUIRED")
  ELSE Recorded(d, "decisions", [ref |-> c.ref, type |-> c.type, by |-> c.by])

Assign(d, c) ==
  IF d.status # "ACTIVE" THEN Refuse("ACTIVE_REQUIRED")
  ELSE IF None \in {c.ref, c.by} THEN Refuse("TEXT_REQUIRED")
  ELSE IF c.type # "RESOLVED" /\ c.actors = {} THEN Refuse("ACTORS_REQUIRED")
  ELSE IF c.type = "RESOLVED" /\ c.tier # "NONE" THEN Refuse("TIER_INVALID")
  ELSE IF ~MayCommand(d, c.by) THEN Refuse("ACTOR_NOT_ENTITLED")
  ELSE Recorded(d, "actions", [ref |-> c.ref, type |-> c.type, by |-> c.by,
                               actors |-> c.actors, tier |-> c.tier])

(* Assignment tasks.                                                       *)

OpenedTask(c) ==
  [ref |-> c.ref, type |-> c.type, status |-> "OPEN", actors |-> c.actors,
   tier |-> c.tier, sla |-> c.sla, due |-> c.due,
   transitions |-> <<[ref |-> 0, type |-> "OPENED", by |-> c.by,
                      from |-> None, to |-> "OPEN", actors |-> c.actors,
                      tier |-> c.tier, sla |-> c.sla, due |-> c.due]>>]

OpenTask(d, c) ==
  IF d.status # "ACTIVE" THEN Refuse("ACTIVE_REQUIRED")
  ELSE IF c.actors = {} THEN Refuse("ASSIGNEES_REQUIRED")
  ELSE IF None \in {c.ref, c.by} THEN Refuse("TEXT_REQUIRED")
  ELSE IF ~MayCommand(d, c.by) THEN Refuse("ACTOR_NOT_ENTITLED")
  ELSE Recorded(d, "tasks", OpenedTask(c))

StatusTransitions ==
  [ACKNOWLEDGED |-> [from |-> {"OPEN"}, to |-> "ACKNOWLEDGED"],
   STARTED      |-> [from |-> {"OPEN", "ACKNOWLEDGED", "BLOCKED"},
                     to |-> "IN_PROGRESS"],
   BLOCKED      |-> [from |-> {"OPEN", "ACKNOWLEDGED", "IN_PROGRESS"},
                     to |-> "BLOCKED"],
   UNBLOCKED    |-> [from |-> {"BLOCKED"}, to |-> "IN_PROGRESS"],
   RESOLVED     |-> [from |-> {"OPEN", "ACKNOWLEDGED", "IN_PROGRESS", "BLOCKED"},
                     to |-> "RESOLVED"],
   CANCELLED    |-> [from |-> {"OPEN", "ACKNOWLEDGED", "IN_PROGRESS", "BLOCKED"},
                     to |-> "CANCELLED"]]

FieldTransitions == {"REASSIGNED", "ESCALATED", "DUE_DATE_CHANGED"}

NextStatus(status, type) ==
  IF type \in FieldTransitions THEN status ELSE StatusTransitions[type].to

Given(value, default) == IF value = None THEN default ELSE value

\* An optional field the request leaves out matches whatever was recorded.
MatchesRequest(transition, c) ==
  /\ transition.type = c.type
  /\ transition.by = c.by
  /\ \A f \in {"actors", "tier", "sla", "due"} : c[f] \in {None, transition[f]}

TransitionRefusal(task, c) ==
  IF c.type = "OPENED" THEN "OPENED_TRANSITION_FORBIDDEN"
  ELSE IF task.status \in ClosedTask THEN "CLOSED_TRANSITION_FORBIDDEN"
  ELSE IF /\ c.type \notin FieldTransitions
          /\ task.status \notin StatusTransitions[c.type].from
       THEN "TRANSITION_INVALID"
  ELSE IF \/ /\ NextStatus(task.status, c.type) \notin ClosedTask
             /\ Given(c.actors, task.actors) = {}
          \/ c.type \in {"REASSIGNED", "ESCALATED"} /\ c.actors = None
       THEN "ASSIGNEES_REQUIRED"
  ELSE IF c.type = "DUE_DATE_CHANGED" /\ c.due = None THEN "DUE_AT_REQUIRED"
  ELSE None

Transitioned(task, c) ==
  LET to == NextStatus(task.status, c.type)
      actors == Given(c.actors, task.actors)
      tier == Given(c.tier, task.tier)
      sla == Given(c.sla, task.sla)
      due == Given(c.due, task.due)
  IN [task EXCEPT !.status = to, !.actors = actors, !.tier = tier,
                  !.sla = sla, !.due = due,
                  !.transitions = Append(@,
                    [ref |-> c.ref, type |-> c.type, by |-> c.by,
                     from |-> task.status, to |-> to, actors |-> actors,
                     tier |-> tier, sla |-> sla, due |-> due])]

TransitionTask(d, c) ==
  IF d.status # "ACTIVE" THEN Refuse("ACTIVE_REQUIRED")
  ELSE IF None \in {c.task, c.ref, c.by} THEN Refuse("TEXT_REQUIRED")
  ELSE IF ~MayCommand(d, c.by) THEN Refuse("ACTOR_NOT_ENTITLED")
  ELSE IF Uses(d.tasks, c.task) = {} THEN Refuse("TASK_NOT_FOUND")
  ELSE
    LET i == FirstUse(d.tasks, c.task)
        past == d.tasks[i].transitions
    IN IF Uses(past, c.ref) # {}
       THEN IF MatchesRequest(past[FirstUse(past, c.ref)], c) THEN Done(d)
            ELSE Refuse("TRANSITION_REF_CONFLICT")
       ELSE IF TransitionRefusal(d.tasks[i], c) # None
            THEN Refuse(TransitionRefusal(d.tasks[i], c))
       ELSE Done([d EXCEPT !.tasks[i] = Transitioned(@, c)])

(* Maker-checker controls.                                                 *)

NoReview == [pending |-> FALSE, submitter |-> None, reviewer |-> None,
             role |-> None, exception |-> FALSE, outcome |-> None]

Reviewed(state, control) ==
  LET seen == [state EXCEPT !.outcome = control.outcome] IN
  CASE control.action = "SUBMITTED_FOR_REVIEW" ->
         [seen EXCEPT !.pending = TRUE, !.submitter = control.submitter,
                      !.reviewer = None, !.role = None, !.exception = FALSE]
    [] control.action = "REVIEWER_ASSIGNED" ->
         [seen EXCEPT !.reviewer = control.reviewer, !.role = control.role]
    [] control.action = "REVIEW_COMPLETED" -> [seen EXCEPT !.pending = FALSE]
    [] control.action = "CONTROL_EXCEPTION_RAISED" ->
         [seen EXCEPT !.exception = TRUE]
    [] control.action = "CONTROL_EXCEPTION_RESOLVED" ->
         [seen EXCEPT !.exception = FALSE]

ReviewState(controls) ==
  LET after[n \in 0..Len(controls)] ==
        IF n = 0 THEN NoReview ELSE Reviewed(after[n - 1], controls[n])
  IN after[Len(controls)]

ControlShape(c) ==
  CASE c.action = "SUBMITTED_FOR_REVIEW" ->
         c.submitter # None /\ c.outcome = "PENDING"
    [] c.action = "REVIEWER_ASSIGNED" ->
         None \notin {c.reviewer, c.role} /\ c.outcome = "PENDING"
    [] c.action = "REVIEW_COMPLETED" ->
         /\ None \notin {c.submitter, c.reviewer}
         /\ c.submitter # c.reviewer
         /\ c.outcome \in {"PASSED", "FAILED"}
    [] c.action = "CONTROL_EXCEPTION_RAISED" -> c.outcome = "EXCEPTION_OPEN"
    [] c.action = "CONTROL_EXCEPTION_RESOLVED" ->
         c.outcome = "EXCEPTION_RESOLVED"

\* What the ledger so far allows next.
ControlAllowed(state, c) ==
  CASE c.action = "SUBMITTED_FOR_REVIEW" -> ~state.pending
    [] c.action = "REVIEWER_ASSIGNED" ->
         state.pending /\ c.reviewer # state.submitter
    [] c.action = "REVIEW_COMPLETED" ->
         /\ state.pending
         /\ c.submitter = state.submitter
         /\ state.reviewer \in {None, c.reviewer}
         /\ state.role \in {None, c.role}
    [] c.action = "CONTROL_EXCEPTION_RAISED" ->
         state.pending \/ state.outcome = "FAILED"
    [] c.action = "CONTROL_EXCEPTION_RESOLVED" -> state.exception

RecordControl(d, c) ==
  LET control == [ref |-> c.ref, action |-> c.action, by |-> c.by,
                  submitter |-> c.submitter, reviewer |-> c.reviewer,
                  role |-> c.role, outcome |-> c.outcome]
  IN IF d.status # "ACTIVE" THEN Refuse("ACTIVE_REQUIRED")
     ELSE IF None \in {c.ref, c.by} THEN Refuse("TEXT_REQUIRED")
     ELSE IF ~MayCommand(d, c.by) THEN Refuse("ACTOR_NOT_ENTITLED")
     ELSE IF ~ControlShape(c) THEN Refuse("CONTROL_INVALID")
     ELSE IF /\ Uses(d.controls, c.ref) = {}
             /\ ~ControlAllowed(ReviewState(d.controls), control)
          THEN Refuse("CONTROL_OUT_OF_ORDER")
     ELSE Recorded(d, "controls", control)

(* Launching, retiring and superseding.                                    *)

LaunchKey(d, c) ==
  [version |-> c.version, date |-> c.date, by |-> c.by, basis |-> ContentOf(d)]

Launched(d, key, wave, c) ==
  IF \E i \in DOMAIN d.launches : d.launches[i].key = key THEN d
  ELSE [d EXCEPT !.launches =
          Append(@, [wave |-> wave, key |-> key, by |-> c.by, date |-> c.date])]

Retired(d) == [d EXCEPT !.status = "RETIRED"]

Superseded(d, version, replacement) ==
  [d EXCEPT !.status = "SUPERSEDED",
            !.successor = [version |-> version, content |-> ContentOf(replacement)]]

Applied(d, c) ==
  CASE c.kind = "DECIDE" -> Decide(d, c)
    [] c.kind = "ASSIGN" -> Assign(d, c)
    [] c.kind = "OPEN" -> OpenTask(d, c)
    [] c.kind = "TRANSITION" -> TransitionTask(d, c)
    [] c.kind = "CONTROL" -> RecordControl(d, c)

=============================================================================
