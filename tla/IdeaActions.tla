----------------------------- MODULE IdeaActions ----------------------------
(***************************************************************************)
(* Conversion intents of lotus-idea become management actions: the intake, *)
(* the fenced review decisions and the outcome history, over the Postgres  *)
(* and the in-memory repository side by side.  Hashes are the tuples they  *)
(* are computed from; an answer may be lost after, or before, the work.    *)
(***************************************************************************)
EXTENDS Results, TLC

CONSTANTS Workloads,            \* set of functions: client -> sequence of commands
          SupportApisEnabled,   \* the feature flag of the routes
          MaxLost               \* answers that get lost

VARIABLES store, calls, replies

Backends == {"pg", "mem"}

-----------------------------------------------------------------------------
(* Who may ask.                                                             *)

CanAccessPortfolio(principal, portfolio) == portfolio \in principal.portfolios

Authorize(principal, capability, roles) ==
    FirstRefusal(<<IF principal.role \in roles THEN "NO" ELSE "IDEA_ACTION_INTAKE_ROLE_NOT_AUTHORIZED",
                   IF capability \in principal.capabilities THEN "NO" ELSE "IDEA_ACTION_INTAKE_CAPABILITY_REQUIRED">>)

ResolvePrincipal(principal) ==
    FirstRefusal(<<IF principal.active THEN "NO" ELSE "IDEA_ACTION_INTAKE_PRINCIPAL_INVALID",
                   IF principal.portfolios # {} THEN "NO" ELSE "IDEA_ACTION_INTAKE_PORTFOLIO_SCOPE_REQUIRED">>)

RequireIntakePrincipal(principal) ==
    FirstRefusal(<<ResolvePrincipal(principal),
                   Authorize(principal, "accept", {"SERVICE"}),
                   IF principal.service = "lotus-idea" THEN "NO" ELSE "IDEA_ACTION_INTAKE_SERVICE_IDENTITY_REQUIRED">>)

RequireReadPrincipal(principal) ==
    FirstRefusal(<<ResolvePrincipal(principal),
                   Authorize(principal, "read", {"SERVICE", "PORTFOLIO_MANAGER", "DPM_MANAGER", "INVESTMENT_COUNSELLOR"})>>)

RequireReviewPrincipal(principal) ==
    FirstRefusal(<<ResolvePrincipal(principal), Authorize(principal, "review", {"PORTFOLIO_MANAGER", "DPM_MANAGER"})>>)

\* Then the feature flag, and query parameters the route does not know.
Gate(principalRefusal, command) ==
    FirstRefusal(<<principalRefusal,
                   IF SupportApisEnabled THEN "NO" ELSE "DPM_SUPPORT_APIS_DISABLED",
                   IF command.extra THEN "UNEXPECTED_QUERY_PARAMETERS" ELSE "NO">>)

-----------------------------------------------------------------------------
(* Identities.                                                              *)

\* The order in which source references are listed does not count.
CanonicalSourceRefs(refs) == SortSeq(refs, <)

RequestFingerprint(request) ==
    <<request.portfolio, request.candidate, request.intent, request.type, CanonicalSourceRefs(request.refs)>>

IntakeId(request, principal) == <<principal.tenant, principal.entity, RequestFingerprint(request)>>

IdempotencyScopeHash(key, principal, portfolio) ==
    <<key, principal.tenant, principal.entity, portfolio, principal.service>>

ManagementActionId(principal, request) ==
    <<principal.tenant, principal.entity, request.portfolio, request.intent>>

EventId(action, version, type) == <<action, version, type>>

-----------------------------------------------------------------------------
(* Actions and their events.                                                *)

Event(action, version, type, previous, status, actor, causation) ==
    [action |-> action, version |-> version, type |-> type, previous |-> previous, status |-> status,
     actor |-> actor, causation |-> causation]

CreateAction(principal, key, request) ==
    LET id == ManagementActionId(principal, request)
    IN  [id |-> id, intake |-> IntakeId(request, principal), tenant |-> principal.tenant,
         entity |-> principal.entity, portfolio |-> request.portfolio, intent |-> request.intent,
         fingerprint |-> RequestFingerprint(request),
         scope |-> IdempotencyScopeHash(key, principal, request.portfolio),
         status |-> "PENDING_REVIEW", version |-> 1, causation |-> <<request.intent>>,
         events |-> <<Event(id, 1, "INTAKE_ACCEPTED", "NONE", "PENDING_REVIEW", principal.actor, <<request.intent>>)>>]

WorkflowTransition(status, action) ==
    CASE status = "PENDING_REVIEW" /\ action = "APPROVE" -> "APPROVED"
      [] status \in {"PENDING_REVIEW", "APPROVED"} /\ action = "REJECT" -> "REJECTED"
      [] status \in {"PENDING_REVIEW", "APPROVED", "REJECTED"} /\ action = "REQUEST_CHANGES" -> "PENDING_REVIEW"
      [] OTHER -> "NONE"

RecordDecision(action, decision, expected, actor) ==
    LET next == WorkflowTransition(action.status, decision)
        last == action.events[Len(action.events)]
        cause == EventId(action.id, last.version, last.type)
    IN  IF expected # action.version THEN Refused("IDEA_MANAGEMENT_ACTION_SOURCE_EVENT_VERSION_CONFLICT")
        ELSE IF next = "NONE" THEN Refused("IDEA_MANAGEMENT_ACTION_INVALID_WORKFLOW_TRANSITION")
        ELSE Accepted([action EXCEPT !.status = next, !.version = @ + 1, !.causation = cause,
                !.events = Append(@, Event(action.id, action.version + 1, decision, action.status, next, actor, cause))])

-----------------------------------------------------------------------------
(* The repositories: rows of actions, and Postgres a row for every event.   *)

SameIntent(a, b) == a.tenant = b.tenant /\ a.entity = b.entity /\ a.portfolio = b.portfolio /\ a.intent = b.intent

SameIntakeScope(a, b) == a.tenant = b.tenant /\ a.entity = b.entity /\ a.intake = b.intake

Created(action) == [action |-> action, created |-> TRUE]

Replayed(action) == [action |-> action, created |-> FALSE]

SameIntake(a, b) ==
    /\ a.id = b.id /\ a.intake = b.intake /\ a.tenant = b.tenant /\ a.entity = b.entity
    /\ a.portfolio = b.portfolio /\ a.fingerprint = b.fingerprint /\ a.scope = b.scope

\* The rows that make the insert do nothing.
CreateConflicts(tables, action) ==
    {a \in tables.actions : a.scope = action.scope \/ a.id = action.id \/ SameIntakeScope(a, action) \/ SameIntent(a, action)}

InsertEvent(tables, event) == [tables EXCEPT !.events = @ \cup {event}]

\* Of several conflicting rows the first by hashed id is compared: no row but
\* the action's own can be the same intake.
PgCreateOrReplay(tables, action) ==
    LET conflicts == CreateConflicts(tables, action)
    IN  IF conflicts = {}
        THEN [tables |-> InsertEvent([tables EXCEPT !.actions = @ \cup {action}], action.events[1]),
              result |-> Accepted(Created(action))]
        ELSE LET existing == CHOOSE a \in conflicts : TRUE
             IN  [tables |-> tables,
                  result |-> IF SameIntake(existing, action) THEN Accepted(Replayed(existing))
                             ELSE Refused("IDEA_ACTION_INTAKE_IDEMPOTENCY_CONFLICT")]

\* The indexes are tried in order: key, intake, intent, id.
ExistingForCreate(tables, action) ==
    LET by == <<{a \in tables.actions : a.scope = action.scope}, {a \in tables.actions : SameIntakeScope(a, action)},
                {a \in tables.actions : SameIntent(a, action)}, {a \in tables.actions : a.id = action.id}>>
        hits == {i \in DOMAIN by : by[i] # {}}
    IN  IF hits = {} THEN {} ELSE by[Min(hits)]

MemCreateOrReplay(tables, action) ==
    LET found == ExistingForCreate(tables, action)
    IN  IF found = {}
        THEN [tables |-> [tables EXCEPT !.actions = @ \cup {action}], result |-> Accepted(Created(action))]
        ELSE LET existing == CHOOSE a \in found : TRUE
             IN  [tables |-> tables,
                  result |-> IF existing.fingerprint = action.fingerprint /\ existing.id = action.id
                             THEN Accepted(Replayed(existing))
                             ELSE Refused("IDEA_ACTION_INTAKE_IDEMPOTENCY_CONFLICT")]

CreateOrReplay(b, tables, action) ==
    IF b = "pg" THEN PgCreateOrReplay(tables, action) ELSE MemCreateOrReplay(tables, action)

GetByIntakeId(tables, principal, intake) ==
    {a \in tables.actions : a.tenant = principal.tenant /\ a.entity = principal.entity /\ a.intake = intake}

GetByConversionIntent(tables, principal, portfolio, intent) ==
    {a \in tables.actions : a.tenant = principal.tenant /\ a.entity = principal.entity
                            /\ a.portfolio = portfolio /\ a.intent = intent}

Replace(tables, action) ==
    {IF a.id = action.id THEN action ELSE a : a \in tables.actions}

PgUpdate(tables, action, expected) ==
    IF action.version # expected + 1 THEN Refused("IDEA_MANAGEMENT_ACTION_VERSION_SEQUENCE_INVALID")
    ELSE IF \E a \in tables.actions : a.id = action.id /\ a.version = expected
    THEN Accepted(InsertEvent([tables EXCEPT !.actions = Replace(tables, action)], action.events[Len(action.events)]))
    ELSE Refused("IDEA_MANAGEMENT_ACTION_SOURCE_EVENT_VERSION_CONFLICT")

MemUpdate(tables, action, expected) ==
    IF ~\E a \in tables.actions : a.id = action.id THEN Refused("IDEA_MANAGEMENT_ACTION_NOT_FOUND")
    ELSE IF ~\E a \in tables.actions : a.id = action.id /\ a.version = expected
    THEN Refused("IDEA_MANAGEMENT_ACTION_SOURCE_EVENT_VERSION_CONFLICT")
    ELSE IF action.version # expected + 1 THEN Refused("IDEA_MANAGEMENT_ACTION_VERSION_SEQUENCE_INVALID")
    ELSE Accepted([tables EXCEPT !.actions = Replace(tables, action)])

Update(b, tables, action, expected) ==
    IF b = "pg" THEN PgUpdate(tables, action, expected) ELSE MemUpdate(tables, action, expected)

-----------------------------------------------------------------------------
(* The service.                                                             *)

AcceptedReceipt(action, replayed) ==
    Accepted([status |-> IF replayed THEN "ACCEPTED_REPLAYED" ELSE "ACCEPTED", action |-> action.id,
              review |-> action.status, version |-> action.version])

RejectedReceipt ==
    Accepted([status |-> "REJECTED", action |-> <<>>, review |-> "NONE", version |-> 0])

OutcomeHistory(action) ==
    Accepted([action |-> action.id, status |-> action.status, version |-> action.version, events |-> action.events])

AcceptIntake(b, tables, principal, key, request) ==
    LET refusal == FirstRefusal(<<
            IF CanAccessPortfolio(principal, request.portfolio) THEN "NO" ELSE "IDEA_ACTION_INTAKE_PORTFOLIO_SCOPE_FORBIDDEN",
            IF key # "" THEN "NO" ELSE "IDEA_ACTION_INTAKE_IDEMPOTENCY_KEY_REQUIRED">>)
        made == CreateOrReplay(b, tables, CreateAction(principal, key, request))
    IN  IF refusal # "NO" THEN [tables |-> tables, result |-> Refused(refusal)]
        ELSE IF request.type # "REVIEW_FOR_REBALANCE" THEN [tables |-> tables, result |-> RejectedReceipt]
        ELSE [tables |-> made.tables,
              result |-> IF IsRefused(made.result) THEN made.result
                         ELSE AcceptedReceipt(made.result.value.action, ~made.result.value.created)]

LoadScopedAction(tables, principal, intake) ==
    {a \in GetByIntakeId(tables, principal, intake) : CanAccessPortfolio(principal, a.portfolio)}

GetOutcomeHistory(tables, principal, intake) ==
    LET found == LoadScopedAction(tables, principal, intake)
    IN  IF found = {} THEN Refused("IDEA_MANAGEMENT_ACTION_NOT_FOUND")
        ELSE OutcomeHistory(CHOOSE a \in found : TRUE)

GetOutcomeHistoryByIntent(tables, principal, portfolio, intent) ==
    LET found == GetByConversionIntent(tables, principal, portfolio, intent)
    IN  IF ~CanAccessPortfolio(principal, portfolio) THEN Refused("IDEA_ACTION_INTAKE_PORTFOLIO_SCOPE_FORBIDDEN")
        ELSE IF found = {} THEN Refused("IDEA_MANAGEMENT_ACTION_NOT_FOUND")
        ELSE OutcomeHistory(CHOOSE a \in found : TRUE)

-----------------------------------------------------------------------------
(* Commands arrive from several clients; each answer may be lost.           *)

Idle == [state |-> "IDLE"]

Init ==
    \E workload \in Workloads :
        /\ store = [b \in Backends |-> [actions |-> {}, events |-> {}]]
        /\ calls = [todo |-> workload, flight |-> [c \in DOMAIN workload |-> Idle], lost |-> 0]
        /\ replies = [c \in DOMAIN workload |-> <<>>]

Waiting(c, op) == calls.todo[c] # <<>> /\ Head(calls.todo[c]).op = op /\ calls.flight[c] = Idle

\* The client hears the result, or nothing at all; then it sends the command again.
Answered(c, command, results, heard) ==
    /\ heard \/ calls.lost < MaxLost
    /\ replies' = [replies EXCEPT ![c] = Append(@, [command |-> command, results |-> results])]
    /\ calls' = [calls EXCEPT !.todo[c] = IF heard THEN Tail(@) ELSE @, !.flight[c] = Idle,
                              !.lost = IF heard THEN @ ELSE @ + 1]

AcceptIdeaActionIntake(c) ==
    /\ Waiting(c, "ACCEPT")
    /\ LET command == Head(calls.todo[c])
           refusal == Gate(RequireIntakePrincipal(command.principal), command)
           made == [b \in Backends |->
                IF refusal # "NO" THEN [tables |-> store[b], result |-> Refused(refusal)]
                ELSE AcceptIntake(b, store[b], command.principal, command.key, command.request)]
       IN  /\ store' = [b \in Backends |-> made[b].tables]
           /\ \E heard \in BOOLEAN : Answered(c, command, [b \in Backends |-> made[b].result], heard)

\* A review reads the action, decides on what it read, and writes.
LoadForReview(c) ==
    /\ Waiting(c, "REVIEW")
    /\ LET command == Head(calls.todo[c])
       IN  calls' = [calls EXCEPT !.flight[c] = [state |-> "LOADED",
                found |-> [b \in Backends |-> LoadScopedAction(store[b], command.principal, command.intake)]]]
    /\ UNCHANGED <<store, replies>>

ReviewOutcome(b, command, found) ==
    LET refusal == Gate(RequireReviewPrincipal(command.principal), command)
        current == CHOOSE a \in found : TRUE
        decided == RecordDecision(current, command.decision, command.expected, command.principal.actor)
        updated == Update(b, store[b], decided.value, command.expected)
        failed(code) == [tables |-> store[b], result |-> Refused(code)]
    IN  IF refusal # "NO" THEN failed(refusal)
        ELSE IF found = {} THEN failed("IDEA_MANAGEMENT_ACTION_NOT_FOUND")
        ELSE IF IsRefused(decided) THEN failed(decided.refused)
        ELSE IF IsRefused(updated) THEN failed(updated.refused)
        ELSE [tables |-> updated.value, result |-> OutcomeHistory(decided.value)]

RecordOutcome(c) ==
    /\ calls.flight[c] # Idle
    /\ LET command == Head(calls.todo[c])
           made == [b \in Backends |-> ReviewOutcome(b, command, calls.flight[c].found[b])]
       IN  /\ store' = [b \in Backends |-> made[b].tables]
           /\ \E heard \in BOOLEAN : Answered(c, command, [b \in Backends |-> made[b].result], heard)

Next == \E c \in DOMAIN calls.todo : AcceptIdeaActionIntake(c) \/ LoadForReview(c) \/ RecordOutcome(c)

-----------------------------------------------------------------------------
(* Properties.                                                              *)

\* Every step of an action's history follows from the one before: versions
\* without a gap, a status the workflow allows, the cause named.
Chained(action) ==
    /\ action.version = Len(action.events)
    /\ action.status = action.events[action.version].status
    /\ \A i \in 2..action.version :
        LET e == action.events[i]
            before == action.events[i - 1]
        IN  /\ e.version = i /\ e.previous = before.status
            /\ e.status = WorkflowTransition(before.status, e.type)
            /\ e.causation = EventId(action.id, before.version, before.type)

\* However intakes and reviews overlap and are retried, the history of an action
\* is one chain, its event rows are that chain, and it begins with every history
\* any reviewer was shown.
HistoryIsKept ==
    /\ \A b \in Backends : \A a \in store[b].actions : Chained(a)
    /\ store["pg"].events = UNION {Range(a.events) : a \in store["pg"].actions}
    /\ \A c \in DOMAIN replies : \A i \in DOMAIN replies[c] : \A b \in Backends :
        LET result == replies[c][i].results[b]
        IN  replies[c][i].command.op = "REVIEW" /\ ~IsRefused(result) =>
                \E a \in store[b].actions : a.id = result.value.action /\ IsPrefix(result.value.events, a.events)

\* An intake sent again with its key is answered with the action it created,
\* whether or not the first answer was heard, and creates nothing new.
ReplaysAreStable ==
    \A c \in DOMAIN replies : \A j \in DOMAIN replies[c] : \A i \in 1..(j - 1) : \A b \in Backends :
        LET first == replies[c][i].results[b]
            later == replies[c][j].results[b]
        IN  /\ replies[c][i].command.op = "ACCEPT"
            /\ replies[c][j].command = replies[c][i].command
            /\ ~IsRefused(first)
            => /\ ~IsRefused(later)
               /\ later.value.action = first.value.action
               /\ later.value.status = IF first.value.status = "REJECTED" THEN "REJECTED" ELSE "ACCEPTED_REPLAYED"
               /\ later.value.version >= first.value.version

Principals == UNION {{calls.todo[c][i].principal : i \in DOMAIN calls.todo[c]} : c \in DOMAIN calls.todo}
                \cup UNION {{replies[c][i].command.principal : i \in DOMAIN replies[c]} : c \in DOMAIN replies}

\* A reader is shown only actions of their tenant, legal entity and portfolios,
\* by intake or by intent, and only such a reviewer ever decides one.
OutcomesStayInScope ==
    \A b \in Backends : \A a \in store[b].actions :
        /\ \A p \in {q \in Principals : RequireReadPrincipal(q) = "NO"} :
            LET entitled == p.tenant = a.tenant /\ p.entity = a.entity /\ a.portfolio \in p.portfolios
                byIntake == GetOutcomeHistory(store[b], p, a.intake)
                byIntent == GetOutcomeHistoryByIntent(store[b], p, a.portfolio, a.intent)
            IN  entitled = ~IsRefused(byIntake) /\ (entitled => byIntent = byIntake)
        /\ \A i \in 2..a.version :
            \E p \in Principals : p.actor = a.events[i].actor /\ p.tenant = a.tenant /\ a.portfolio \in p.portfolios

\* An intent stored under one key is sent with another: Postgres refuses, the
\* in-memory repository does not compare keys and replays.
OtherKeyReplayed(command, results) ==
    /\ command.op = "ACCEPT" /\ results["pg"] = Refused("IDEA_ACTION_INTAKE_IDEMPOTENCY_CONFLICT")
    /\ ~IsRefused(results["mem"]) /\ results["mem"].value.status = "ACCEPTED_REPLAYED"
    /\ \E a \in store["pg"].actions :
        /\ a.id = results["mem"].value.action /\ a.fingerprint = RequestFingerprint(command.request)
        /\ a.scope # IdempotencyScopeHash(command.key, command.principal, command.request.portfolio)

\* Both repositories hold the same actions and give every intake and review the
\* same answer, with one exception: the intent sent again under another key.
RepositoriesAgree ==
    /\ store["pg"].actions = store["mem"].actions
    /\ \A c \in DOMAIN replies : \A i \in DOMAIN replies[c] :
        \/ replies[c][i].results["pg"] = replies[c][i].results["mem"]
        \/ OtherKeyReplayed(replies[c][i].command, replies[c][i].results)

=============================================================================
