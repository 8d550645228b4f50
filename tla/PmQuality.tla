----------------------------- MODULE PmQuality ------------------------------
(***************************************************************************)
(* PM operating quality: policies, score runs, fairness analyses, review   *)
(* actions and summary invocations, from the HTTP handler down to the      *)
(* store.  A handler checks the caller, builds its record from what it     *)
(* reads, and saves it in a later step; other requests run in between.     *)
(*                                                                         *)
(* The PostgreSQL and the in-memory repositories serve the same requests   *)
(* side by side, so that their answers can be compared.                    *)
(***************************************************************************)
EXTENDS PmQualityRules, TLC

CONSTANTS
    Clients,       \* concurrent callers
    Workloads,     \* the commands each caller sends, in order
    Reviews,       \* the stored outcome reviews, by id
    Core           \* what lotus-core may answer to a membership request

VARIABLES
    store,     \* the tables of each backend
    calls,     \* the commands left, the call each client waits for, the clock
    replies    \* history: the answers, with what they acknowledge

vars == <<store, calls, replies>>

Backends == {"pg", "mem"}
Kinds == {"policies", "runs", "fairness", "actions", "summaries"}

Init ==
    /\ store = [b \in Backends |-> [k \in Kinds |-> {}]]
    /\ \E w \in Workloads :
          calls = [clock |-> 0, left |-> w, open |-> [c \in Clients |-> <<>>]]
    /\ replies = {}

-----------------------------------------------------------------------------
(* The tables.  A row is [tenant, content, by, at]; the content of a policy *)
(* is named by its key, every other record by its content hash.            *)

RowKey(kind, row) ==
    <<row.tenant, IF kind = "policies" THEN row.content.key ELSE row.content>>

SameKey(table, kind, row) == {r \in table : RowKey(kind, r) = RowKey(kind, row)}

\* Mutant: ON CONFLICT DO UPDATE.
PgUpsert(tables, kind, row) ==
    Accepted([tables EXCEPT ![kind] = (@ \ SameKey(@, kind, row)) \cup {row}])

\* INSERT ... ON CONFLICT DO NOTHING, then compare the hash of what is stored.
PgInsert(tables, kind, row) ==
    LET stored == SameKey(tables[kind], kind, row) IN
    IF stored = {} THEN Accepted([tables EXCEPT ![kind] = @ \cup {row}])
    ELSE IF \A r \in stored : r.content = row.content THEN Accepted(tables)
    ELSE Refused("IMMUTABLE_CONFLICT")

\* Under the repository's lock; an equal record replaces the one stored.
MemPut(tables, kind, row) ==
    LET stored == SameKey(tables[kind], kind, row) IN
    IF \E r \in stored : r.content # row.content THEN Refused("IMMUTABLE_CONFLICT")
    ELSE Accepted([tables EXCEPT ![kind] = (@ \ stored) \cup {row}])

Find(tables, kind, tenant, id) ==
    {r \in tables[kind] : r.tenant = tenant /\ r.content = id}

ActionParentRefusal(tables, row) ==
    LET a == row.content
        parents == Find(tables, a.kind, row.tenant, a.target)
    IN  CASE a.kind \notin {"runs", "fairness"} -> "TARGET_TYPE_UNSUPPORTED"
          [] parents = {} -> "TARGET_NOT_FOUND"
          [] \E p \in parents : p.content.state # a.targetState -> "TARGET_MISMATCH"
          [] OTHER -> "NO"

SummaryParentRefusal(tables, row) ==
    LET s == row.content
        runs == Find(tables, "runs", row.tenant, s.run)
        actions == Find(tables, "actions", row.tenant, s.action)
    IN  CASE runs = {} -> "SCORE_RUN_NOT_FOUND"
          [] actions = {} -> "REVIEW_ACTION_NOT_FOUND"
          [] \E a \in actions : a.content.kind # "runs" \/ a.content.target # s.run ->
                "REVIEW_ACTION_MISMATCH"
          [] OTHER -> "NO"

PgSavePolicy(tables, row) == PgInsert(tables, "policies", row)
PgSaveScoreRun(tables, row) == PgInsert(tables, "runs", row)
PgSaveFairness(tables, row) == PgInsert(tables, "fairness", row)
PgSaveReviewAction(tables, row) ==
    IF ActionParentRefusal(tables, row) # "NO" THEN Refused("INTEGRITY")
    ELSE PgInsert(tables, "actions", row)
PgSaveSummary(tables, row) ==
    IF SummaryParentRefusal(tables, row) # "NO" THEN Refused("INTEGRITY")
    ELSE PgInsert(tables, "summaries", row)

MemSavePolicy(tables, row) == MemPut(tables, "policies", row)
MemSaveScoreRun(tables, row) == MemPut(tables, "runs", row)
MemSaveFairness(tables, row) == MemPut(tables, "fairness", row)
MemActionParentRefusal(tables, row) == ActionParentRefusal(tables, row)
MemSaveReviewAction(tables, row) ==
    IF MemActionParentRefusal(tables, row) # "NO" THEN Refused("INTEGRITY")
    ELSE MemPut(tables, "actions", row)
MemSummaryParentRefusal(tables, row) == SummaryParentRefusal(tables, row)
MemSaveSummary(tables, row) ==
    IF MemSummaryParentRefusal(tables, row) # "NO" THEN Refused("INTEGRITY")
    ELSE MemPut(tables, "summaries", row)

SaveIn(b, kind, row) ==
    LET t == store[b] IN
    IF b = "pg"
    THEN CASE kind = "policies" -> PgSavePolicy(t, row)
           [] kind = "runs" -> PgSaveScoreRun(t, row)
           [] kind = "fairness" -> PgSaveFairness(t, row)
           [] kind = "actions" -> PgSaveReviewAction(t, row)
           [] kind = "summaries" -> PgSaveSummary(t, row)
    ELSE CASE kind = "policies" -> MemSavePolicy(t, row)
           [] kind = "runs" -> MemSaveScoreRun(t, row)
           [] kind = "fairness" -> MemSaveFairness(t, row)
           [] kind = "actions" -> MemSaveReviewAction(t, row)
           [] kind = "summaries" -> MemSaveSummary(t, row)

\* Lists show one tenant's rows that pass the filter, newest first, a page at a time.
Newest(a, b) == a.at > b.at

ListRows(tables, kind, tenant, Passes(_)) ==
    SetToSortSeq({r \in tables[kind] : r.tenant = tenant /\ Passes(r.content)}, Newest)

ListScoreRuns(tables, tenant, states) ==
    ListRows(tables, "runs", tenant, LAMBDA x : x.state \in states)
ListFairness(tables, tenant, states) ==
    ListRows(tables, "fairness", tenant, LAMBDA x : x.state \in states)
ListReviewActions(tables, tenant, states) ==
    ListRows(tables, "actions", tenant, LAMBDA x : x.state \in states)
ListSummaries(tables, tenant, states) ==
    ListRows(tables, "summaries", tenant, LAMBDA x : x.state \in states)
ListPolicies(tables, tenant, enabled) ==
    {r \in tables.policies : r.tenant = tenant /\ r.content.enabled \in enabled}

Page(rows, limit, offset) ==
    [i \in 1..Max({0, Min({limit, Len(rows) - offset})}) |-> rows[offset + i]]

-----------------------------------------------------------------------------
(* Who calls, and how a refusal is answered.                               *)

IdentityRefusal(caller) ==
    CASE caller.actor = "" -> "PM_QUALITY_TRUSTED_ACTOR_REQUIRED"
      [] caller.tenant = "" -> "PM_QUALITY_TRUSTED_TENANT_REQUIRED"
      [] caller.role = "" -> "PM_QUALITY_TRUSTED_ROLE_REQUIRED"
      [] OTHER -> "NO"

\* The actor in the body must be the trusted caller, and so must the tenant of a
\* book scope.
CallerRefusal(cmd) ==
    LET identity == IdentityRefusal(cmd.caller) IN
    CASE identity # "NO" -> identity
      [] cmd.op # "PUT_POLICY" /\ cmd.actor # cmd.caller.actor ->
            "PM_QUALITY_TRUSTED_ACTOR_MISMATCH"
      [] cmd.op = "SCORE" /\ cmd.scope \notin {"", cmd.caller.tenant} ->
            "PM_QUALITY_TRUSTED_TENANT_MISMATCH"
      [] OTHER -> "NO"

NotFoundCodes ==
    {"OUTCOME_REVIEW_NOT_FOUND", "PM_QUALITY_POLICY_NOT_FOUND",
     "PM_QUALITY_SCORE_RUN_NOT_FOUND", "PM_QUALITY_FAIRNESS_ANALYSIS_NOT_FOUND",
     "PM_QUALITY_REVIEW_ACTION_NOT_FOUND"}

ConflictCodes == {"IMMUTABLE_CONFLICT", "INTEGRITY"}

ServiceStatus(code) ==
    CASE code = "DPM_CORE_PM_BOOK_MEMBERSHIP_UNAVAILABLE" -> 503
      [] code \in {"DPM_CORE_PM_BOOK_MEMBERSHIP_EMPTY",
                   "DPM_CORE_PM_BOOK_MEMBERSHIP_INCOMPLETE"} -> 424
      [] code \in NotFoundCodes -> 404
      [] code \in ConflictCodes -> 409
      [] OTHER -> 422

Status(cmd, result) ==
    IF CallerRefusal(cmd) # "NO" THEN 403
    ELSE IF IsRefused(result) THEN ServiceStatus(result.refused)
    ELSE IF cmd.preview \/ cmd.op = "PUT_POLICY" THEN 200 ELSE 201

-----------------------------------------------------------------------------
(* The builders: what a handler makes of its command and of what it reads. *)

BuildPolicy(cmd) ==
    IF ~PolicyAdmissible(cmd.policy) THEN Refused("VALIDATION")
    ELSE IF cmd.policy.key # cmd.path THEN Refused("PM_QUALITY_POLICY_PATH_BODY_MISMATCH")
    ELSE IF cmd.policy.tenant # cmd.caller.tenant THEN Refused("PM_QUALITY_POLICY_TENANT_MISMATCH")
    ELSE Accepted(cmd.policy)

ResolvePolicy(tables, cmd) ==
    LET stored == {r \in tables.policies : r.tenant = cmd.caller.tenant
                                           /\ r.content.key = cmd.ref}
    IN  IF cmd.inline # <<>>
        THEN IF cmd.inline[1].tenant # cmd.caller.tenant
             THEN Refused("PM_QUALITY_POLICY_TENANT_MISMATCH") ELSE Accepted(cmd.inline[1])
        ELSE IF cmd.ref = "" THEN Refused("PM_QUALITY_POLICY_REFERENCE_REQUIRED")
        ELSE IF stored = {} THEN Refused("PM_QUALITY_POLICY_NOT_FOUND")
        ELSE Accepted((CHOOSE r \in stored : TRUE).content)

\* A resolver error and the reason why a membership is not ready are passed on as
\* core words them; Undated is a text that is no date.
BookScope(cmd, core) ==
    IF cmd.scope = "" THEN Accepted(<<>>)
    ELSE IF cmd.asOf = Undated THEN Refused("INVALID_AS_OF_DATE")
    ELSE CASE core = "READY" -> Accepted(<<BookScopeSignal>>)
           [] core = "UNAVAILABLE" -> Refused("DPM_CORE_PM_BOOK_MEMBERSHIP_UNAVAILABLE")
           [] core = "EMPTY" -> Refused("DPM_CORE_PM_BOOK_MEMBERSHIP_EMPTY")
           [] OTHER -> Refused(core)

BuildScoreRunFromCommand(tables, cmd, core) ==
    LET policy == ResolvePolicy(tables, cmd)
        scope == BookScope(cmd, core)
    IN  IF IsRefused(policy) THEN policy
        ELSE IF IsRefused(scope) THEN scope
        ELSE IF \E i \in DOMAIN cmd.reviews : cmd.reviews[i] \notin DOMAIN Reviews
        THEN Refused("OUTCOME_REVIEW_NOT_FOUND")
        ELSE BuildScoreRun(cmd.pm, cmd.asOf, policy.value, cmd.items \o scope.value,
                           [i \in DOMAIN cmd.reviews |-> Reviews[cmd.reviews[i]]],
                           cmd.caller.actor)

BuildFairnessFromCommand(tables, cmd, named) ==
    IF \E i \in DOMAIN named : \E j \in DOMAIN named[i] :
          Find(tables, "runs", cmd.caller.tenant, named[i][j]) = {}
    THEN Refused("PM_QUALITY_SCORE_RUN_NOT_FOUND")
    ELSE BuildFairness(cmd.ref, cmd.asOf, named, cmd.minimum, cmd.spread)

ActionState(type) ==
    CASE type = "ACKNOWLEDGE" -> "RECORDED"
      [] type = "REQUEST_EVIDENCE_REMEDIATION" -> "REVIEW_REQUIRED"
      [] type = "ESCALATE_MODEL_RISK_REVIEW" -> "ESCALATED"
      [] type \in {"ACCEPT_GOVERNANCE_EXCEPTION", "CLOSE_REVIEW"} -> "CLOSED"

\* The content of an action covers the instant it was generated.
ReviewActionOf(kind, target, type, at) ==
    [kind |-> kind, target |-> target, targetState |-> target.state, type |-> type,
     state |-> ActionState(type), at |-> at]

BuildReviewAction(tables, cmd, target, at) ==
    IF Find(tables, cmd.kind, cmd.caller.tenant, target) = {}
    THEN Refused(IF cmd.kind = "runs" THEN "PM_QUALITY_SCORE_RUN_NOT_FOUND"
                 ELSE "PM_QUALITY_FAIRNESS_ANALYSIS_NOT_FOUND")
    ELSE Accepted(ReviewActionOf(cmd.kind, target, cmd.type, at))

\* Which evidence of its workflow an invocation must and must not carry.
StateEvidenceRefusal(state, given) ==
    LET result == given \cap {"artifact", "hash"} IN
    CASE state = "REQUESTED" /\ result # {} -> "REQUESTED_RESULT_EVIDENCE_FORBIDDEN"
      [] state = "REQUESTED" /\ "failure" \in given -> "REQUESTED_FAILURE_EVIDENCE_FORBIDDEN"
      [] state # "REQUESTED" /\ "run" \notin given -> "WORKFLOW_RUN_REQUIRED"
      [] state = "COMPLETED" /\ result # {"artifact", "hash"} -> "COMPLETED_RESULT_REQUIRED"
      [] state = "COMPLETED" /\ "failure" \in given -> "COMPLETED_FAILURE_EVIDENCE_FORBIDDEN"
      [] state = "FAILED" /\ "failure" \notin given -> "FAILED_REASON_CODE_REQUIRED"
      [] state = "FAILED" /\ result # {} -> "FAILED_RESULT_EVIDENCE_FORBIDDEN"
      [] OTHER -> "NO"

SummaryRefusal(run, action, cmd) ==
    CASE action.kind # "runs" \/ action.target # run -> "REVIEW_ACTION_TARGET_MISMATCH"
      [] cmd.pack # "pm_quality_summary.pack" -> "WORKFLOW_PACK_UNSUPPORTED"
      [] "malformed hash" \in cmd.given -> "CONTENT_HASH_INVALID"
      [] StateEvidenceRefusal(cmd.state, cmd.given) # "NO" ->
            StateEvidenceRefusal(cmd.state, cmd.given)
      [] cmd.strayRefs # {} -> "SOURCE_REF_MISMATCH"
      [] OTHER -> "NO"

SummaryOf(run, action, cmd, at) ==
    [run |-> run, action |-> action, state |-> cmd.state, given |-> cmd.given, at |-> at]

BuildSummary(tables, cmd, run, action, at) ==
    IF Find(tables, "runs", cmd.caller.tenant, run) = {}
    THEN Refused("PM_QUALITY_SCORE_RUN_NOT_FOUND")
    ELSE IF Find(tables, "actions", cmd.caller.tenant, action) = {}
    THEN Refused("PM_QUALITY_REVIEW_ACTION_NOT_FOUND")
    ELSE IF SummaryRefusal(run, action, cmd) # "NO" THEN Refused(SummaryRefusal(run, action, cmd))
    ELSE Accepted(SummaryOf(run, action, cmd, at))

-----------------------------------------------------------------------------
(* The handlers.                                                           *)

\* The ids a caller knows: the records some answer has shown, or a made-up one.
Known(kind, label) ==
    {r.content : r \in {x \in replies : x.kind = kind /\ x.label = label /\ x.ok}}
        \cup {[unknown |-> label, state |-> "", kind |-> kind]}

Kind(cmd) ==
    CASE cmd.op = "PUT_POLICY" -> "policies" [] cmd.op = "SCORE" -> "runs"
      [] cmd.op = "FAIRNESS" -> "fairness" [] cmd.op = "REVIEW" -> "actions"
      [] cmd.op = "SUMMARIZE" -> "summaries"

Answer(c, cmd, results) ==
    replies' = replies \cup
        {[client |-> c, kind |-> Kind(cmd), label |-> cmd.label, preview |-> cmd.preview,
          tenant |-> cmd.caller.tenant, status |-> [b \in Backends |-> Status(cmd, results[b])],
          ok |-> ~IsRefused(results["pg"]),
          content |-> IF IsRefused(results["pg"]) THEN <<>> ELSE results["pg"].value]}

Answered(cmd, results) == cmd.preview \/ \A b \in Backends : IsRefused(results[b])

\* What the handler builds, in each deployment, from the tables it reads.
Handle(c, cmd, results) ==
    LET refusal == CallerRefusal(cmd)
        built == IF refusal = "NO" THEN results ELSE [b \in Backends |-> Refused(refusal)]
    IN  /\ IF Answered(cmd, built)
           THEN Answer(c, cmd, built) /\ calls' = [calls EXCEPT !.left[c] = Tail(@), !.clock = @ + 1]
           ELSE /\ calls' = [calls EXCEPT !.left[c] = Tail(@), !.clock = @ + 1,
                                 !.open[c] = <<[cmd |-> cmd, built |-> built, at |-> calls.clock]>>]
                /\ UNCHANGED replies
        /\ UNCHANGED store

Receives(c, op) == calls.open[c] = <<>> /\ calls.left[c] # <<>> /\ Head(calls.left[c]).op = op

put_policy(c) ==
    /\ Receives(c, "PUT_POLICY")
    /\ LET cmd == Head(calls.left[c])
       IN  Handle(c, cmd, [b \in Backends |-> BuildPolicy(cmd)])

score_run(c) ==
    /\ Receives(c, "SCORE")
    /\ LET cmd == Head(calls.left[c])
       IN  \E core \in IF cmd.scope = "" THEN {"READY"} ELSE Core :
             Handle(c, cmd, [b \in Backends |-> BuildScoreRunFromCommand(store[b], cmd, core)])

fairness_analysis(c) ==
    /\ Receives(c, "FAIRNESS")
    /\ LET cmd == Head(calls.left[c])
       IN  \E one \in Known("runs", cmd.segments[1]), two \in Known("runs", cmd.segments[2]) :
             Handle(c, cmd, [b \in Backends |->
                 BuildFairnessFromCommand(store[b], cmd, <<<<one>>, <<two>>>>)])

review_action(c) ==
    /\ Receives(c, "REVIEW")
    /\ LET cmd == Head(calls.left[c])
       IN  \E target \in Known(cmd.kind, cmd.target) :
             Handle(c, cmd, [b \in Backends |->
                 BuildReviewAction(store[b], cmd, target, calls.clock)])

summary_invocation(c) ==
    /\ Receives(c, "SUMMARIZE")
    /\ LET cmd == Head(calls.left[c])
       IN  \E run \in Known("runs", cmd.run), action \in Known("actions", cmd.action) :
             Handle(c, cmd, [b \in Backends |->
                 BuildSummary(store[b], cmd, run, action, calls.clock)])

save(c) ==
    /\ calls.open[c] # <<>>
    /\ LET call == calls.open[c][1]
           kind == Kind(call.cmd)
           saved == [b \in Backends |->
                       IF IsRefused(call.built[b]) THEN call.built[b]
                       ELSE SaveIn(b, kind, [tenant |-> call.cmd.caller.tenant, at |-> call.at,
                                             by |-> call.cmd.caller.actor,
                                             content |-> call.built[b].value])]
       IN  /\ store' = [b \in Backends |->
                           IF IsRefused(saved[b]) THEN store[b] ELSE saved[b].value]
           /\ Answer(c, call.cmd, [b \in Backends |->
                                      IF IsRefused(saved[b]) THEN saved[b] ELSE call.built[b]])
           /\ calls' = [calls EXCEPT !.open[c] = <<>>]

Next ==
    \E c \in Clients :
        \/ put_policy(c) \/ score_run(c) \/ fairness_analysis(c)
        \/ review_action(c) \/ summary_invocation(c) \/ save(c)

Spec == Init /\ [][Next]_vars

-----------------------------------------------------------------------------
(* Properties.                                                             *)

\* A score exists only under an enabled policy with a live approval, for an
\* entitled actor, and with the evidence each weight asks for; a fairness verdict
\* other than BLOCKED only compares stored, scored runs of one policy label and
\* date; every action and invocation stands on stored parents that still read as
\* they did when it was built.
EvidenceIsGrounded ==
    \A b \in Backends :
        LET t == store[b] IN
        /\ \A r \in t.runs :
              LET run == r.content IN
              run.score # NoScore =>
                  /\ run.policy.enabled /\ run.policy.governed
                  /\ run.policy.expires \in {Undated} \cup {d \in 1..99 : d >= run.asOf}
                  /\ run.policy.entitled # {} => r.by \in run.policy.entitled
                  /\ \A w \in run.policy.weights :
                        \E x \in run.results : x.indicator = w.indicator /\ x.count >= w.minimum
        /\ \A f \in t.fairness :
              f.content.state # "BLOCKED" =>
                  \A i \in DOMAIN f.content.segments : \A j \in DOMAIN f.content.segments[i] :
                      LET run == f.content.segments[i][j] IN
                      /\ Find(t, "runs", f.tenant, run) # {}
                      /\ run.score # NoScore /\ run.policy.key = f.content.key
                      /\ run.asOf = f.content.asOf
        /\ \A a \in t.actions :
              \E p \in Find(t, a.content.kind, a.tenant, a.content.target) :
                  p.content.state = a.content.targetState
        /\ \A s \in t.summaries :
              /\ Find(t, "runs", s.tenant, s.content.run) # {}
              /\ \E a \in Find(t, "actions", s.tenant, s.content.action) :
                    a.content.target = s.content.run

Contents(rows) == [i \in DOMAIN rows |-> rows[i].content]

Tenants == {r.tenant : r \in replies}

States == {"READY", "PENDING_REVIEW", "DEGRADED", "BREACHED", "BLOCKED", "DISABLED"}

\* The repositories cannot be told apart by the status of an answer, by what is
\* stored, or by the order in which the append-only ledgers are listed; and what is
\* stored is exactly what the answers to saved commands acknowledge.  The stamps of a
\* score or verdict computed again are not compared: Postgres keeps the first,
\* memory the last.
BackendsAgree ==
    /\ \A r \in replies : r.status["pg"] = r.status["mem"]
    /\ \A t \in Tenants, states \in {States, {"READY"}, {"BLOCKED"}} :
          /\ ToSet(Contents(ListScoreRuns(store["pg"], t, states)))
               = ToSet(Contents(ListScoreRuns(store["mem"], t, states)))
          /\ ToSet(Contents(ListFairness(store["pg"], t, states)))
               = ToSet(Contents(ListFairness(store["mem"], t, states)))
    /\ \A t \in Tenants, states \in {{"RECORDED", "CLOSED"}, {"REQUESTED", "COMPLETED"}} :
          /\ Page(ListReviewActions(store["pg"], t, states), 1, 1)
               = Page(ListReviewActions(store["mem"], t, states), 1, 1)
          /\ ListSummaries(store["pg"], t, states) = ListSummaries(store["mem"], t, states)
    /\ \A t \in Tenants : {r.content : r \in ListPolicies(store["pg"], t, BOOLEAN)}
                            = {r.content : r \in ListPolicies(store["mem"], t, BOOLEAN)}
    /\ \A b \in Backends, k \in Kinds :
          {<<r.tenant, r.content>> : r \in store[b][k]}
            = {<<r.tenant, r.content>> :
                  r \in {x \in replies : x.kind = k /\ ~x.preview /\ x.status[b] < 300}}

=============================================================================
