----------------------------- MODULE MCRecords ------------------------------
(***************************************************************************)
(* The governed records of the service, one component per behaviour: the   *)
(* composite stores of MCComposites (the months on the variables of        *)
(* CompositeEligibility), and the components whose handlers work on store, *)
(* calls and replies.                                                      *)
(***************************************************************************)
EXTENDS MCComposites

CONSTANTS Malformed

VARIABLES store, calls, replies,
          rows, projection, waves, restart, load, exposed

recordVars == <<store, calls, replies>>

campaignVars == <<rows, projection, waves, restart, load, exposed>>

-----------------------------------------------------------------------------
(* PM operating quality.                                                   *)

Caller(a, t) == [actor |-> a, tenant |-> t, role |-> "SUPERVISOR"]

PmPolicy(t, key) ==
    [key |-> key, tenant |-> t, enabled |-> TRUE, asOf |-> 5, governed |-> TRUE, expires |-> 5,
     entitled |-> {"ann", "bob"}, uses |-> {"supervisory_control"}, window |-> <<>>,
     weights |-> {[indicator |-> "SOURCE_QUALITY", weight |-> 1, minimum |-> 1]},
     ready |-> 8000, watch |-> 6000]

PmCommand(op, a, label) ==
    [op |-> op, caller |-> Caller(a, "t"), actor |-> a, label |-> label, preview |-> FALSE]

PutPolicy(a, policy) ==
    PmCommand("PUT_POLICY", a, "policy") @@ [path |-> "p1", policy |-> policy]

Signal(state) == [indicator |-> "SOURCE_QUALITY", state |-> state, score |-> -1, date |-> 5]

Score(a, pm, inline, states) ==
    PmCommand("SCORE", a, pm) @@
        [pm |-> pm, asOf |-> 5, inline |-> inline, ref |-> "p1", scope |-> "", reviews |-> <<>>,
         items |-> [i \in DOMAIN states |-> Signal(states[i])]]

Compare(a) ==
    PmCommand("FAIRNESS", a, "f") @@
        [ref |-> "p1", asOf |-> 5, segments |-> <<"x", "y">>, minimum |-> 1, spread |-> 2000]

ReviewOf(a, kind, target, type) ==
    PmCommand("REVIEW", a, "a") @@ [kind |-> kind, target |-> target, type |-> type]

Summarize(a, state, given) ==
    PmCommand("SUMMARIZE", a, "s") @@
        [run |-> "x", action |-> "a", state |-> state, given |-> given, strayRefs |-> {},
         pack |-> "pm_quality_summary.pack"]

Preview(cmd) == [cmd EXCEPT !.preview = TRUE]

PmWorkloads ==
    LET p1 == PmPolicy("t", "p1")
        edited == [p1 EXCEPT !.ready = 9000]
        off == [p1 EXCEPT !.enabled = FALSE]
        stale == [p1 EXCEPT !.expires = 4]
        scoped == [Score("ann", "x", <<p1>>, <<>>) EXCEPT !.scope = "t", !.reviews = <<"o1">>]
    IN  { \* a policy version is edited while it is used
          [ann |-> <<PutPolicy("ann", p1), Score("ann", "x", <<>>, <<"READY">>),
                     Score("ann", "y", <<>>, <<"PENDING_REVIEW">>), Compare("ann")>>,
           bob |-> <<PutPolicy("bob", edited), Score("bob", "x", <<>>, <<"READY">>),
                     PutPolicy("bob", [edited EXCEPT !.key = "p2"])>>],
          \* the same run twice, from two actors, then reviewed and summarized
          [ann |-> <<Score("ann", "x", <<p1>>, <<"READY", "DEGRADED">>),
                     ReviewOf("ann", "runs", "x", "ACKNOWLEDGE"),
                     Summarize("ann", "COMPLETED", {"run", "artifact", "hash"})>>,
           bob |-> <<Score("bob", "x", <<p1>>, <<"READY", "DEGRADED">>),
                     ReviewOf("bob", "runs", "x", "CLOSE_REVIEW"),
                     Summarize("bob", "REQUESTED", {})>>],
          \* previews, refused callers and refused governance
          [ann |-> <<Preview(Score("ann", "x", <<p1>>, <<"READY">>)),
                     Score("eve", "x", <<p1>>, <<"READY">>),
                     [Score("ann", "x", <<p1>>, <<"READY">>) EXCEPT !.actor = "bob"],
                     Score("ann", "x", <<stale>>, <<"READY">>),
                     Score("ann", "x", <<p1>>, <<>>),
                     [Score("ann", "x", <<>>, <<"READY">>) EXCEPT !.ref = ""]>>,
           bob |-> <<ReviewOf("bob", "runs", "x", "ACKNOWLEDGE"),
                     Score("bob", "y", <<off>>, <<"READY">>),
                     [PutPolicy("bob", p1) EXCEPT !.caller = [Caller("bob", "t") EXCEPT !.role = ""]],
                     Preview(Compare("bob"))>>],
          \* the membership of the book and an outcome review as evidence
          [ann |-> <<scoped, [scoped EXCEPT !.reviews = <<"o9">>], [scoped EXCEPT !.asOf = 0],
                     [scoped EXCEPT !.inline = <<[p1 EXCEPT !.window = <<4, 5>>]>>]>>,
           bob |-> <<PutPolicy("bob", [p1 EXCEPT !.weights = {}]),
                     [Score("bob", "y", <<[p1 EXCEPT !.tenant = "u"]>>, <<"READY">>)
                        EXCEPT !.caller = Caller("bob", "u")],
                     Compare("bob"), ReviewOf("bob", "fairness", "f", "ACKNOWLEDGE"),
                     Summarize("bob", "FAILED", {"run"})>>] }

PmReviews ==
    [o1 |-> [state |-> "READY", dimensions |-> <<"READY">>, support |-> "PENDING_REVIEW",
             handoff |-> TRUE, date |-> 5]]

PM == INSTANCE PmQuality WITH
        Clients <- {"ann", "bob"}, Workloads <- PmWorkloads, Reviews <- PmReviews,
        Core <- {"READY", "UNAVAILABLE", "EMPTY", "DPM_CORE_PM_BOOK_MEMBERSHIP_INCOMPLETE",
                 "PM_BOOK_MEMBERSHIP_INCOMPLETE"}

-----------------------------------------------------------------------------
(* Mandates and monitoring.                                                *)

MH == INSTANCE MandateHealth

Stated(t) == <<t, "plain">>

LegacyTwin(twin, producer) == [tenant |-> "t", twin |-> twin, producer |-> producer]

MdProducts(restrictions) ==
    [CLIENT_INCOME_NEEDS_SCHEDULE |-> "NOT_OFFERED", LIQUIDITY_RESERVE_REQUIREMENT |-> "READY",
     PLANNED_WITHDRAWAL_SCHEDULE |-> "READY", CLIENT_RESTRICTION_PROFILE |-> restrictions,
     SUSTAINABILITY_PREFERENCE_PROFILE |-> "READY", PORTFOLIO_CASHFLOW_PROJECTION |-> "READY",
     BENCHMARK_ASSIGNMENT |-> "READY"]

Restriction(instrument, active, buy) == [instrument |-> instrument, active |-> active, buy |-> buy]

MdCore(mandate, portfolio, version) ==
    [answer |-> "READY",
     binding |-> [mandate |-> mandate, portfolio |-> portfolio, version |-> version, objective |-> TRUE,
                  cadence |-> "ANNUAL", reviewDue |-> 0],
     products |-> MdProducts("READY"), restrictions |-> {Restriction("b", TRUE, TRUE)},
     targets |-> [a |-> 5000], inactive |-> {},
     sustainability |-> FALSE, cashflow |-> 0, modelTo |-> 0,
     coverage |-> [state |-> "READY", missing |-> FALSE, stale |-> FALSE]]

Refresh(t, core, asOf) ==
    [op |-> "REFRESH", header |-> <<t, "padded">>, tenant |-> Stated(t), core |-> core, asOf |-> asOf]

MdTwin(version, asOf, gaps) ==
    [MH!TwinOf(1, "p1", version, asOf) EXCEPT !.cashMin = 200, !.cashMax = 1000, !.turnover = 10, !.gaps = gaps]

Recalculate(t, twin) ==
    [op |-> "RECALCULATE", tenant |-> Stated(t), mandate |-> 1,
     input |-> [MH!HealthInput(twin) EXCEPT !.current = [a |-> 5000], !.target = [a |-> 5000], !.cash = 500]]

RunNow(t, asOf, ids) ==
    [op |-> "RUN_ONCE", header |-> Stated(t), tenant |-> Stated(t), asOf |-> asOf, ids |-> ids, manager |-> "",
     book |-> [types |-> {"DISCRETIONARY"}, state |-> "READY", portfolios |-> <<>>]]

RunBook(t, asOf, portfolios) ==
    [RunNow(t, asOf, <<>>) EXCEPT !.manager = "pm", !.book.portfolios = portfolios]

Resolve(t, asOf, dimension) ==
    [op |-> "RESOLVE", tenant |-> Stated(t), id |-> <<t, asOf, "p1", dimension, "">>]

MdWorkloads ==
    { \* versions past nine, observed again and out of order
      [legacy |-> {},
       commands |-> [ann |-> <<Refresh("t", MdCore(1, "p1", <<9>>), 5), Refresh("t", MdCore(1, "p1", <<1, 0>>), 5)>>,
                     bob |-> <<Refresh("t", [MdCore(1, "p1", <<0, 9>>) EXCEPT
                                  !.restrictions = {Restriction("a", TRUE, FALSE), Restriction("c", FALSE, TRUE),
                                                    Restriction("d", TRUE, TRUE)},
                                  !.targets = [a |-> 5000, c |-> 3000, d |-> 2000], !.inactive = {"d"},
                                  !.binding.cadence = "", !.binding.reviewDue = 9], 5),
                               Recalculate("t", MdTwin(<<11>>, 6, {}))>>]],
      \* two tenants with the same mandate, portfolio and date
      [legacy |-> {},
       commands |-> [ann |-> <<Refresh("t", MdCore(1, "p1", <<1>>), 5), RunNow("t", 5, <<1>>)>>,
                     bob |-> <<Refresh("u", [MdCore(1, "p1", <<1>>) EXCEPT !.targets = [b |-> 5000]], 5),
                               RunNow("u", 5, <<1>>)>>]],
      \* limits of unknown origin, recalculated and compiled anew
      [legacy |-> {LegacyTwin(MdTwin(<<1>>, 5, {MH!Ambiguous}), "LEGACY")},
       commands |-> [ann |-> <<Recalculate("t", MdTwin(<<1>>, 5, {})), Recalculate("t", MdTwin(<<1>>, 6, {MH!Ambiguous}))>>,
                     bob |-> <<Refresh("t", MdCore(1, "p1", <<1>>), 5), RunNow("t", 6, <<1, 2>>)>>]],
      \* runs over a book, exceptions resolved while they are found again
      [legacy |-> {LegacyTwin(MH!TwinOf(2, "p2", <<1>>, 5), "CALLER_SUPPLIED"),
                   LegacyTwin(MH!TwinOf(1, "p1", <<1>>, 5), "CALLER_SUPPLIED")},
       commands |-> [ann |-> <<RunNow("t", 5, <<1>>), RunBook("t", 5, <<"p1", "p2">>)>>,
                     bob |-> <<Resolve("t", 5, "CASH_LIQUIDITY"), Resolve("t", 5, "CASH_LIQUIDITY")>>]],
      \* refused requests
      [legacy |-> {},
       commands |-> [ann |-> <<[Refresh("t", MdCore(1, "p1", <<1>>), 5) EXCEPT !.tenant = Stated("u")],
                               Refresh("t", [MdCore(1, "p1", <<1>>) EXCEPT !.answer = "UNAVAILABLE"], 5),
                               Refresh("t", [MdCore(1, "p1", <<1>>) EXCEPT !.answer = "INCOMPLETE"], 5),
                               Refresh("t", [MdCore(1, "p1", <<1>>) EXCEPT !.products = MdProducts("UNAVAILABLE")], 5)>>,
                     bob |-> <<RunBook("t", 5, <<"p1">>), RunNow("t", 5, <<>>), RunBook("t", 5, <<>>),
                               [RunBook("t", 5, <<"p1">>) EXCEPT !.book.state = "DEGRADED"],
                               [Recalculate("t", MdTwin(<<1>>, 5, {})) EXCEPT !.mandate = 2]>>]] }

MD == INSTANCE Mandates WITH Clients <- {"ann", "bob"}, Workloads <- MdWorkloads, MaxCrashes <- 1

-----------------------------------------------------------------------------
(* Campaign definitions and workflow.                                      *)

CE == INSTANCE CampaignEvidence

CampaignGovernance == [approvals |-> 3, expires |-> 9, entitled |-> {"ann", "bob"}]

CampaignBody == [asOf |-> 5, eligible |-> 1, governance |-> CampaignGovernance]
OpenCampaignBody == [asOf |-> 5, eligible |-> 1, governance |-> None]

OneVersion == ("v1" :> CE!NewDefinition(CampaignBody)) @@ ("v2" :> None)

Decision(ref, type, by) ==
  [kind |-> "DECIDE", version |-> "v1", ref |-> ref, type |-> type, by |-> by]

Assignment(ref, type, by, actors, tier) ==
  [kind |-> "ASSIGN", version |-> "v1", ref |-> ref, type |-> type, by |-> by,
   actors |-> actors, tier |-> tier]

OpenTask(ref, by, actors) ==
  [kind |-> "OPEN", version |-> "v1", ref |-> ref, type |-> "ASSIGNMENT",
   by |-> by, actors |-> actors, tier |-> "PM", sla |-> "ON_TRACK",
   due |-> None]

MoveTask(ref, type, by, actors, due) ==
  [kind |-> "TRANSITION", version |-> "v1", task |-> 1, ref |-> ref,
   type |-> type, by |-> by, actors |-> actors, tier |-> None, sla |-> None,
   due |-> due]

ReviewControl(ref, action, by, submitter, reviewer, role, outcome) ==
  [kind |-> "CONTROL", version |-> "v1", ref |-> ref, action |-> action,
   by |-> by, submitter |-> submitter, reviewer |-> reviewer, role |-> role,
   outcome |-> outcome]

LaunchOf(by, date, correlation) ==
  [kind |-> "LAUNCH", version |-> "v1", by |-> by, date |-> date,
   correlation |-> correlation]

\* Launches race each other, an approval decision and a lost connection.
Launching ==
  [rows |-> OneVersion, requests |-> 5, restarts |-> 0, losses |-> 1,
   menu |-> ("c1" :> {LaunchOf("ann", 5, None), LaunchOf("ann", 5, "x")})
         @@ ("c2" :> {LaunchOf("bob", 5, None), LaunchOf("bob", 5, "y"),
                    LaunchOf("eve", 5, "z"), LaunchOf("ann", Malformed, "z"),
                    Decision(1, "APPROVED", "bob")})]

\* Submissions, assignments, reviews and exceptions, in any order.
Reviewing ==
  [rows |-> OneVersion, requests |-> 7, restarts |-> 0, losses |-> 0,
   menu |-> ("c1" :> {ReviewControl(1, "SUBMITTED_FOR_REVIEW", "ann", "ann", None, None, "PENDING"),
                    ReviewControl(2, "REVIEW_COMPLETED", "bob", "ann", "bob", "CHECKER", "FAILED"),
                    ReviewControl(3, "REVIEW_COMPLETED", "bob", "ann", "eve", "CHECKER", "PASSED"),
                    ReviewControl(4, "CONTROL_EXCEPTION_RESOLVED", "ann", None, None, None,
                            "EXCEPTION_RESOLVED")})
         @@ ("c2" :> {ReviewControl(5, "REVIEWER_ASSIGNED", "bob", None, "bob", "CHECKER", "PENDING"),
                    ReviewControl(6, "REVIEWER_ASSIGNED", "bob", None, "ann", "CHECKER", "PENDING"),
                    ReviewControl(7, "SUBMITTED_FOR_REVIEW", "bob", "bob", None, None, "PENDING"),
                    ReviewControl(8, "REVIEW_COMPLETED", "ann", "bob", "ann", None, "PASSED"),
                    ReviewControl(9, "CONTROL_EXCEPTION_RAISED", "ann", None, None, None,
                            "EXCEPTION_OPEN"),
                    ReviewControl(9, "REVIEW_COMPLETED", "ann", "ann", "ann", None, "PASSED")})]

\* One task is opened twice and moved by two clients.
Working ==
  [rows |-> OneVersion, requests |-> 7, restarts |-> 0, losses |-> 0,
   menu |-> ("c1" :> {OpenTask(1, "ann", {"ann"}), OpenTask(1, "ann", {"ann", "bob"}),
                    MoveTask(1, "STARTED", "ann", None, None),
                    MoveTask(2, "BLOCKED", "ann", None, None),
                    MoveTask(3, "RESOLVED", "ann", {}, None),
                    MoveTask(0, "OPENED", "ann", None, None)})
         @@ ("c2" :> {MoveTask(1, "ACKNOWLEDGED", "bob", None, None),
                    MoveTask(2, "UNBLOCKED", "bob", None, None),
                    MoveTask(4, "REASSIGNED", "bob", {"bob"}, None),
                    MoveTask(5, "DUE_DATE_CHANGED", "bob", None, 7),
                    MoveTask(6, "CANCELLED", "bob", None, None),
                    MoveTask(7, "REASSIGNED", "bob", {}, None)})]

\* Versions are saved, retired and superseded while evidence is added and a
\* process starts.
Closing ==
  [rows |-> OneVersion, requests |-> 4, restarts |-> 1, losses |-> 0,
   menu |-> ("c1" :> {[kind |-> "RETIRE", version |-> "v1"],
                    [kind |-> "SUPERSEDE", version |-> "v1", replacement |-> "v2"],
                    [kind |-> "PUT", version |-> "v1", body |-> CampaignBody],
                    [kind |-> "PUT", version |-> "v2", body |-> OpenCampaignBody]})
         @@ ("c2" :> {Decision(1, "APPROVED", "bob"), Decision(1, "REJECTED", "bob"),
                    Assignment(1, "ASSIGNED", "ann", {"bob"}, "PM"),
                    Assignment(2, "RESOLVED", "ann", {}, "NONE"),
                    LaunchOf("ann", 5, "x"),
                    [kind |-> "SUPERSEDE", version |-> "v2", replacement |-> "v1"],
                    [kind |-> "RETIRE", version |-> "v1"],
                    [kind |-> "RETIRE", version |-> "v2"]})]

CampaignWorkloads ==
  [launching |-> Launching, reviewing |-> Reviewing, working |-> Working,
   closing |-> Closing]

CA == INSTANCE Campaigns WITH
        Clients <- {"c1", "c2"}, Versions <- {"v1", "v2"}, Workloads <- CampaignWorkloads, answers <- replies

-----------------------------------------------------------------------------
RecordsAtRest == store = None /\ calls = None /\ replies = None

CampaignsAtRest ==
    /\ rows = None /\ projection = None /\ waves = None
    /\ restart = None /\ load = None /\ exposed = None

RecordsInit ==
    \/ CompositesInit /\ RecordsAtRest /\ CampaignsAtRest
    \/ part = "pm" /\ PM!Init /\ FeedAtRest /\ MonthsAtRest /\ CampaignsAtRest
    \/ part = "mandates" /\ MD!Init /\ FeedAtRest /\ MonthsAtRest /\ CampaignsAtRest
    \/ part = "campaigns" /\ CA!Init /\ FeedAtRest /\ MonthsAtRest /\ store = None

CompositeStep == CompositesNext /\ UNCHANGED <<recordVars, campaignVars>>

PmQualityStep == part = "pm" /\ PM!Next /\ UNCHANGED <<part, feedVars, vars, campaignVars>>

MandateStep == part = "mandates" /\ MD!Next /\ UNCHANGED <<part, feedVars, vars, campaignVars>>

CampaignStep == part = "campaigns" /\ CA!Next /\ UNCHANGED <<part, feedVars, vars, store>>

RecordsNext == CompositeStep \/ PmQualityStep \/ MandateStep \/ CampaignStep

RecordsSpec == RecordsInit /\ [][RecordsNext]_<<part, feedVars, vars, recordVars, campaignVars>>

-----------------------------------------------------------------------------
\* What was acknowledged is stored and stays: a revision is published exactly
\* once, a command sent twice or by two clients at once gets the one stored
\* record, and no request, restart or lost connection takes a campaign's
\* evidence away (CompositePublication, CompositeEligibility, Campaigns).
AcknowledgedIsKept ==
    /\ part = "feed" => F!RevisionsPublishedOnce /\ F!AnswersAreStored
    /\ part = "months" => AnswersAreRetained
    /\ part = "campaigns" => CA!AcknowledgedIsKept

\* What is decided rests on evidence: a score, verdict or invocation on live
\* governance and stored parents, a monitoring run on what it assessed for its
\* own tenant, a campaign launch on the one wave its key created, a review on
\* somebody else's submission and a task on a legal story (PmQuality, Mandates,
\* Campaigns).
EvidenceIsGrounded ==
    /\ part = "pm" => PM!EvidenceIsGrounded
    /\ part = "mandates" => MD!RunsAreGrounded /\ MD!TenantsAreSeparate
    /\ part = "campaigns" => CA!LaunchesAreAudited /\ CA!LedgersAreLegal

\* A consumer that moved its cursor past a number has seen every publication up
\* to it, reads find the newest mandate, and the workflow read model of a
\* campaign is the one its document has (CompositePublication, Mandates,
\* Campaigns).
ReadersMissNothing ==
    /\ part = "feed" => F!FeedMissesNothing
    /\ part = "mandates" => MD!LatestIsNewest
    /\ part = "campaigns" => CA!ReadModelAgrees

\* PostgreSQL and in-memory deployments answer alike (PmQuality, Mandates).
BackendsAgree ==
    /\ part = "pm" => PM!BackendsAgree
    /\ part = "mandates" => MD!BackendsAgree

\* Limits of unknown origin are kept until core compiles the mandate anew (Mandates).
AmbiguousIsRetained == [][part = "mandates" => MD!KeepsAmbiguous]_<<part, recordVars>>

=============================================================================
