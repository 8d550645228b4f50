------------------------- MODULE ConstructionPacks --------------------------
(***************************************************************************)
(* Construction alternative sets and the pre-trade proof packs made from   *)
(* them: the requests that generate, select and read alternatives and      *)
(* packs, over the Postgres and the in-memory repositories side by side.   *)
(*                                                                         *)
(* A set is generated under a guard on its idempotency key, but every run  *)
(* it needs is recorded before the set is saved.  A pack is built from     *)
(* what is read first, saved after two checks Postgres makes in statements *)
(* of their own, and handed off by references read before they are         *)
(* appended.  Times are ticks of one clock; a pack's content hash is its   *)
(* content, which includes the time it was generated at.                   *)
(***************************************************************************)
EXTENDS ProofPackSections, TLC

CONSTANTS Workloads,  \* what the clients ask for: [runs, todo, losses], losses bounding the crashes
          Mandates    \* <<tenant, mandate>> -> the twin and the health the mandate store holds

VARIABLES store,    \* per backend: runs, sets, keys, selections, packs, packKeys, refs
          calls,    \* [todo, flight, losses, clock]
          replies   \* client -> what it was answered, in order

Backends == {"pg", "mem"}

With(f, key, value) == (key :> value) @@ f

-----------------------------------------------------------------------------
(* Runs                                                                    *)

ApplySourceLineage(result, source) == [result EXCEPT !.lineage = source.state]

\* The methods a request runs, in the order it runs them.
MethodRuns(command) ==
    <<"HEURISTIC_EXPLAINABLE">>
        \o SelectSeq([i \in DOMAIN command.methods |-> ResolveMethodPlan(command.methods[i], command.solver).effective],
                     LAMBDA m : m \notin {"DO_NOTHING_BASELINE", "HEURISTIC_EXPLAINABLE"})

\* A caller's correlation id is the same on a retry; otherwise one is made up.
ConstructionMethodCorrelationId(command, method, at) == <<IF command.correlation = 0 THEN at ELSE command.correlation, method>>

\* The run of a method, simulated with the options of the method.
RunConstructionMethod(command, method, id) ==
    ApplySourceLineage([command.results[method] EXCEPT !.id = id] @@ [options |-> OptionsForConstructionMethod(command.request.options, method)],
                       command.source)

\* What is recorded is the result under the client's restriction policy.
RunRow(command, method, id, at) ==
    ApplyClientRestrictionPolicy(command.request, RunConstructionMethod(command, method, id), command.source)
        @@ [tenant |-> command.tenant, portfolio |-> command.request.portfolio, at |-> at, decisions |-> <<>>,
            correlation |-> ConstructionMethodCorrelationId(command, method, at)]

RunId(at, position) == 16 * at + position

RunRows(command, at) ==
    LET methods == MethodRuns(command) IN [i \in DOMAIN methods |-> RunRow(command, methods[i], RunId(at, i), at)]

\* A correlation id is unique for a tenant in Postgres.
PgSaveRun(runs, row) ==
    IF \E id \in DOMAIN runs : runs[id].tenant = row.tenant /\ runs[id].correlation = row.correlation
    THEN [runs |-> runs, ok |-> FALSE]
    ELSE [runs |-> With(runs, row.id, row), ok |-> TRUE]

MemSaveRun(runs, row) == [runs |-> With(runs, row.id, row), ok |-> TRUE]

SaveRun(b, runs, row) == CASE b = "pg" -> PgSaveRun(runs, row) [] b = "mem" -> MemSaveRun(runs, row)

\* Each run is committed on its own; the first refusal ends the request.
RecordRuns(b, runs, rows) ==
    FoldLeft(LAMBDA done, row : IF done.ok THEN SaveRun(b, done.runs, row) ELSE done, [runs |-> runs, ok |-> TRUE], rows)

-----------------------------------------------------------------------------
(* Alternative sets                                                        *)

RiskMethods == {"RISK_AWARE", "REGIME_STRESS_AWARE"}

\* What makes two requests the same; the contexts a caller supplies are not part of it.
ConstructionRequestHash(command) ==
    [request |-> command.request, methods |-> command.methods, source |-> command.source, tenant |-> command.tenant,
     authority |-> IF \E i \in DOMAIN command.methods : command.methods[i] \in RiskMethods THEN command.authority.print ELSE 0]

BuildConstructionAlternatives(command, results, context) ==
    [i \in DOMAIN command.methods |->
        BuildConstructionAlternativeForMethod(command.request, command.methods[i], results, context, command.solver, command.risk)]

BuildAlternativeSet(alternatives) ==
    [alternatives |-> alternatives, status |-> LowestStatus({alternatives[i].status : i \in DOMAIN alternatives})]

AlternativeSetLineageFields(command) ==
    [hash |-> ConstructionRequestHash(command), mode |-> IF command.source = NoSource THEN "stateless" ELSE "stateful",
     support |-> command.source.state]

BuildPersistableAlternativeSet(command, at) ==
    LET methods == MethodRuns(command)
        position(m) == CHOOSE i \in DOMAIN methods : methods[i] = m
        results == [m \in {methods[i] : i \in DOMAIN methods} |-> RunConstructionMethod(command, m, RunId(at, position(m)))]
        context == AuthorityContextWithSourceProducts(command.context, command.source)
    IN BuildAlternativeSet(BuildConstructionAlternatives(command, results, context)) @@ AlternativeSetLineageFields(command)
           @@ [id |-> at, tenant |-> command.tenant, portfolio |-> command.request.portfolio, at |-> at]

\* An insert that conflicts does nothing, and the set under the key answers.
PgSaveAlternativeSet(s, set, key) ==
    IF key \notin DOMAIN s.keys /\ set.id \notin DOMAIN s.sets
    THEN [s |-> [s EXCEPT !.sets = With(@, set.id, set), !.keys = With(@, key, set.id)], result |-> Accepted(set)]
    ELSE IF key \in DOMAIN s.keys THEN [s |-> s, result |-> Accepted(s.sets[s.keys[key]])]
    ELSE [s |-> s, result |-> Refused("409")]

MemSaveAlternativeSet(s, set, key) ==
    IF key \in DOMAIN s.keys THEN [s |-> s, result |-> Accepted(s.sets[s.keys[key]])]
    ELSE IF set.id \in DOMAIN s.sets THEN [s |-> s, result |-> Refused("409")]
    ELSE [s |-> [s EXCEPT !.sets = With(@, set.id, set), !.keys = With(@, key, set.id)], result |-> Accepted(set)]

SaveAlternativeSet(b, s, set, key) ==
    CASE b = "pg" -> PgSaveAlternativeSet(s, set, key) [] b = "mem" -> MemSaveAlternativeSet(s, set, key)

\* A key names a set of its own tenant.
PgGetAlternativeSetByIdempotency(s, key) == IF key \in DOMAIN s.keys THEN s.sets[s.keys[key]] ELSE NoContext

MemGetAlternativeSetByIdempotency(s, key) == IF key \in DOMAIN s.keys THEN s.sets[s.keys[key]] ELSE NoContext

GetAlternativeSetByIdempotency(b, s, key) ==
    CASE b = "pg" -> PgGetAlternativeSetByIdempotency(s, key) [] b = "mem" -> MemGetAlternativeSetByIdempotency(s, key)

PgGetAlternativeSet(s, id, tenant) == IF id \in DOMAIN s.sets /\ s.sets[id].tenant = tenant THEN s.sets[id] ELSE NoContext

MemGetAlternativeSet(s, id, tenant) == IF id \in DOMAIN s.sets /\ s.sets[id].tenant = tenant THEN s.sets[id] ELSE NoContext

GetAlternativeSet(b, s, id, tenant) ==
    CASE b = "pg" -> PgGetAlternativeSet(s, id, tenant) [] b = "mem" -> MemGetAlternativeSet(s, id, tenant)

\* Before anything runs: whose authority it is, and what the key already names.
ResolveExistingConstructionAlternativeSet(b, s, command) ==
    LET existing == GetAlternativeSetByIdempotency(b, s, <<command.tenant, command.key>>)
    IN IF Given(command.authority) /\ command.authority.tenant # command.tenant THEN Refused("409")
       ELSE IF ~Given(existing) THEN Accepted(NoContext)
       ELSE IF existing.hash # ConstructionRequestHash(command) THEN Refused("409")
       ELSE Accepted(existing)

-----------------------------------------------------------------------------
(* Selections                                                              *)

AlternativeIn(set, method) ==
    LET found == SelectSeq(set.alternatives, LAMBDA a : a.method = method) IN IF found = <<>> THEN NoContext ELSE found[1]

BuildConstructionSelection(set, command, at) ==
    LET alternative == AlternativeIn(set, command.method)
    IN IF ~Given(alternative) THEN Refused("404")
       ELSE IF alternative.status = "BLOCKED" THEN Refused("422")
       ELSE Accepted([status |-> "SELECTED", tenant |-> set.tenant, set |-> set.id, method |-> command.method,
                      actor |-> command.actor, at |-> at])

\* The last selection of a set is the one that stands.
PgSaveSelection(s, selection) ==
    IF /\ selection.set \in DOMAIN s.sets /\ s.sets[selection.set].tenant = selection.tenant
       /\ selection.set \in DOMAIN s.selections => s.selections[selection.set].tenant = selection.tenant
    THEN [s |-> [s EXCEPT !.selections = With(@, selection.set, selection)], result |-> Accepted(selection)]
    ELSE [s |-> s, result |-> Refused("404")]

MemSaveSelection(s, selection) ==
    IF selection.set \notin DOMAIN s.sets \/ s.sets[selection.set].tenant # selection.tenant THEN [s |-> s, result |-> Refused("404")]
    ELSE IF selection.set \in DOMAIN s.selections /\ s.selections[selection.set].tenant # selection.tenant
         THEN [s |-> s, result |-> Refused("404")]
    ELSE [s |-> [s EXCEPT !.selections = With(@, selection.set, selection)], result |-> Accepted(selection)]

SaveSelection(b, s, selection) == CASE b = "pg" -> PgSaveSelection(s, selection) [] b = "mem" -> MemSaveSelection(s, selection)

GetSelection(s, set, tenant) ==
    IF set \in DOMAIN s.selections /\ s.selections[set].tenant = tenant THEN s.selections[set] ELSE NoContext

SelectConstructionAlternative(b, s, command, id, at) ==
    LET set == GetAlternativeSet(b, s, id, command.tenant)
        selection == IF Given(set) THEN BuildConstructionSelection(set, command, at) ELSE Refused("404")
    IN IF IsRefused(selection) THEN [s |-> s, result |-> selection] ELSE SaveSelection(b, s, selection.value)

-----------------------------------------------------------------------------
(* Proof packs                                                             *)

ProofPackIdempotencyMappingKey(command) == <<command.tenant, command.key>>

\* A pack is made from a run, or from one alternative of a set.
SourceOf(command, set, run) ==
    IF command.source = "REBALANCE_RUN" THEN <<"run", run, "NONE">> ELSE <<"alternative", set, command.method>>

GetProofPack(s, id, tenant) == IF id \in DOMAIN s.packs /\ s.packs[id].tenant = tenant THEN s.packs[id] ELSE NoContext

GetProofPackByIdempotency(s, key, tenant) ==
    IF key \in DOMAIN s.packKeys THEN GetProofPack(s, s.packKeys[key], tenant) ELSE NoContext

\* A pack that takes no action has no run of its own.
RequireEconomicSource(pack) == IF IsNoActionProofPack(pack) /\ pack.run # 0 THEN Refused("404") ELSE Accepted(pack)

\* The pack the key names answers, whatever is asked for; then the pack of the source.
FindReplayableProofPack(s, command, id) ==
    LET named == GetProofPackByIdempotency(s, ProofPackIdempotencyMappingKey(command), command.tenant)
        made == GetProofPack(s, id, command.tenant)
    IN IF Given(named) THEN RequireEconomicSource(named)
       ELSE IF Given(made) THEN RequireEconomicSource(made)
       ELSE Accepted(NoContext)

NoMandateEvidence == [twin |-> NoContext, health |-> NoContext, gaps |-> {}]

ResolveMandateEvidence(mandate, portfolio, tenant) ==
    IF <<tenant, mandate>> \notin DOMAIN Mandates THEN NoMandateEvidence
    ELSE LET held == Mandates[<<tenant, mandate>>]
         IN IF held.twin.portfolio # portfolio THEN [NoMandateEvidence EXCEPT !.gaps = {"DPM_MANDATE_TWIN_PORTFOLIO_MISMATCH"}]
            ELSE [twin |-> held.twin, health |-> held.health, gaps |-> {}]

EvidenceFor(command, run, set, alternative, selection) ==
    [run |-> run, set |-> set, alternative |-> alternative, selection |-> selection, reason |-> command.reason,
     mandate |-> command.mandate, regime |-> command.regime, actor |-> command.actor]
        @@ ResolveMandateEvidence(command.mandate, IF Given(set) THEN set.portfolio ELSE run.portfolio, command.tenant)

\* A run is looked up by its id.
GenerateProofPackFromRun(s, command, id, run, at) ==
    IF run \notin DOMAIN s.runs THEN Refused("404")
    ELSE Accepted(BuildProofPack(EvidenceFor(command, s.runs[run], NoContext, NoContext, NoContext), id, command.tenant, at))

\* The run of an alternative; one that is gone, or takes no action, is none.
RunOfAlternative(s, alternative, tenant) ==
    IF /\ alternative.method # "DO_NOTHING_BASELINE" /\ alternative.run \in DOMAIN s.runs
       /\ s.runs[alternative.run].tenant = tenant
    THEN s.runs[alternative.run]
    ELSE NoContext

\* A set nobody selected from may be packed; one with a selection only as selected.
GenerateProofPackFromSelectedAlternative(b, s, command, id, set, at) ==
    LET owned == GetAlternativeSet(b, s, set, command.tenant)
        alternative == AlternativeIn(owned, command.method)
        selection == GetSelection(s, set, command.tenant)
    IN IF ~Given(owned) THEN Refused("404")
       ELSE IF ~Given(alternative) THEN Refused("404")
       ELSE IF Given(selection) /\ selection.method # command.method THEN Refused("404")
       ELSE Accepted(BuildProofPack(EvidenceFor(command, RunOfAlternative(s, alternative, command.tenant), owned, alternative,
                                                selection), id, command.tenant, at))

\* What a request to generate finds or builds before it saves: [step, result].
GenerateInitialProofPack(b, s, command, set, run, at) ==
    LET id == ProofPackIdFor(command.tenant, SourceOf(command, set, run))
        found == FindReplayableProofPack(s, command, id)
    IN IF \/ command.source = "REBALANCE_RUN" /\ run = 0
          \/ command.source = "SELECTED_ALTERNATIVE" /\ (set = 0 \/ command.method = "NONE")
       THEN [step |-> "FOUND", result |-> Refused("422")]
       ELSE IF IsRefused(found) \/ Given(found.value) THEN [step |-> "FOUND", result |-> found]
       ELSE [step |-> "BUILT",
             result |-> IF command.source = "REBALANCE_RUN" THEN GenerateProofPackFromRun(s, command, id, run, at)
                        ELSE GenerateProofPackFromSelectedAlternative(b, s, command, id, set, at)]

\* The two checks Postgres makes before it inserts.
PgCheckProofPack(s, pack, key) ==
    IF pack.id \in DOMAIN s.packs /\ s.packs[pack.id] # pack THEN Refused("409")
    ELSE IF key \in DOMAIN s.packKeys /\ s.packKeys[key] # pack.id THEN Refused("409")
    ELSE Accepted(pack)

\* The insert keeps the pack already there; a key taken since is a driver error.
PgInsertProofPack(s, pack, key) ==
    IF pack.id \in DOMAIN s.packs THEN [s |-> s, result |-> Accepted(pack)]
    ELSE IF key \in DOMAIN s.packKeys THEN [s |-> s, result |-> Refused("500")]
    ELSE [s |-> [s EXCEPT !.packs = With(@, pack.id, pack), !.packKeys = With(@, key, pack.id)], result |-> Accepted(pack)]

\* The in-memory repository checks and keeps under one lock.
MemSaveProofPack(s, pack, key) ==
    IF pack.id \in DOMAIN s.packs /\ s.packs[pack.id] # pack THEN [s |-> s, result |-> Refused("409")]
    ELSE IF key \in DOMAIN s.packKeys /\ s.packKeys[key] # pack.id THEN [s |-> s, result |-> Refused("409")]
    ELSE [s |-> [s EXCEPT !.packs = With(@, pack.id, pack), !.packKeys = With(@, key, pack.id)], result |-> Accepted(pack)]

CheckProofPack(b, s, pack, key) == CASE b = "pg" -> PgCheckProofPack(s, pack, key) [] b = "mem" -> Accepted(pack)

SaveProofPack(b, s, pack, key) ==
    CASE b = "pg" -> PgInsertProofPack(s, pack, key) [] b = "mem" -> MemSaveProofPack(s, pack, key)

PackMatches(pack, filter) ==
    /\ filter.portfolio \in {"ANY", pack.portfolio}
    /\ filter.mandate \in {0, pack.mandate}
    /\ filter.status \in {"ANY", pack.status}

\* A tenant's packs that match, newest first, one page of them.
ListProofPacks(s, tenant, filter) ==
    LET matched == {id \in DOMAIN s.packs : s.packs[id].tenant = tenant /\ PackMatches(s.packs[id], filter)}
        newest == SetToSortSeq(matched, LAMBDA x, y : s.packs[x].at > s.packs[y].at)
        last == IF filter.offset + filter.limit < Len(newest) THEN filter.offset + filter.limit ELSE Len(newest)
    IN IF filter.offset >= last THEN <<>> ELSE [i \in 1..(last - filter.offset) |-> s.packs[newest[filter.offset + i]]]

-----------------------------------------------------------------------------
(* References to what is handed off                                        *)

RefTypes == {"DPM_PROOF_PACK_REPORT_INPUT", "DPM_PROOF_PACK_AI_EVIDENCE_INPUT"}

NoRef == [type |-> "NONE", of |-> 0]

\* A report or evidence input stands for the whole content of its pack.
BuildReportInput(pack) == [type |-> "DPM_PROOF_PACK_REPORT_INPUT", of |-> pack.at]

BuildAiEvidenceInput(pack) == [type |-> "DPM_PROOF_PACK_AI_EVIDENCE_INPUT", of |-> pack.at]

InputOf(type, pack) ==
    CASE type = "DPM_PROOF_PACK_REPORT_INPUT" -> BuildReportInput(pack)
      [] type = "DPM_PROOF_PACK_AI_EVIDENCE_INPUT" -> BuildAiEvidenceInput(pack)

ListRefs(s, id) == IF id \in DOMAIN s.refs THEN s.refs[id] ELSE <<>>

FindStoredRef(s, id, type) ==
    LET stored == SelectSeq(ListRefs(s, id), LAMBDA r : r.type = type) IN IF stored = <<>> THEN NoRef ELSE Last(stored)

\* Nothing is appended over a latest reference of the same content.
NeedsRef(s, pack, type) == FindStoredRef(s, pack.id, type) # InputOf(type, pack)

AppendRef(s, pack, type) ==
    IF pack.id \notin DOMAIN s.packs THEN s
    ELSE [s EXCEPT !.refs = With(@, pack.id, Append(ListRefs(s, pack.id), InputOf(type, pack)))]

HydrateHandoffRefs(s, pack) ==
    [pack |-> pack, report |-> FindStoredRef(s, pack.id, "DPM_PROOF_PACK_REPORT_INPUT"),
     ai |-> FindStoredRef(s, pack.id, "DPM_PROOF_PACK_AI_EVIDENCE_INPUT")]

-----------------------------------------------------------------------------
(* Requests                                                                *)

Idle == [state |-> "IDLE"]

Empty == <<>>

Init ==
    \E workload \in Workloads :
        /\ store = [b \in Backends |-> [runs |-> workload.runs, sets |-> Empty, keys |-> Empty, selections |-> Empty,
                                        packs |-> Empty, packKeys |-> Empty, refs |-> Empty]]
        /\ calls = [todo |-> workload.todo, flight |-> [c \in DOMAIN workload.todo |-> Idle], losses |-> workload.losses, clock |-> 1]
        /\ replies = [c \in DOMAIN workload.todo |-> <<>>]

Waiting(c, op) == calls.todo[c] # <<>> /\ Head(calls.todo[c]).op = op /\ calls.flight[c] = Idle

InFlight(c, state) == calls.flight[c].state = state

Answered(c, results) ==
    /\ replies' = [replies EXCEPT ![c] = Append(@, [command |-> Head(calls.todo[c]), results |-> results])]
    /\ calls' = [calls EXCEPT !.todo[c] = Tail(@), !.flight[c] = Idle, !.clock = @ + 1]

Continues(c, flight) == calls' = [calls EXCEPT !.flight[c] = flight, !.clock = @ + 1] /\ UNCHANGED replies

\* The identities a client knows: the set its key was answered with, a run of it.
KnownSet(command) == IF command.of \in DOMAIN store["mem"].keys THEN store["mem"].keys[command.of] ELSE 0

KnownRun(command) ==
    LET set == KnownSet(command)
        alternative == IF set = 0 THEN NoContext ELSE AlternativeIn(store["mem"].sets[set], command.method)
    IN IF command.run = 0 /\ Given(alternative) THEN alternative.run ELSE command.run

Guarded(command) ==
    \E d \in DOMAIN calls.flight :
        InFlight(d, "CONSTRUCTING") /\ Head(calls.todo[d]).tenant = command.tenant /\ Head(calls.todo[d]).key = command.key

\* Under the guard of its key: what is there, or every run the set needs.
AdmitConstruction(c) ==
    /\ Waiting(c, "construct")
    /\ LET command == Head(calls.todo[c])
           at == calls.clock
           existing == [b \in Backends |-> ResolveExistingConstructionAlternativeSet(b, store[b], command)]
           fresh == [b \in Backends |-> ~IsRefused(existing[b]) /\ ~Given(existing[b].value)]
       IN /\ ~Guarded(command)
          /\ \E rows \in {IF \E b \in Backends : fresh[b] THEN RunRows(command, at) ELSE <<>>} :
             \E recorded \in {[b \in Backends |-> IF fresh[b] THEN RecordRuns(b, store[b].runs, rows) ELSE [runs |-> store[b].runs, ok |-> TRUE]]} :
                /\ store' = [b \in Backends |-> [store[b] EXCEPT !.runs = recorded[b].runs]]
                /\ Continues(c, [state |-> "CONSTRUCTING", at |-> at, fresh |-> fresh, existing |-> existing,
                                 ok |-> [b \in Backends |-> recorded[b].ok]])

\* The set is saved once its runs are; the guard is released.
SaveConstruction(c) ==
    /\ InFlight(c, "CONSTRUCTING")
    /\ LET command == Head(calls.todo[c])
           flight == calls.flight[c]
       IN \E set \in {IF \E b \in Backends : flight.fresh[b] THEN BuildPersistableAlternativeSet(command, flight.at) ELSE NoContext} :
          \E saved \in {[b \in Backends |->
                            IF ~flight.fresh[b] THEN [s |-> store[b], result |-> flight.existing[b]]
                            ELSE IF ~flight.ok[b] THEN [s |-> store[b], result |-> Refused("500")]
                            ELSE SaveAlternativeSet(b, store[b], set, <<command.tenant, command.key>>)]} :
             /\ store' = [b \in Backends |-> saved[b].s]
             /\ Answered(c, [b \in Backends |-> saved[b].result])

\* A crash keeps the runs recorded so far and releases the guard; the client asks again.
CrashConstruction(c) ==
    /\ InFlight(c, "CONSTRUCTING")
    /\ calls.losses > 0
    /\ calls' = [calls EXCEPT !.flight[c] = Idle, !.losses = @ - 1]
    /\ UNCHANGED <<store, replies>>

SelectAlternative(c) ==
    /\ Waiting(c, "select")
    /\ LET command == Head(calls.todo[c])
           done == [b \in Backends |-> SelectConstructionAlternative(b, store[b], command, KnownSet(command), calls.clock)]
       IN store' = [b \in Backends |-> done[b].s] /\ Answered(c, [b \in Backends |-> done[b].result])

ReadAlternativeSet(c) ==
    /\ Waiting(c, "readSet")
    /\ LET command == Head(calls.todo[c])
           set == [b \in Backends |-> GetAlternativeSet(b, store[b], KnownSet(command), command.tenant)]
       IN Answered(c, [b \in Backends |-> IF Given(set[b]) THEN Accepted(set[b]) ELSE Refused("404")])
    /\ UNCHANGED store

\* Everything a new pack is built from is read before it is saved.
PrepareProofPack(c) ==
    /\ Waiting(c, "pack")
    /\ LET command == Head(calls.todo[c])
       IN \E prepared \in {[b \in Backends |->
                               GenerateInitialProofPack(b, store[b], command, KnownSet(command), KnownRun(command), calls.clock)]} :
             Continues(c, [state |-> "PREPARED", pack |-> prepared])
    /\ UNCHANGED store

\* Postgres makes its checks; the in-memory repository makes them as it saves.
CheckPack(c) ==
    /\ InFlight(c, "PREPARED")
    /\ LET key == ProofPackIdempotencyMappingKey(Head(calls.todo[c]))
           check(b, p) == IF p.step = "FOUND" \/ IsRefused(p.result) THEN p.result ELSE CheckProofPack(b, store[b], p.result.value, key)
           pack == calls.flight[c].pack
       IN Continues(c, [state |-> "CHECKED", pack |-> [b \in Backends |-> [pack[b] EXCEPT !.result = check(b, pack[b])]]])
    /\ UNCHANGED store

StorePack(c) ==
    /\ InFlight(c, "CHECKED")
    /\ LET key == ProofPackIdempotencyMappingKey(Head(calls.todo[c]))
           pack == calls.flight[c].pack
           saved == [b \in Backends |-> IF pack[b].step = "FOUND" \/ IsRefused(pack[b].result) THEN [s |-> store[b], result |-> pack[b].result]
                                        ELSE SaveProofPack(b, store[b], pack[b].result.value, key)]
       IN /\ store' = [b \in Backends |-> saved[b].s]
          /\ Continues(c, [state |-> "STORED", pack |-> [b \in Backends |-> saved[b].result], wanted |-> Head(calls.todo[c]).wanted])

\* Whether a reference is missing is read first.
ReadHandoffRef(c) ==
    /\ InFlight(c, "STORED")
    /\ calls.flight[c].wanted # <<>>
    /\ LET flight == calls.flight[c]
           missing(b) == ~IsRefused(flight.pack[b]) /\ NeedsRef(store[b], flight.pack[b].value, Head(flight.wanted))
       IN Continues(c, [state |-> "HANDING_OFF", pack |-> flight.pack, wanted |-> flight.wanted, missing |-> [b \in Backends |-> missing(b)]])
    /\ UNCHANGED store

AppendHandoffRef(c) ==
    /\ InFlight(c, "HANDING_OFF")
    /\ LET flight == calls.flight[c]
       IN /\ store' = [b \in Backends |-> IF flight.missing[b] THEN AppendRef(store[b], flight.pack[b].value, Head(flight.wanted)) ELSE store[b]]
          /\ Continues(c, [state |-> "STORED", pack |-> flight.pack, wanted |-> Tail(flight.wanted)])

\* The answer shows the latest reference of each kind.
AnswerProofPack(c) ==
    /\ InFlight(c, "STORED")
    /\ calls.flight[c].wanted = <<>>
    /\ LET pack == calls.flight[c].pack
       IN Answered(c, [b \in Backends |-> IF IsRefused(pack[b]) THEN pack[b] ELSE Accepted(HydrateHandoffRefs(store[b], pack[b].value))])
    /\ UNCHANGED store

\* A crash before the answer; the client asks again.
CrashPack(c) ==
    /\ calls.flight[c].state \in {"PREPARED", "CHECKED", "STORED", "HANDING_OFF"}
    /\ calls.losses > 0
    /\ calls' = [calls EXCEPT !.flight[c] = Idle, !.losses = @ - 1]
    /\ UNCHANGED <<store, replies>>

PackRead(b, command) ==
    GetProofPack(store[b], ProofPackIdFor(command.owner, SourceOf(command, KnownSet(command), KnownRun(command))), command.tenant)

\* The pack, its summary, and the inputs made from it.
ReadProofPack(c) ==
    /\ Waiting(c, "readPack")
    /\ LET command == Head(calls.todo[c])
           view(b, pack) == IF command.view \in RefTypes THEN [pack |-> pack, input |-> InputOf(command.view, pack)]
                            ELSE HydrateHandoffRefs(store[b], pack)
       IN Answered(c, [b \in Backends |-> IF Given(PackRead(b, command)) THEN Accepted(view(b, PackRead(b, command))) ELSE Refused("404")])
    /\ UNCHANGED store

SearchProofPacks(c) ==
    /\ Waiting(c, "listPacks")
    /\ Answered(c, [b \in Backends |-> Accepted(ListProofPacks(store[b], Head(calls.todo[c]).tenant, Head(calls.todo[c])))])
    /\ UNCHANGED store

Next ==
    \E c \in DOMAIN calls.todo :
        \/ AdmitConstruction(c) \/ SaveConstruction(c) \/ CrashConstruction(c)
        \/ SelectAlternative(c) \/ ReadAlternativeSet(c)
        \/ PrepareProofPack(c) \/ CheckPack(c) \/ StorePack(c) \/ ReadHandoffRef(c) \/ AppendHandoffRef(c)
        \/ AnswerProofPack(c) \/ CrashPack(c)
        \/ ReadProofPack(c) \/ SearchProofPacks(c)

-----------------------------------------------------------------------------
(* Properties                                                              *)

Economic(b) ==
    UNION {{[set |-> store[b].sets[id], a |-> store[b].sets[id].alternatives[i], run |-> store[b].runs[store[b].sets[id].alternatives[i].run]] :
               i \in {j \in DOMAIN store[b].sets[id].alternatives : store[b].sets[id].alternatives[j].run # 0}} : id \in DOMAIN store[b].sets}

\* The rules of the client in force for a trade of an alternative.
InForce(e, trade) ==
    {rule \in e.a.context.restriction.rules :
        /\ rule.active /\ trade.side \in rule.sides /\ ~(e.a.context.restriction.asOf < rule.from)
        /\ rule.to = NoValue \/ ~(e.a.context.restriction.asOf > rule.to)}

\* What a rule names, and what is known of an instrument.
Scope(rule) == <<rule.instruments, rule.classes, rule.issuers, rule.countries>>

Facts(e, instrument) ==
    LET shelf == e.set.hash.request.shelf
    IN IF instrument \in DOMAIN shelf THEN <<instrument, shelf[instrument].class, shelf[instrument].issuer, shelf[instrument].country>>
       ELSE <<instrument, "", "", "">>

Forbids(rule, facts) ==
    \/ \A k \in 1..4 : Scope(rule)[k] = {}
    \/ \E k \in 1..4 : facts[k] # "" /\ facts[k] \in Scope(rule)[k]

\* Nothing that could make the rule apply is unknown.
Decides(rule, facts) == \A k \in 2..4 : Scope(rule)[k] # {} => facts[k] \notin {"", "UNKNOWN"}

Forbidden(e) ==
    /\ Given(e.a.context.restriction)
    /\ \E i \in DOMAIN e.run.trades : \E rule \in InForce(e, e.run.trades[i]) : Forbids(rule, Facts(e, e.run.trades[i].instrument))

Decided(e) ==
    Given(e.a.context.restriction) =>
        /\ e.a.context.restriction.missing = {}
        /\ \A i \in DOMAIN e.run.trades : \A rule \in InForce(e, e.run.trades[i]) : Decides(rule, Facts(e, e.run.trades[i].instrument))

\* A method's options are no looser than the request's.
Tightens(options, asked) ==
    /\ asked.turnover # NoValue => options.turnover # NoValue /\ options.turnover <= asked.turnover
    /\ asked.position # NoValue => options.position # NoValue /\ options.position <= asked.position
    /\ options.cash >= asked.cash /\ options.fx >= asked.fx
    /\ (asked.tax => options.tax) /\ (asked.settlement => options.settlement) /\ (asked.blockFx => options.blockFx)

\* What each method promises of a run it calls ready.
MethodPromise(e) ==
    LET run == e.run
        context == e.a.context
        request == e.set.hash.request
        held(class) == IF class \in DOMAIN run.classes THEN run.classes[class] ELSE 0
        foreign == request.prices \ {request.base}
    IN CASE e.a.method = "TAX_AWARE" -> run.tax
         [] e.a.method = "MIN_TURNOVER" -> ~run.dropped
         [] e.a.method = "SOLVER_CONSTRAINED" -> e.a.effective = e.a.method /\ SolverWarningCodes(run) = {}
         [] e.a.method = "COST_AWARE" ->
               \A i \in DOMAIN run.trades : \E j \in DOMAIN context.cost.points :
                   context.cost.points[j].key = <<run.trades[i].instrument, run.trades[i].side>>
         [] e.a.method = "LIQUIDITY_AWARE" ->
               /\ ~run.breaches /\ ~run.short /\ "CASH" \in DOMAIN run.classes
               /\ held("CASH") >= context.liquidity.minimum
               /\ Given(context.liquidity.cashflow) =>
                     /\ context.liquidity.cashflow.currency = run.currency
                     /\ held("CASH") * run.total + 10000 * context.liquidity.cashflow.amount >= context.liquidity.minimum * run.total
         [] e.a.method = "CURRENCY_OVERLAY" -> foreign # {} /\ foreign \subseteq request.fx \cap context.currency.currencies
         [] e.a.method = "RISK_AWARE" -> Given(context.risk) /\ context.risk.status = "READY"
         [] e.a.method = "REGIME_STRESS_AWARE" -> Given(context.regime) /\ ~(context.regime.loss > context.regime.maximum)
         [] e.a.method = "ESG_AWARE" ->
               \A p \in {q \in context.sustainability.preferences : q.active /\ q.classes # {}} :
                   LET weight == MapThenSumSet(held, p.classes)
                   IN (p.minimum # NoValue => weight >= p.minimum) /\ (p.maximum # NoValue => ~(weight > p.maximum))
         [] OTHER -> TRUE

\* An alternative called ready keeps what its method promises and leaves no rule of
\* the client undecided; one with a forbidden trade is blocked; a method never loosens what
\* the request asks for; a cost is of every trade;
\* a set is no better than any of its alternatives.
AlternativesAreEarned ==
    \A b \in Backends :
        /\ \A e \in Economic(b) :
              /\ e.a.status = "READY" => MethodPromise(e) /\ Decided(e) /\ (e.set.mode = "stateful" => Given(e.a.context.restriction))
              /\ Forbidden(e) => e.a.status = "BLOCKED"
              /\ Tightens(e.run.options, e.set.hash.request.options)
              /\ e.a.metrics.cost # NoValue => \A i \in DOMAIN e.run.trades : e.run.trades[i].notional # NoValue /\ \E j \in DOMAIN e.a.context.cost.points :
                     e.a.context.cost.points[j].key = <<e.run.trades[i].instrument, e.run.trades[i].side>>
        /\ \A id \in DOMAIN store[b].sets :
              LET set == store[b].sets[id]
              IN /\ set.status = "READY" => \A i \in DOMAIN set.alternatives : set.alternatives[i].status = "READY"
                 /\ \A i \in DOMAIN set.alternatives :
                       set.alternatives[i].method = "DO_NOTHING_BASELINE" => set.alternatives[i].intents = 0 /\ set.alternatives[i].run = 0

\* A pack that is not blocked rests on a run and an alternative that are not, with
\* trades, a mandate, its cash and its currency pairs; it recommends approval only
\* when every section is ready; and a set's last selection before it is the one it shows.
PacksAreEarned ==
    \A b \in Backends : \A id \in DOMAIN store[b].packs :
        LET pack == store[b].packs[id]
            source == id[2]
        IN /\ pack.status # "BLOCKED" =>
                 /\ pack.mandate # 0 /\ pack.run \in DOMAIN store[b].runs
                 /\ LET run == store[b].runs[pack.run]
                    IN /\ run.status # "BLOCKED" /\ run.gate # "BLOCKED" /\ run.trades # <<>> /\ ~run.breaches /\ ~run.missingFx
                       /\ ~\E rule \in run.rules : rule.failed /\ rule.hard
                 /\ source[1] = "alternative" => AlternativeIn(store[b].sets[source[2]], source[3]).status # "BLOCKED"
           /\ pack.summary.action = "APPROVE_REBALANCE" => \A s \in DOMAIN pack.sections : pack.sections[s].state \in {"READY", "NOT_APPLICABLE"}
           /\ \A set \in DOMAIN store[b].selections :
                 source[1] = "alternative" /\ set = source[2] /\ store[b].selections[set].at < pack.at =>
                     store[b].selections[set].method = source[3]

OutcomeIsEarned == AlternativesAreEarned /\ PacksAreEarned

\* Every run an alternative shows is recorded for its tenant before the set is
\* readable; a key keeps answering with one set; a set, a pack and a reference to
\* what was handed off stay as they were answered, and a selection until a later
\* one replaces it; a selection is never of a blocked alternative.  (Two requests that race in Postgres can be answered a
\* pack that is not the one stored; reads are not.)
EvidenceIsRetained ==
    \A b \in Backends :
        /\ \A id \in DOMAIN store[b].sets : \A i \in DOMAIN store[b].sets[id].alternatives :
              LET a == store[b].sets[id].alternatives[i]
              IN a.run # 0 => a.run \in DOMAIN store[b].runs /\ store[b].runs[a.run].tenant = store[b].sets[id].tenant
        /\ \A set \in DOMAIN store[b].selections :
              LET a == AlternativeIn(store[b].sets[set], store[b].selections[set].method) IN Given(a) /\ a.status # "BLOCKED"
        /\ \A c \in DOMAIN replies : \A i \in DOMAIN replies[c] :
              LET command == replies[c][i].command
                  result == replies[c][i].results[b]
              IN /\ command.op \in {"construct", "readSet"} /\ ~IsRefused(result) =>
                       store[b].sets[result.value.id] = result.value
                 /\ command.op = "construct" /\ ~IsRefused(result) => store[b].keys[<<command.tenant, command.key>>] = result.value.id
                 /\ (command.op = "readPack" \/ (command.op = "pack" /\ b = "mem")) /\ ~IsRefused(result) =>
                       store[b].packs[result.value.pack.id] = result.value.pack
                 /\ command.op = "select" /\ ~IsRefused(result) =>
                       LET kept == store[b].selections[result.value.set]
                       IN  kept = result.value \/ (kept.tenant = result.value.tenant /\ kept.at > result.value.at)
        /\ b = "mem" => \A id \in DOMAIN store[b].refs : \A i \in DOMAIN store[b].refs[id] : store[b].refs[id][i].of = store[b].packs[id].at

\* What a tenant is answered is its own: a set, a selection, a pack or a page of
\* packs.  A pack of an alternative shows a run of the same tenant, and a pack of
\* a run the run that was named.  The latter may be another tenant's, since the
\* service looks runs up by id alone (generate_proof_pack_from_run).
TenantsAreSeparate ==
    \A b \in Backends :
        /\ \A c \in DOMAIN replies : \A i \in DOMAIN replies[c] :
              LET command == replies[c][i].command
                  result == replies[c][i].results[b]
              IN ~IsRefused(result) =>
                    CASE command.op \in {"construct", "readSet", "select"} -> result.value.tenant = command.tenant
                      [] command.op \in {"pack", "readPack"} -> result.value.pack.tenant = command.tenant
                      [] command.op = "listPacks" -> \A j \in DOMAIN result.value : result.value[j].tenant = command.tenant
        /\ \A id \in DOMAIN store[b].packs :
              LET pack == store[b].packs[id]
                  source == id[2]
              IN IF source[1] = "run" THEN pack.run = source[2]
                 ELSE pack.run # 0 => store[b].runs[pack.run].tenant = pack.tenant

\* Keys that name different things in the two stores: Postgres refused a run whose
\* correlation id it has, so a set, or a pack made from it, is only in memory.
Parted(f, g) == {key \in DOMAIN f \cup DOMAIN g : key \notin DOMAIN f \cap DOMAIN g \/ f[key] # g[key]}

PartedSets == Parted(store["pg"].keys, store["mem"].keys)

PartedPacks == Parted(store["pg"].packKeys, store["mem"].packKeys)

AboutParted(command) ==
    CASE command.op = "construct" -> <<command.tenant, command.key>> \in PartedSets
      [] command.op = "pack" -> command.of \in PartedSets \/ ProofPackIdempotencyMappingKey(command) \in PartedPacks
      [] command.op = "listPacks" -> \E key \in PartedPacks : key[1] = command.tenant
      [] OTHER -> command.of \in PartedSets

\* Two requests race to save one pack: Postgres answers the loser with the pack it
\* built, or with a driver error, where the in-memory store refuses.
LostRace(pg, mem) ==
    /\ IsRefused(mem) /\ mem.refused = "409"
    /\ IF IsRefused(pg) THEN pg.refused = "500" ELSE store["pg"].packs[pg.value.pack.id] # pg.value.pack

\* Postgres keeps the references of the loser too.
LoserHandedOff(id) == \E i \in DOMAIN ListRefs(store["pg"], id) : ListRefs(store["pg"], id)[i].of # store["pg"].packs[id].at

\* The stores give every request the same answer, except one about a set or pack
\* that Postgres refused to make, the loser's of a race to save one pack, and the
\* references shown with a pack that was raced for.
BackendsAgree ==
    \A c \in DOMAIN replies : \A i \in DOMAIN replies[c] :
        LET command == replies[c][i].command
            pg == replies[c][i].results["pg"]
            mem == replies[c][i].results["mem"]
        IN  \/ pg = mem
            \/ AboutParted(command)
            \/ command.op = "pack" /\ LostRace(pg, mem)
            \/ /\ command.op \in {"pack", "readPack"} /\ ~IsRefused(pg) /\ ~IsRefused(mem)
               /\ pg.value.pack = mem.value.pack /\ LoserHandedOff(pg.value.pack.id)

=============================================================================
