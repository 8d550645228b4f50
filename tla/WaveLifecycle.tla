---------------------------- MODULE WaveLifecycle ----------------------------
(***************************************************************************)
(* The life of one persisted rebalance wave, from CREATED to a handoff or  *)
(* a cancellation.  A command reads the wave, builds its successor, and    *)
(* writes it back if the version has not moved.  Two commands also commit  *)
(* work elsewhere before that write: a simulation stores alternative sets, *)
(* a selection stores the construction selection and a proof pack.         *)
(* The durable simulation operation (module WaveSimulation) appears here   *)
(* as what it promises of the wave.                                        *)
(***************************************************************************)
EXTENDS Naturals, Sequences, FiniteSets

CONSTANTS
  Items,
  Inputs,        \* construction inputs a simulation request may carry
  Alternatives,  \* the alternatives of every generated set
  Blocked,       \* those whose method_status is BLOCKED
  Requests,      \* concurrent commands
  Mixes,         \* what clients may send and find, see Mix
  None


VARIABLES
  wave,        \* the row of dpm_rebalance_waves
  sets,        \* the input of the alternative set stored per item
  selections,  \* dpm_construction_alternative_selections, by item
  packs,       \* dpm_pre_trade_proof_packs: status by item and alternative
  requests,
  mix,         \* the traffic of this behaviour, chosen once
  stray        \* history: items with a selection stored apart from the wave

vars == <<wave, sets, selections, packs, requests, mix, stray>>

ItemStates ==
  {"CANDIDATE", "SOURCE_READY", "SOURCE_DEGRADED", "SOURCE_BLOCKED",
   "REVIEW_REQUIRED", "SIMULATED", "SIMULATION_BLOCKED", "SELECTED",
   "PROOF_PACK_READY", "APPROVED", "STAGED", "HANDOFF_READY", "EXCLUDED"}

PackStatuses == {"READY", "PENDING_REVIEW", "DEGRADED", "BLOCKED"}

\* pack is the alternative that proof_pack_id was derived from, proof is
\* diagnostics["proof_pack_state"]; input is history: what the simulation
\* that produced the item had been asked to construct from.
Item ==
  [state: ItemStates, set: BOOLEAN, selected: Alternatives \cup {None},
   pack: Alternatives \cup {None}, proof: PackStatuses \cup {None},
   input: Inputs \cup {None}]

WaveStates ==
  {"DRAFT", "PREVIEWED", "CREATED", "SOURCE_CHECKED", "SIMULATING", "SIMULATED",
   "PARTIALLY_SIMULATED", "SIMULATION_FAILED", "REVIEW_REQUIRED", "APPROVED",
   "APPROVED_WITH_EXCEPTIONS", "REJECTED", "STAGED", "HANDOFF_READY",
   "HANDOFF_BLOCKED", "HANDOFF_ACKNOWLEDGED", "BLOCKED", "CANCELLED", "CLOSED"}

\* handoffs holds the item ids of each handoff ref.
Wave ==
  [state: WaveStates, version: Nat, items: [Items -> Item],
   events: Seq(WaveStates \X WaveStates), handoffs: Seq(SUBSET Items)]

\* A wave that a command has loaded; for a selection also its target and the
\* status of the proof pack it has built; for a simulation what is left to do.
Idle == [pc |-> "idle"]

Request ==
  {Idle}
  \cup [pc: {"persist"}, base: Nat, next: Wave, item: Items \cup {None}]
  \cup [pc: {"simulate"}, loaded: Wave, inputs: [Items -> Inputs \cup {None}], todo: SUBSET Items]
  \cup [pc: {"select", "pack", "check", "insert"}, loaded: Wave, item: Items,
        alternative: Alternatives, status: PackStatuses \cup {None}]

\* What a source check may find of an item's mandate.
Readings ==
  {"no_twin", "no_health", "stale", "incomplete", "degraded", "review", "ready"}

\* The commands clients send, the inputs and alternatives they name, what source
\* checks may find of each item's mandate, the statuses proof packs are built
\* with, and a bound: the version from which no command starts.
Mix ==
  [commands: SUBSET {"source_check", "simulate", "durable", "select", "direct", "approve",
                     "stage", "handoff", "cancel"},
   inputs: SUBSET Inputs, alternatives: SUBSET Alternatives,
   readings: [Items -> SUBSET Readings], packs: SUBSET PackStatuses, bound: Nat]

ASSUME LifecycleConstants ==
  /\ IsFiniteSet(Items)
  /\ Blocked \subseteq Alternatives
  /\ None \notin Items \cup Inputs \cup Alternatives \cup PackStatuses
  /\ Mixes \subseteq Mix

-----------------------------------------------------------------------------
ALLOWED_WAVE_TRANSITIONS ==
  {<<"DRAFT", "PREVIEWED">>, <<"PREVIEWED", "CREATED">>, <<"CREATED", "SOURCE_CHECKED">>}
  \cup ({"SOURCE_CHECKED"} \X {"SIMULATING", "REVIEW_REQUIRED", "BLOCKED"})
  \cup ({"SIMULATING"} \X {"SIMULATED", "PARTIALLY_SIMULATED", "SIMULATION_FAILED"})
  \cup ({"SIMULATED"} \X {"REVIEW_REQUIRED", "APPROVED"})
  \cup ({"PARTIALLY_SIMULATED"} \X {"REVIEW_REQUIRED", "APPROVED_WITH_EXCEPTIONS"})
  \cup ({"REVIEW_REQUIRED"} \X {"APPROVED", "APPROVED_WITH_EXCEPTIONS", "REJECTED"})
  \cup ({"APPROVED", "APPROVED_WITH_EXCEPTIONS"} \X {"STAGED"})
  \cup ({"STAGED"} \X {"HANDOFF_READY", "HANDOFF_BLOCKED"})
  \cup ({"HANDOFF_READY"} \X {"HANDOFF_ACKNOWLEDGED", "CLOSED"})
  \cup ({"HANDOFF_BLOCKED", "SIMULATION_FAILED", "BLOCKED"} \X {"SOURCE_CHECKED"})
  \cup ({"REJECTED", "CANCELLED", "HANDOFF_ACKNOWLEDGED"} \X {"CLOSED"})
  \cup ({"DRAFT", "PREVIEWED", "CREATED", "SOURCE_CHECKED", "SIMULATED",
         "PARTIALLY_SIMULATED", "REVIEW_REQUIRED", "APPROVED",
         "APPROVED_WITH_EXCEPTIONS", "STAGED", "HANDOFF_BLOCKED",
         "SIMULATION_FAILED", "BLOCKED"} \X {"CANCELLED"})

validate_wave_transition(from, to) == <<from, to>> \in ALLOWED_WAVE_TRANSITIONS

\* apply_wave_transition and append_same_state_event, once validated.
apply_wave_transition(w, to) ==
  [state |-> to, version |-> w.version + 1, items |-> w.items,
   events |-> Append(w.events, <<w.state, to>>), handoffs |-> w.handoffs]

WithItems(w, items) == [w EXCEPT !.items = items]

ItemsIn(items, states) == {i \in Items : items[i].state \in states}

\* The latest mandate twin and health snapshot, in the order they are tried:
\* "stale" is health older than the wave's as_of_date, "incomplete" health that
\* is BLOCKED or rests on incomplete or unavailable sources.
classify_wave_item_source_readiness(reading) ==
  IF reading = "no_twin" THEN "SOURCE_BLOCKED"
  ELSE IF reading \in {"no_health", "stale"} THEN "SOURCE_DEGRADED"
  ELSE IF reading = "incomplete" THEN "SOURCE_BLOCKED"
  ELSE IF reading = "degraded" THEN "SOURCE_DEGRADED"
  ELSE IF reading = "review" THEN "REVIEW_REQUIRED" ELSE "SOURCE_READY"

simulation_result_state(items) ==
  LET simulated == ItemsIn(items, {"SIMULATED"})
  IN IF simulated = {} THEN "SIMULATION_FAILED"
     ELSE IF simulated = Items THEN "SIMULATED" ELSE "PARTIALLY_SIMULATED"

proof_pack_blocked(item) == item.proof = "BLOCKED"

approve_item(item) ==
  IF item.state \in {"SELECTED", "PROOF_PACK_READY"} /\ ~proof_pack_blocked(item)
  THEN [item EXCEPT !.state = "APPROVED"] ELSE item

stage_item(item) ==
  IF item.state = "APPROVED" /\ ~proof_pack_blocked(item)
  THEN [item EXCEPT !.state = "STAGED"] ELSE item

handoff_item(item) ==
  IF item.state = "STAGED" /\ ~proof_pack_blocked(item)
  THEN [item EXCEPT !.state = "HANDOFF_READY"] ELSE item

\* Mutant: cancelling leaves approved items as they are.
CancelUnapproved(item) ==
  IF item.state \in {"APPROVED", "STAGED", "HANDOFF_READY"}
  THEN item ELSE [item EXCEPT !.state = "EXCLUDED"]

cancel_item(item) ==
  IF item.state = "HANDOFF_READY" THEN item ELSE [item EXCEPT !.state = "EXCLUDED"]

Mapped(items, Op(_)) == [i \in Items |-> Op(items[i])]

-----------------------------------------------------------------------------
\* prepare_wave_transition found the wave in one of the command's states; one
\* in a replay state is answered as it is, any other is refused.
Prepares(r, command) ==
  /\ command \in mix.commands
  /\ requests[r] = Idle
  /\ wave.version < mix.bound

Built(next) == [pc |-> "persist", base |-> wave.version, next |-> next, item |-> None]

Take(r, request) == requests' = [requests EXCEPT ![r] = request]

SourceCheck(r) ==
  /\ Prepares(r, "source_check")
  /\ wave.state = "CREATED"
  /\ \E found \in {f \in [Items -> Readings] : \A i \in Items : f[i] \in mix.readings[i]} :
       Take(r, Built(apply_wave_transition(
                       WithItems(wave,
                         [i \in Items |-> [wave.items[i] EXCEPT !.state =
                            classify_wave_item_source_readiness(found[i])]]),
                       "SOURCE_CHECKED")))
  /\ UNCHANGED <<wave, sets, selections, packs, stray, mix>>

\* An approval that cannot be recorded raises DpmWaveInvalidTransitionError,
\* which no caller of the command maps: the wave stays as it was.
Approve(r) ==
  /\ Prepares(r, "approve")
  /\ wave.state \in {"SIMULATED", "PARTIALLY_SIMULATED", "REVIEW_REQUIRED"}
  /\ LET items == Mapped(wave.items, approve_item)
         approved == ItemsIn(items, {"APPROVED"})
         to == IF approved = Items THEN "APPROVED" ELSE "APPROVED_WITH_EXCEPTIONS"
     IN /\ approved # {}
        /\ validate_wave_transition(wave.state, to)
        /\ Take(r, Built(apply_wave_transition(WithItems(wave, items), to)))
  /\ UNCHANGED <<wave, sets, selections, packs, stray, mix>>

Stage(r) ==
  /\ Prepares(r, "stage")
  /\ wave.state \in {"APPROVED", "APPROVED_WITH_EXCEPTIONS"}
  /\ LET items == Mapped(wave.items, stage_item)
     IN /\ ItemsIn(items, {"STAGED"}) # {}
        /\ Take(r, Built(apply_wave_transition(WithItems(wave, items), "STAGED")))
  /\ UNCHANGED <<wave, sets, selections, packs, stray, mix>>

Handoff(r) ==
  /\ Prepares(r, "handoff")
  /\ wave.state = "STAGED"
  /\ LET items == Mapped(wave.items, handoff_item)
         ready == ItemsIn(items, {"HANDOFF_READY"})
         noted == [WithItems(wave, items) EXCEPT !.handoffs = Append(wave.handoffs, ready)]
     IN /\ ready # {}
        /\ Take(r, Built(apply_wave_transition(noted, "HANDOFF_READY")))
  /\ UNCHANGED <<wave, sets, selections, packs, stray, mix>>

Cancel(r) ==
  /\ Prepares(r, "cancel")
  /\ wave.state # "CANCELLED"
  /\ validate_wave_transition(wave.state, "CANCELLED")
  /\ Take(r, Built(apply_wave_transition(
                     WithItems(wave, Mapped(wave.items, cancel_item)), "CANCELLED")))
  /\ UNCHANGED <<wave, sets, selections, packs, stray, mix>>

-----------------------------------------------------------------------------
StartSimulation(r) ==
  /\ Prepares(r, "simulate")
  /\ wave.state = "SOURCE_CHECKED"
  /\ \E inputs \in [Items -> mix.inputs \cup {None}] :
       Take(r, [pc |-> "simulate", loaded |-> wave, inputs |-> inputs,
                todo |-> ItemsIn(wave.items, {"SOURCE_READY"})])
  /\ UNCHANGED <<wave, sets, selections, packs, stray, mix>>

\* What generate_construction_alternative_set may make of an item whose key
\* already has a set: a replay, or a conflict when the request hash differs.
Replayed(i, input) == IF sets[i] = input THEN {"SIMULATED"} ELSE {"SIMULATION_BLOCKED"}

\* The request of a simulation whose item i has ended in a state.
Simulated(k, i, state) ==
  [pc |-> "simulate", inputs |-> k.inputs, todo |-> k.todo \ {i},
   loaded |-> WithItems(k.loaded,
     [k.loaded.items EXCEPT ![i] =
        [k.loaded.items[i] EXCEPT
           !.state = state, !.set = state = "SIMULATED",
           !.input = IF state = "SIMULATED" THEN k.inputs[i] ELSE None]])]

\* simulate_item.  The alternative set is committed before the wave is.
SimulateItem(r, i) ==
  /\ requests[r].pc = "simulate"
  /\ i \in requests[r].todo
  /\ LET k == requests[r]
         input == k.inputs[i]
     IN \/ /\ input = None \/ sets[i] = None
           /\ Take(r, Simulated(k, i, "SIMULATION_BLOCKED"))
           /\ UNCHANGED sets
        \/ /\ input # None /\ sets[i] = None
           /\ Take(r, Simulated(k, i, "SIMULATED"))
           /\ sets' = [sets EXCEPT ![i] = input]
        \/ /\ input # None /\ sets[i] # None
           /\ \E state \in Replayed(i, input) : Take(r, Simulated(k, i, state))
           /\ UNCHANGED sets
  /\ UNCHANGED <<wave, selections, packs, stray, mix>>

\* Mutant: the simulation is recorded without passing through SIMULATING.
SimulatedAtOnce(w) == apply_wave_transition(w, simulation_result_state(w.items))

\* build_simulated_wave's two transitions.
SimulatedWave(w) ==
  apply_wave_transition(apply_wave_transition(w, "SIMULATING"),
                        simulation_result_state(w.items))

FinishSimulation(r) ==
  /\ requests[r].pc = "simulate"
  /\ requests[r].todo = {}
  /\ LET k == requests[r]
     IN Take(r, [pc |-> "persist", base |-> k.loaded.version,
                 next |-> SimulatedWave(k.loaded), item |-> None])
  /\ UNCHANGED <<wave, sets, selections, packs, stray, mix>>

\* The durable operation is admitted with a record for every item.
AdmitDurable ==
  /\ "durable" \in mix.commands
  /\ wave.version < mix.bound
  /\ wave.state = "SOURCE_CHECKED"
  /\ wave' = apply_wave_transition(wave, "SIMULATING")
  /\ UNCHANGED <<sets, selections, packs, requests, stray, mix>>

\* The wave's items as the records give them: some ready ones simulated; others,
\* ready or not, failed or cancelled.  What a record has settled it keeps.
Reconciled(simulated, failed) ==
  [i \in Items |->
     IF i \in simulated THEN [wave.items[i] EXCEPT !.state = "SIMULATED", !.set = TRUE]
     ELSE IF i \in failed THEN [wave.items[i] EXCEPT !.state = "SIMULATION_BLOCKED"]
     ELSE wave.items[i]]

MaySettle(simulated, failed) ==
  /\ simulated \subseteq ItemsIn(wave.items, {"SOURCE_READY"})
  /\ failed \subseteq Items \ (simulated \cup ItemsIn(wave.items, {"SIMULATED"}))

\* A reconciliation before all records are settled stores changed items under
\* the next version, without an event.
ProjectDurable ==
  /\ wave.state = "SIMULATING"
  /\ \E simulated, failed \in SUBSET Items :
       /\ MaySettle(simulated, failed)
       /\ Reconciled(simulated, failed) # wave.items
       /\ wave' = [WithItems(wave, Reconciled(simulated, failed)) EXCEPT
                     !.version = wave.version + 1]
  /\ UNCHANGED <<sets, selections, packs, requests, stray, mix>>

\* A reconciliation that finds every record settled closes the wave.
CloseDurable ==
  /\ wave.state = "SIMULATING"
  /\ \E simulated, failed \in SUBSET Items :
       LET items == Reconciled(simulated, failed)
       IN /\ MaySettle(simulated, failed)
          /\ ItemsIn(items, {"SOURCE_READY"}) = {}
          /\ wave' = apply_wave_transition(WithItems(wave, items), simulation_result_state(items))
  /\ UNCHANGED <<sets, selections, packs, requests, stray, mix>>

-----------------------------------------------------------------------------
\* select_persisted_wave_item_alternative up to its first commit.
StartSelection(r, i, a) ==
  /\ Prepares(r, "select")
  /\ wave.state \in {"SIMULATED", "PARTIALLY_SIMULATED"}
  /\ wave.items[i].set
  /\ a \notin Blocked
  /\ Take(r, [pc |-> "select", loaded |-> wave, item |-> i, alternative |-> a, status |-> None])
  /\ UNCHANGED <<wave, sets, selections, packs, stray, mix>>

SaveSelection(r) ==
  /\ requests[r].pc = "select"
  /\ selections' = [selections EXCEPT ![requests[r].item] = requests[r].alternative]
  /\ Take(r, [requests[r] EXCEPT !.pc = "pack"])
  /\ UNCHANGED <<wave, sets, packs, stray, mix>>

\* Mutant: an item selected anew keeps the proof pack of its old alternative.
SelectedKeepsPack(item, a, pack, proof) ==
  [item EXCEPT !.state = IF pack # None /\ proof # "BLOCKED" THEN "PROOF_PACK_READY" ELSE "SELECTED",
               !.selected = a, !.pack = IF pack = None THEN @ ELSE pack, !.proof = proof]

\* with_selection_and_proof_pack: any earlier proof pack is forgotten.
SelectedItem(item, a, pack, proof) ==
  [item EXCEPT !.state = IF pack # None /\ proof # "BLOCKED" THEN "PROOF_PACK_READY" ELSE "SELECTED",
               !.selected = a, !.pack = pack, !.proof = proof]

\* The wave with its item selected, ready to be written.
Selected(k, pack, proof) ==
  [pc |-> "persist", base |-> k.loaded.version, item |-> k.item,
   next |-> apply_wave_transition(
              WithItems(k.loaded,
                [k.loaded.items EXCEPT ![k.item] =
                   SelectedItem(k.loaded.items[k.item], k.alternative, pack, proof)]),
              k.loaded.state)]

\* find_replayable_proof_pack: by the key or by the id, both of which are made
\* from the item (its set) and the alternative.
FindPack(k) == {s \in PackStatuses : packs[<<k.item, k.alternative>>] = s}

\* Generation was not asked for, or ended in one of the errors that degrade.
NoPack(r) ==
  /\ requests[r].pc = "pack"
  /\ Take(r, Selected(requests[r], None, "DEGRADED"))
  /\ UNCHANGED <<wave, sets, selections, packs, stray, mix>>

ReplayPack(r) ==
  /\ requests[r].pc = "pack"
  /\ \E s \in FindPack(requests[r]) :
       Take(r, Selected(requests[r], requests[r].alternative, s))
  /\ UNCHANGED <<wave, sets, selections, packs, stray, mix>>

\* The evidence the pack is built from decides its status.
BuildPack(r, s) ==
  /\ requests[r].pc = "pack"
  /\ FindPack(requests[r]) = {}
  /\ Take(r, [requests[r] EXCEPT !.pc = "check", !.status = s])
  /\ UNCHANGED <<wave, sets, selections, packs, stray, mix>>

\* save_proof_pack, up to its insert.  Packs carry the time they were built, so
\* two builds never have one content hash: a pack found is a conflict.
CheckPack(r) ==
  /\ requests[r].pc = "check"
  /\ Take(r, IF FindPack(requests[r]) = {}
             THEN [requests[r] EXCEPT !.pc = "insert"]
             ELSE Selected(requests[r], None, "DEGRADED"))
  /\ UNCHANGED <<wave, sets, selections, packs, stray, mix>>

\* ON CONFLICT DO NOTHING; the command goes on with the pack it built.
InsertPack(r) ==
  /\ requests[r].pc = "insert"
  /\ LET k == requests[r]
     IN /\ packs' = [packs EXCEPT ![<<k.item, k.alternative>>] = IF @ = None THEN k.status ELSE @]
        /\ Take(r, Selected(k, k.alternative, k.status))
  /\ UNCHANGED <<wave, sets, selections, stray, mix>>

\* select_construction_alternative of the construction routes, on the same set.
SelectDirectly(i, a) ==
  /\ "direct" \in mix.commands
  /\ wave.items[i].set
  /\ a \notin Blocked
  /\ selections' = [selections EXCEPT ![i] = a]
  /\ stray' = stray \cup {i}
  /\ UNCHANGED <<wave, sets, packs, requests, mix>>

-----------------------------------------------------------------------------
\* Mutant: the wave is written whatever its version is by now.
PersistAnyway(r) ==
  /\ requests[r].pc = "persist"
  /\ wave' = requests[r].next
  /\ Take(r, Idle)
  /\ UNCHANGED <<sets, selections, packs, stray, mix>>

\* update_wave, one transaction with the insertion of the new events.
Persist(r) ==
  /\ requests[r].pc = "persist"
  /\ LET k == requests[r]
     IN \/ /\ wave.version = k.base
           /\ wave' = k.next
           /\ UNCHANGED stray
        \/ /\ wave.version # k.base  \* DPM_WAVE_VERSION_CONFLICT
           /\ stray' = stray \cup ({k.item} \cap Items)
           /\ UNCHANGED wave
  /\ Take(r, Idle)
  /\ UNCHANGED <<sets, selections, packs, mix>>

\* A process dies between two commits, or a call of a later step fails.
Die(r) ==
  /\ requests[r] # Idle
  /\ stray' = IF requests[r].pc \in {"pack", "check", "insert", "persist"}
              THEN stray \cup ({requests[r].item} \cap Items) ELSE stray
  /\ Take(r, Idle)
  /\ UNCHANGED <<wave, sets, selections, packs, mix>>

\* build_wave_item: an item without source refs starts blocked.
NewItem(state) ==
  [state |-> state, set |-> FALSE, selected |-> None, pack |-> None, proof |-> None,
   input |-> None]

\* The wave as create_persisted_wave stored it: versions start at 1 and the
\* wave has been previewed and created.
Init ==
  /\ \E states \in [Items -> {"CANDIDATE", "SOURCE_BLOCKED"}] :
       wave = [state |-> "CREATED", version |-> 3,
               items |-> [i \in Items |-> NewItem(states[i])],
               events |-> <<<<"DRAFT", "PREVIEWED">>, <<"PREVIEWED", "CREATED">>>>,
               handoffs |-> <<>>]
  /\ sets = [i \in Items |-> None]
  /\ selections = [i \in Items |-> None]
  /\ packs = [p \in Items \X Alternatives |-> None]
  /\ requests = [r \in Requests |-> Idle]
  /\ mix \in Mixes
  /\ stray = {}

Next ==
  \/ \E r \in Requests :
       \/ SourceCheck(r) \/ Approve(r) \/ Stage(r) \/ Handoff(r) \/ Cancel(r)
       \/ StartSimulation(r) \/ FinishSimulation(r)
       \/ \E i \in Items : SimulateItem(r, i)
       \/ \E i \in Items, a \in mix.alternatives : StartSelection(r, i, a)
       \/ SaveSelection(r) \/ NoPack(r) \/ ReplayPack(r)
       \/ \E s \in mix.packs : BuildPack(r, s)
       \/ CheckPack(r) \/ InsertPack(r)
       \/ Persist(r) \/ Die(r)
  \/ AdmitDurable \/ ProjectDurable \/ CloseDurable
  \/ \E i \in Items, a \in mix.alternatives : SelectDirectly(i, a)

Spec == Init /\ [][Next]_vars

-----------------------------------------------------------------------------
TypeOK ==
  /\ wave \in [state: WaveStates, version: Nat, items: [Items -> Item],
               events: Seq(WaveStates \X WaveStates), handoffs: Seq(SUBSET Items)]
  /\ sets \in [Items -> Inputs \cup {None}]
  /\ selections \in [Items -> Alternatives \cup {None}]
  /\ packs \in [Items \X Alternatives -> PackStatuses \cup {None}]
  /\ requests \in [Requests -> Request]
  /\ mix \in Mix
  /\ stray \subseteq Items

\* The items that a durable simulation may have stored under a version of their
\* own: none before it, those it has settled while it runs.
Projected(w) ==
  IF w.state \in {"DRAFT", "PREVIEWED", "CREATED", "SOURCE_CHECKED"} THEN {}
  ELSE IF w.state = "SIMULATING" THEN ItemsIn(w.items, {"SIMULATED", "SIMULATION_BLOCKED"})
  ELSE Items

\* The event log explains the wave: it starts at DRAFT, every event leaves from
\* where the one before arrived along an allowed transition or, for a
\* selection, stays, and the last arrives at the wave's state.  The version
\* counts the events and, of the writes that leave no event, at most one for
\* each item that a durable simulation has settled.
HistoryExplainsState ==
  LET e == wave.events
  IN /\ wave.version >= Len(e) + 1
     /\ wave.version <= Len(e) + 1 + Cardinality(Projected(wave))
     /\ e[1][1] = "DRAFT" /\ e[Len(e)][2] = wave.state
     /\ \A n \in 1..Len(e) :
          /\ \/ e[n] \in ALLOWED_WAVE_TRANSITIONS
             \/ e[n][1] = e[n][2] /\ e[n][1] \in {"SIMULATED", "PARTIALLY_SIMULATED"}
          /\ n > 1 => e[n][1] = e[n - 1][2]

\* One log continues another.
Continues(log, old) ==
  Len(old) <= Len(log) /\ \A n \in 1..Len(old) : log[n] = old[n]

\* No event is lost: whatever commands overlap, an event once stored stays
\* where it is in the log.
EventsAppendOnly == [][Continues(wave'.events, wave.events)]_wave

\* An item simulated at a client's request links a set constructed from the
\* input that this request carried, even when an earlier request for the same
\* item had stored its set and lost the race for the wave.
SimulatedFromOwnInput ==
  \A i \in Items : wave.items[i].input # None => sets[i] = wave.items[i].input

\* The wave and the construction store name the same alternative, except for
\* items on which a selection is still under way, or was stored in the one and
\* never reached the other.
SelectionsAgree ==
  \A i \in Items :
    \/ wave.items[i].selected \in {None, selections[i]}
    \/ i \in stray
    \/ \E r \in Requests : requests[r] # Idle /\ requests[r].pc # "simulate" /\ requests[r].item = i

\* What is approved, staged or handed off was selected: the item has an
\* alternative set, an unblocked alternative of it, no proof pack that says
\* BLOCKED, and if it links a proof pack, one stored for that alternative; and
\* the set and the selection it rests on are its own.
ApprovedOnEvidence ==
  /\ \A i \in ItemsIn(wave.items, {"APPROVED", "STAGED", "HANDOFF_READY"}) :
       LET item == wave.items[i]
       IN /\ item.set
          /\ item.selected \in Alternatives \ Blocked
          /\ ~proof_pack_blocked(item)
          /\ item.pack # None => item.pack = item.selected /\ packs[<<i, item.pack>>] # None
  /\ SimulatedFromOwnInput /\ SelectionsAgree

\* Handoff evidence is written once and names the items handed off; a
\* cancelled wave has none, and no item that could still go on.
HandedOffOnce ==
  /\ wave.state = "HANDOFF_READY" => wave.handoffs = <<ItemsIn(wave.items, {"HANDOFF_READY"})>>
  /\ wave.state # "HANDOFF_READY" => wave.handoffs = <<>>
  /\ wave.state = "CANCELLED" => ItemsIn(wave.items, {"EXCLUDED"}) = Items

\* Where the items that were approved are, from the wave's approval on.
StateOfApproved(state) ==
  IF state \in {"APPROVED", "APPROVED_WITH_EXCEPTIONS"} THEN {"APPROVED"}
  ELSE {state} \cap {"STAGED", "HANDOFF_READY"}

\* The items keep up with their wave: from approval on, every item that was
\* approved is where the wave is, at least one is, a wave APPROVED without
\* exceptions has left none behind, and the handoff names them once.
ItemsKeepUp ==
  LET there == ItemsIn(wave.items, StateOfApproved(wave.state))
  IN /\ StateOfApproved(wave.state) # {} => there # {}
     /\ ItemsIn(wave.items, {"APPROVED", "STAGED", "HANDOFF_READY"}) = there
     /\ wave.state = "APPROVED" => there = Items
     /\ wave.state = "APPROVED_WITH_EXCEPTIONS" => there # Items
     /\ HandedOffOnce
=============================================================================
