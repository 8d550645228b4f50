------------------------ MODULE WaveLifecycleProofs ------------------------
(***************************************************************************)
(* Proofs about WaveLifecycle, for every value of its constants: the event *)
(* log explains the wave and only grows, the items keep up with the wave,  *)
(* and what is approved rests on evidence, whatever commands overlap.      *)
(*                                                                         *)
(* The argument.  A command works on a wave of its own, so what is proved  *)
(* of the stored wave has to hold of every wave a command holds (Sound);   *)
(* the version tells a command that comes to write whether its wave is     *)
(* still the successor of the stored one (Ready).                          *)
(***************************************************************************)
EXTENDS WaveLifecycle, FiniteSetTheorems, TLAPS

-----------------------------------------------------------------------------
(* The inductive invariant.                                                 *)

\* Every event of the log leaves from where the one before arrived.
Explained(w) ==
  /\ w.version >= Len(w.events) + 1
  /\ w.version <= Len(w.events) + 1 + Cardinality(Projected(w))
  /\ Len(w.events) > 0
  /\ w.events[1][1] = "DRAFT" /\ w.events[Len(w.events)][2] = w.state
  /\ \A n \in 1..Len(w.events) :
       /\ \/ w.events[n] \in ALLOWED_WAVE_TRANSITIONS
          \/ /\ w.events[n][1] = w.events[n][2]
             /\ w.events[n][1] \in {"SIMULATED", "PARTIALLY_SIMULATED"}
       /\ n > 1 => w.events[n][1] = w.events[n - 1][2]

\* The items are where their wave is.
KeptUp(w) ==
  /\ StateOfApproved(w.state) # {} => ItemsIn(w.items, StateOfApproved(w.state)) # {}
  /\ ItemsIn(w.items, {"APPROVED", "STAGED", "HANDOFF_READY"}) = ItemsIn(w.items, StateOfApproved(w.state))
  /\ w.state = "APPROVED" => ItemsIn(w.items, {"APPROVED"}) = Items
  /\ w.state = "APPROVED_WITH_EXCEPTIONS" => ItemsIn(w.items, {"APPROVED"}) # Items
  /\ w.state = "HANDOFF_READY" => w.handoffs = <<ItemsIn(w.items, {"HANDOFF_READY"})>>
  /\ w.state # "HANDOFF_READY" => w.handoffs = <<>>
  /\ w.state = "CANCELLED" => ItemsIn(w.items, {"EXCLUDED"}) = Items

\* An item from its selection on rests on its own set, an unblocked
\* alternative of it, and a stored proof pack if it links one; an approved one
\* on no proof pack that says BLOCKED.
Evidence(i, item, ps) ==
  /\ item.state \in {"SELECTED", "PROOF_PACK_READY", "APPROVED", "STAGED", "HANDOFF_READY"} =>
       /\ item.set
       /\ item.selected \in Alternatives \ Blocked
       /\ item.pack # None => item.pack = item.selected /\ ps[<<i, item.pack>>] # None
  /\ item.state \in {"APPROVED", "STAGED", "HANDOFF_READY"} => item.proof # "BLOCKED"

OwnInput(i, item, ss) == item.input # None => ss[i] = item.input

\* What is true of every wave that is stored, or held by a command.
Sound(w, ps, ss) ==
  /\ Explained(w)
  /\ KeptUp(w)
  /\ \A i \in Items : Evidence(i, w.items[i], ps) /\ OwnInput(i, w.items[i], ss)

\* A command's wave, and the version of the one it loaded.
Held(k) == IF k.pc = "persist" THEN k.next ELSE k.loaded
Base(k) == IF k.pc = "persist" THEN k.base ELSE k.loaded.version

Saved == {"pack", "check", "insert", "persist"}

\* What command k may rely on when the stored wave is w.
Ready(k, w) ==
  /\ Base(k) <= w.version
  /\ k.pc = "persist" => k.base < k.next.version
  /\ Base(k) = w.version =>
       /\ Continues(Held(k).events, w.events)
       /\ \A j \in Items : k.pc # "persist" \/ j # k.item =>
            Held(k).items[j].selected = w.items[j].selected
  /\ k.pc = "simulate" => k.loaded.state = "SOURCE_CHECKED"
  /\ k.pc \in {"select", "pack", "check", "insert"} =>
       /\ k.loaded.state \in {"SIMULATED", "PARTIALLY_SIMULATED"}
       /\ k.loaded.items[k.item].set
       /\ k.alternative \notin Blocked
       /\ k.pc \in {"check", "insert"} => k.status # None

\* Command r has stored a selection of item i that is not on the wave yet.
Storing(rs, r, i) == rs[r] # Idle /\ rs[r].pc \in Saved /\ rs[r].item = i

Choice(k) == IF k.pc = "persist" THEN k.next.items[k.item].selected ELSE k.alternative

SelectionsTraced ==
  /\ \A i \in Items :
       \/ wave.items[i].selected \in {None, selections[i]}
       \/ i \in stray
       \/ \E r \in Requests : Storing(requests, r, i)
  /\ \A r \in Requests, i \in Items : Storing(requests, r, i) =>
       \/ Base(requests[r]) < wave.version
       \/ Choice(requests[r]) = selections[i]
       \/ i \in stray
       \/ \E q \in Requests \ {r} : Storing(requests, q, i)

LifecycleInv ==
  /\ TypeOK
  /\ Sound(wave, packs, sets)
  /\ \A r \in Requests : requests[r] # Idle =>
       Sound(Held(requests[r]), packs, sets) /\ Ready(requests[r], wave)
  /\ SelectionsTraced

-----------------------------------------------------------------------------
(* The operators on waves, items and requests.                              *)

\* What a request in each of its states consists of.
LEMMA RequestShape ==
  ASSUME NEW k \in Request
  PROVE  /\ k.pc = "idle" <=> k = Idle
         /\ k.pc = "persist" =>
              k \in [pc: {"persist"}, base: Nat, next: Wave, item: Items \cup {None}]
         /\ k.pc = "simulate" =>
              k \in [pc: {"simulate"}, loaded: Wave, inputs: [Items -> Inputs \cup {None}],
                     todo: SUBSET Items]
         /\ k.pc \in {"select", "pack", "check", "insert"} =>
              k \in [pc: {"select", "pack", "check", "insert"}, loaded: Wave, item: Items,
                     alternative: Alternatives, status: PackStatuses \cup {None}]
         /\ k.pc \in {"idle", "persist", "simulate", "select", "pack", "check", "insert"}
BY DEF Request, Idle

\* The wave a request holds is a wave, and the version it rests on a number.
LEMMA HeldType ==
  ASSUME NEW k \in Request, k # Idle
  PROVE  Held(k) \in Wave /\ Base(k) \in Nat
<1>1. k.pc # "idle"
  BY RequestShape, Zenon
<1>2. CASE k.pc = "persist"
  BY <1>2, RequestShape, Zenon DEF Held, Base
<1>3. CASE k.pc = "simulate"
  BY <1>3, RequestShape, Zenon DEF Held, Base, Wave
<1>4. CASE k.pc \in {"select", "pack", "check", "insert"}
  BY <1>4, RequestShape, Zenon DEF Held, Base, Wave
<1> QED
  BY <1>1, <1>2, <1>3, <1>4, RequestShape, Zenon

\* A log has a length.
LEMMA LogLength ==
  ASSUME NEW S, NEW s \in Seq(S)
  PROVE  Len(s) \in Nat
OBVIOUS

\* Appending to a log keeps what is in it and ends in what is new.
LEMMA AppendToLog ==
  ASSUME NEW S, NEW s \in Seq(S), NEW x \in S
  PROVE  /\ Append(s, x) \in Seq(S)
         /\ Len(Append(s, x)) = Len(s) + 1
         /\ \A n \in 1..Len(s) : Append(s, x)[n] = s[n]
         /\ Append(s, x)[Len(s) + 1] = x
OBVIOUS

\* A transition moves the state, counts the version and appends one event.
LEMMA TransitionFields ==
  ASSUME NEW w \in Wave, NEW to \in WaveStates
  PROVE  /\ apply_wave_transition(w, to) \in Wave
         /\ apply_wave_transition(w, to).state = to
         /\ apply_wave_transition(w, to).version = w.version + 1
         /\ apply_wave_transition(w, to).items = w.items
         /\ apply_wave_transition(w, to).events = Append(w.events, <<w.state, to>>)
         /\ apply_wave_transition(w, to).handoffs = w.handoffs
<1>1. /\ w.state \in WaveStates /\ w.version \in Nat /\ w.items \in [Items -> Item]
      /\ w.events \in Seq(WaveStates \X WaveStates) /\ w.handoffs \in Seq(SUBSET Items)
  BY Zenon DEF Wave
<1>2. <<w.state, to>> \in WaveStates \X WaveStates
  BY <1>1, Zenon
<1>3. Append(w.events, <<w.state, to>>) \in Seq(WaveStates \X WaveStates)
  BY <1>1, <1>2, AppendToLog, Zenon
<1> QED
  BY <1>1, <1>3 DEF apply_wave_transition, Wave

\* A wave with other items.
LEMMA WithItemsFields ==
  ASSUME NEW w \in Wave, NEW items \in [Items -> Item]
  PROVE  /\ WithItems(w, items) \in Wave
         /\ WithItems(w, items).state = w.state
         /\ WithItems(w, items).version = w.version
         /\ WithItems(w, items).items = items
         /\ WithItems(w, items).events = w.events
         /\ WithItems(w, items).handoffs = w.handoffs
BY Zenon DEF WithItems, Wave

Unprojected == {"DRAFT", "PREVIEWED", "CREATED", "SOURCE_CHECKED"}

\* How many items a durable simulation may have stored on their own.
LEMMA ProjectedCount ==
  ASSUME NEW w
  PROVE  /\ IsFiniteSet(Projected(w))
         /\ Cardinality(Projected(w)) \in Nat
         /\ w.state \in Unprojected => Cardinality(Projected(w)) = 0
         /\ Cardinality(Projected(w)) <= Cardinality(Items)
         /\ w.state \notin Unprojected \cup {"SIMULATING"} =>
              Cardinality(Projected(w)) = Cardinality(Items)
<1>1. Projected(w) \subseteq Items
  BY Zenon DEF Projected, ItemsIn
<1>2. IsFiniteSet(Projected(w)) /\ Cardinality(Projected(w)) <= Cardinality(Items)
  BY <1>1, LifecycleConstants, FS_Subset, Zenon
<1>3. Cardinality(Projected(w)) \in Nat
  BY <1>2, FS_CardinalityType, Zenon
<1>4. w.state \in Unprojected => Cardinality(Projected(w)) = 0
  <2>1. w.state \in Unprojected => Projected(w) = {}
    BY Zenon DEF Projected, Unprojected
  <2> QED
    BY <1>2, <2>1, FS_EmptySet, Zenon
<1>5. w.state \notin Unprojected \cup {"SIMULATING"} => Projected(w) = Items
  BY Zenon DEF Projected, Unprojected
<1> QED
  BY <1>2, <1>3, <1>4, <1>5, Zenon

\* A transition that is allowed, or a selection on a simulated wave, keeps the
\* log an explanation of the wave.
LEMMA TransitionExplained ==
  ASSUME NEW w \in Wave, Explained(w), NEW to \in WaveStates,
         \/ validate_wave_transition(w.state, to)
         \/ to = w.state /\ to \in {"SIMULATED", "PARTIALLY_SIMULATED"},
         to = "SOURCE_CHECKED" => w.state = "CREATED"
  PROVE  Explained(apply_wave_transition(w, to))
<1> DEFINE e == w.events
           x == <<w.state, to>>
           f == Append(e, x)
<1>1. e \in Seq(WaveStates \X WaveStates) /\ w.state \in WaveStates /\ w.version \in Nat
  BY Zenon DEF Wave
<1>2. x \in WaveStates \X WaveStates
  BY <1>1, Zenon
<1>3. Len(e) \in Nat
  BY <1>1, LogLength, Zenon
<1>4. /\ Len(f) = Len(e) + 1
      /\ \A n \in 1..Len(e) : f[n] = e[n]
      /\ f[Len(e) + 1] = x
  BY <1>1, <1>2, AppendToLog
<1>5. x[1] = w.state /\ x[2] = to
  BY Zenon
<1>6. /\ w.version >= Len(e) + 1 /\ w.version <= Len(e) + 1 + Cardinality(Projected(w))
      /\ Len(e) > 0
      /\ e[1][1] = "DRAFT" /\ e[Len(e)][2] = w.state
      /\ \A n \in 1..Len(e) :
           /\ \/ e[n] \in ALLOWED_WAVE_TRANSITIONS
              \/ e[n][1] = e[n][2] /\ e[n][1] \in {"SIMULATED", "PARTIALLY_SIMULATED"}
           /\ n > 1 => e[n][1] = e[n - 1][2]
  BY Zenon DEF Explained
<1>7. \/ x \in ALLOWED_WAVE_TRANSITIONS
      \/ x[1] = x[2] /\ x[1] \in {"SIMULATED", "PARTIALLY_SIMULATED"}
  BY <1>5, Zenon DEF validate_wave_transition
<1> HIDE DEF e, x, f
<1>8. ASSUME NEW n \in 1..Len(f)
      PROVE  /\ \/ f[n] \in ALLOWED_WAVE_TRANSITIONS
                \/ f[n][1] = f[n][2] /\ f[n][1] \in {"SIMULATED", "PARTIALLY_SIMULATED"}
             /\ n > 1 => f[n][1] = f[n - 1][2]
  <2>1. CASE n = Len(e) + 1
    <3>1. f[n] = x /\ f[n - 1] = e[Len(e)]
      BY <1>3, <1>4, <1>6, <2>1
    <3> QED
      BY <1>5, <1>6, <1>7, <3>1, Zenon
  <2>2. CASE n # Len(e) + 1
    <3>1. n \in 1..Len(e) /\ f[n] = e[n]
      BY <1>3, <1>4, <2>2
    <3>2. n > 1 => f[n - 1] = e[n - 1]
      BY <1>3, <1>4, <3>1
    <3> QED
      BY <1>6, <3>1, <3>2, Zenon
  <2> QED
    BY <2>1, <2>2, Zenon
<1>9. Len(f) > 0 /\ f[1][1] = "DRAFT" /\ f[Len(f)][2] = to
  BY <1>3, <1>4, <1>5, <1>6
<1> DEFINE v == apply_wave_transition(w, to)
<1>10. v.state = to /\ v.version = w.version + 1 /\ v.events = f
  BY TransitionFields, Zenon DEF e, x, f
<1> HIDE DEF v
<1>11. Cardinality(Projected(w)) <= Cardinality(Projected(v))
  <2>1. CASE w.state \in Unprojected
    BY <2>1, ProjectedCount
  <2>2. CASE w.state \notin Unprojected
    <3>1. to \notin Unprojected \cup {"SIMULATING"}
      BY <2>2, ZenonT(30) DEF Unprojected, validate_wave_transition, ALLOWED_WAVE_TRANSITIONS
    <3>2. Cardinality(Projected(v)) = Cardinality(Items)
      BY <1>10, <3>1, ProjectedCount, Zenon
    <3> QED
      BY <3>2, ProjectedCount, Zenon
  <2> QED
    BY <2>1, <2>2, Zenon
<1>12. v.version >= Len(f) + 1 /\ v.version <= Len(f) + 1 + Cardinality(Projected(v))
  <2>1. Cardinality(Projected(v)) \in Nat /\ Cardinality(Projected(w)) \in Nat
    BY ProjectedCount, Zenon
  <2> QED
    BY <1>1, <1>3, <1>4, <1>6, <1>10, <1>11, <2>1
<1>13. Explained(v)
  BY <1>8, <1>9, <1>10, <1>12 DEF Explained
<1> QED
  BY <1>13, Zenon DEF v

\* A wave whose version grows by no more than the items stored on their own.
LEMMA ExplainedAs ==
  ASSUME NEW w \in Wave, NEW v \in Wave, Explained(w), v.state = w.state, v.events = w.events,
         w.version <= v.version,
         v.version + Cardinality(Projected(w)) <= w.version + Cardinality(Projected(v))
  PROVE  Explained(v)
<1>1. v.version >= Len(v.events) + 1 /\ v.version <= Len(v.events) + 1 + Cardinality(Projected(v))
  <2>1. /\ w.version >= Len(w.events) + 1
        /\ w.version <= Len(w.events) + 1 + Cardinality(Projected(w))
    BY Zenon DEF Explained
  <2>2. /\ Cardinality(Projected(v)) \in Nat /\ Cardinality(Projected(w)) \in Nat
        /\ v.version \in Nat /\ w.version \in Nat /\ Len(w.events) \in Nat
    BY ProjectedCount, LogLength, Zenon DEF Wave
  <2> QED
    BY <2>1, <2>2
<1> QED
  BY <1>1, ZenonT(30) DEF Explained

\* Unless it is being simulated, only the state, the version and the log of a
\* wave matter to its explanation.
LEMMA ExplainedAlike ==
  ASSUME NEW w \in Wave, NEW v \in Wave, Explained(w), v.state = w.state,
         v.version = w.version, v.events = w.events, w.state # "SIMULATING"
  PROVE  Explained(v)
<1>1. Projected(v) = Projected(w)
  BY Zenon DEF Projected
<1>2. w.version \in Nat /\ Cardinality(Projected(w)) \in Nat
  BY ProjectedCount, Zenon DEF Wave
<1>3. /\ w.version <= v.version
      /\ v.version + Cardinality(Projected(w)) <= w.version + Cardinality(Projected(v))
  BY <1>1, <1>2
<1> QED
  BY <1>3, ExplainedAs, Zenon

\* Appending an event to a log that continues another still continues it.
LEMMA AppendContinues ==
  ASSUME NEW S, NEW s \in Seq(S), NEW t \in Seq(S), NEW x \in S, Continues(t, s)
  PROVE  Continues(Append(t, x), s)
<1>1. Len(s) \in Nat /\ Len(t) \in Nat
  BY LogLength, Zenon
<1>2. /\ Len(Append(t, x)) = Len(t) + 1
      /\ \A n \in 1..Len(t) : Append(t, x)[n] = t[n]
  BY AppendToLog
<1> QED
  BY <1>1, <1>2 DEF Continues

\* A transition continues the log of its wave, and every log that one continues.
LEMMA TransitionContinues ==
  ASSUME NEW w \in Wave, NEW to \in WaveStates, NEW v \in Wave, Continues(w.events, v.events)
  PROVE  Continues(apply_wave_transition(w, to).events, v.events)
<1>1. /\ v.events \in Seq(WaveStates \X WaveStates)
      /\ w.events \in Seq(WaveStates \X WaveStates)
      /\ <<w.state, to>> \in WaveStates \X WaveStates
  BY Zenon DEF Wave
<1>2. Continues(Append(w.events, <<w.state, to>>), v.events)
  BY <1>1, AppendContinues, Zenon
<1> QED
  BY <1>2, TransitionFields, Zenon

\* The log of a wave continues itself.
LEMMA LogContinues ==
  ASSUME NEW w \in Wave
  PROVE  Continues(w.events, w.events)
<1>1. Len(w.events) \in Nat
  BY LogLength, Zenon DEF Wave
<1> QED
  BY <1>1 DEF Continues

\* Stores that only grow keep every sound wave sound.
LEMMA SoundGrows ==
  ASSUME NEW w, NEW ps, NEW ss, NEW ps2, NEW ss2, Sound(w, ps, ss),
         \A i \in Items, a \in Alternatives : ps[<<i, a>>] # None => ps2[<<i, a>>] # None,
         \A i \in Items : ss[i] # None => ss2[i] = ss[i]
  PROVE  Sound(w, ps2, ss2)
<1>1. ASSUME NEW i \in Items PROVE Evidence(i, w.items[i], ps2)
  BY Zenon DEF Sound, Evidence
<1>2. ASSUME NEW i \in Items PROVE OwnInput(i, w.items[i], ss2)
  BY Zenon DEF Sound, OwnInput
<1> QED
  BY <1>1, <1>2, Zenon DEF Sound

\* A wave whose items are not approved yet is kept up with as long as no item
\* is approved: the states before an approval ask nothing else.
LEMMA EarlyKeptUp ==
  ASSUME NEW w, w.handoffs = <<>>,
         w.state \notin {"APPROVED", "APPROVED_WITH_EXCEPTIONS", "STAGED", "HANDOFF_READY",
                         "CANCELLED"},
         \A i \in Items : w.items[i].state \notin {"APPROVED", "STAGED", "HANDOFF_READY"}
  PROVE  KeptUp(w)
<1>1. StateOfApproved(w.state) = {}
  BY Zenon DEF StateOfApproved
<1> QED
  BY <1>1, Zenon DEF KeptUp, ItemsIn

\* And conversely.
LEMMA EarlyItems ==
  ASSUME NEW w, KeptUp(w),
         w.state \notin {"APPROVED", "APPROVED_WITH_EXCEPTIONS", "STAGED", "HANDOFF_READY"}
  PROVE  /\ w.handoffs = <<>>
         /\ \A i \in Items : w.items[i].state \notin {"APPROVED", "STAGED", "HANDOFF_READY"}
<1>1. StateOfApproved(w.state) = {}
  BY Zenon DEF StateOfApproved
<1>2. ItemsIn(w.items, {"APPROVED", "STAGED", "HANDOFF_READY"}) = {}
  BY <1>1, Zenon DEF KeptUp, ItemsIn
<1> QED
  BY <1>2, Zenon DEF KeptUp, ItemsIn

-----------------------------------------------------------------------------
(* Steps of a command that do not write the wave.                           *)

\* The stores a command writes beside the wave only grow.
StoresGrow ==
  /\ sets' \in [Items -> Inputs \cup {None}]
  /\ packs' \in [Items \X Alternatives -> PackStatuses \cup {None}]
  /\ \A i \in Items, a \in Alternatives : packs[<<i, a>>] # None => packs'[<<i, a>>] # None
  /\ \A i \in Items : sets[i] # None => sets'[i] = sets[i]

\* A command that goes on with a sound wave and keeps what it has stored.
LEMMA CommandGoesOn ==
  ASSUME LifecycleInv, NEW r \in Requests, NEW k \in Request, k # Idle, Take(r, k),
         UNCHANGED <<wave, selections, stray, mix>>, StoresGrow,
         Sound(Held(k), packs', sets'), Ready(k, wave),
         \A i \in Items : Storing(requests, r, i) <=> k.pc \in Saved /\ k.item = i,
         \A i \in Items : Storing(requests, r, i) =>
           Choice(k) = Choice(requests[r]) /\ Base(k) = Base(requests[r])
  PROVE  LifecycleInv'
<1>1. /\ requests \in [Requests -> Request] /\ requests'[r] = k
      /\ requests' \in [Requests -> Request]
      /\ \A q \in Requests \ {r} : requests'[q] = requests[q]
  BY Zenon DEF LifecycleInv, TypeOK, Take
<1>2. TypeOK'
  BY <1>1, Zenon DEF LifecycleInv, TypeOK, StoresGrow
<1>3. Sound(wave', packs', sets')
  BY SoundGrows, Zenon DEF LifecycleInv, StoresGrow
<1>4. ASSUME NEW q \in Requests, requests'[q] # Idle
      PROVE  Sound(Held(requests'[q]), packs', sets') /\ Ready(requests'[q], wave')
  <2>1. CASE q = r
    BY <1>1, <2>1, Zenon
  <2>2. CASE q # r
    <3>1. Sound(Held(requests[q]), packs, sets) /\ Ready(requests[q], wave)
      BY <1>1, <1>4, <2>2, Zenon DEF LifecycleInv
    <3>2. Sound(Held(requests[q]), packs', sets')
      BY <3>1, SoundGrows DEF StoresGrow
    <3> QED
      BY <1>1, <2>2, <3>1, <3>2, Zenon
  <2> QED
    BY <2>1, <2>2, Zenon
<1>5. \A q \in Requests, i \in Items : Storing(requests', q, i) <=> Storing(requests, q, i)
  BY <1>1, Zenon DEF Storing
<1>6. \A q \in Requests, i \in Items : Storing(requests, q, i) =>
        /\ Choice(requests'[q]) = Choice(requests[q])
        /\ Base(requests'[q]) = Base(requests[q])
  BY <1>1, Zenon
<1>7. SelectionsTraced'
  BY <1>5, <1>6, Zenon DEF LifecycleInv, SelectionsTraced
<1> QED
  BY <1>2, <1>3, <1>4, <1>7, Zenon DEF LifecycleInv

\* A command that starts out from the stored wave.
LEMMA CommandStarts ==
  ASSUME LifecycleInv, NEW r \in Requests, requests[r] = Idle, NEW k \in Request, k # Idle,
         Take(r, k), UNCHANGED <<wave, sets, selections, packs, stray, mix>>,
         Sound(Held(k), packs, sets), Ready(k, wave),
         \A i \in Items : ~(k.pc \in Saved /\ k.item = i)
  PROVE  LifecycleInv'
<1>1. StoresGrow
  BY Zenon DEF LifecycleInv, TypeOK, StoresGrow
<1>2. \A i \in Items : ~Storing(requests, r, i)
  BY Zenon DEF Storing
<1>3. Sound(Held(k), packs', sets')
  BY Zenon
<1> QED
  BY <1>1, <1>2, <1>3, CommandGoesOn, ZenonT(30)

\* An item that only changes its state.
LEMMA StateChange ==
  ASSUME NEW item \in Item, NEW s \in ItemStates
  PROVE  LET moved == [item EXCEPT !.state = s]
         IN /\ moved \in Item /\ moved.state = s
            /\ moved.set = item.set /\ moved.selected = item.selected
            /\ moved.pack = item.pack /\ moved.proof = item.proof
            /\ moved.input = item.input
BY Zenon DEF Item

\* A command that builds the successor of the wave from other items, without
\* changing what they have selected, along an allowed transition.
LEMMA CommandBuilds ==
  ASSUME LifecycleInv, NEW r \in Requests, requests[r] = Idle,
         NEW w \in Wave, NEW to \in WaveStates,
         Take(r, Built(apply_wave_transition(w, to))),
         UNCHANGED <<wave, sets, selections, packs, stray, mix>>,
         w.state = wave.state, w.version = wave.version, w.events = wave.events,
         \A j \in Items : w.items[j].selected = wave.items[j].selected,
         validate_wave_transition(w.state, to), w.state # "SIMULATING",
         to = "SOURCE_CHECKED" => w.state = "CREATED",
         KeptUp(apply_wave_transition(w, to)),
         \A i \in Items : Evidence(i, w.items[i], packs) /\ OwnInput(i, w.items[i], sets)
  PROVE  LifecycleInv'
<1>1. PICK next \in Wave :
        /\ next = apply_wave_transition(w, to)
        /\ next.version = w.version + 1 /\ next.items = w.items
        /\ next.events = Append(w.events, <<w.state, to>>)
  BY TransitionFields, Zenon
<1>2. PICK k : k = Built(next)
  BY Zenon
<1>3. wave \in Wave /\ wave.version \in Nat /\ Explained(wave)
  BY Zenon DEF LifecycleInv, TypeOK, Wave, Sound
<1>4. /\ k = [pc |-> "persist", base |-> wave.version, next |-> next, item |-> None]
      /\ k.pc = "persist" /\ k.base = wave.version /\ k.next = next /\ k.item = None
  BY <1>2, Zenon DEF Built
<1>5. k \in Request /\ k # Idle /\ Held(k) = next /\ Base(k) = wave.version
  BY <1>3, <1>4, Zenon DEF Request, Idle, Held, Base
<1>6. Explained(next)
  <2>1. Explained(w)
    BY <1>3, ExplainedAlike, Zenon
  <2> QED
    BY <1>1, <2>1, TransitionExplained, Zenon
<1>7. Sound(next, packs, sets)
  BY <1>1, <1>6, Zenon DEF Sound
<1>8. Continues(next.events, wave.events)
  <2>1. Continues(w.events, wave.events)
    BY <1>3, LogContinues, Zenon
  <2> QED
    BY <1>1, <1>3, <2>1, TransitionContinues, Zenon
<1>9. Ready(k, wave)
  <2>1. k.base < k.next.version /\ Base(k) <= wave.version
    BY <1>1, <1>3, <1>4, <1>5
  <2>2. \A j \in Items : Held(k).items[j].selected = wave.items[j].selected
    BY <1>1, <1>5, Zenon
  <2> QED
    BY <1>4, <1>5, <1>8, <2>1, <2>2, Zenon DEF Ready
<1>10. \A i \in Items : k.item # i
  BY <1>4, LifecycleConstants, Zenon
<1> QED
  BY <1>1, <1>2, <1>5, <1>7, <1>9, <1>10, CommandStarts, Zenon

\* The stored wave, as the commands that build on it find it.
LEMMA StoredWave ==
  ASSUME LifecycleInv
  PROVE  /\ wave \in Wave /\ wave.items \in [Items -> Item]
         /\ Explained(wave) /\ KeptUp(wave)
         /\ \A i \in Items : /\ wave.items[i] \in Item
                             /\ Evidence(i, wave.items[i], packs)
                             /\ OwnInput(i, wave.items[i], sets)
BY Zenon DEF LifecycleInv, TypeOK, Wave, Sound

\* A source check.
LEMMA SourceCheckInv ==
  ASSUME LifecycleInv, NEW r \in Requests, SourceCheck(r)
  PROVE  LifecycleInv'
<1>1. PICK found \in [Items -> Readings] :
        Take(r, Built(apply_wave_transition(
                  WithItems(wave,
                    [i \in Items |-> [wave.items[i] EXCEPT !.state =
                       classify_wave_item_source_readiness(found[i])]]), "SOURCE_CHECKED")))
  BY Zenon DEF SourceCheck
<1>2. PICK items : items = [i \in Items |-> [wave.items[i] EXCEPT !.state =
                              classify_wave_item_source_readiness(found[i])]]
  BY Zenon
<1>3. ASSUME NEW i \in Items
      PROVE  /\ items[i] \in Item
             /\ items[i].state \in {"SOURCE_BLOCKED", "SOURCE_DEGRADED", "REVIEW_REQUIRED",
                                    "SOURCE_READY"}
             /\ items[i].selected = wave.items[i].selected
             /\ items[i].input = wave.items[i].input
  <2>1. classify_wave_item_source_readiness(found[i]) \in
          {"SOURCE_BLOCKED", "SOURCE_DEGRADED", "REVIEW_REQUIRED", "SOURCE_READY"}
    BY Zenon DEF classify_wave_item_source_readiness
  <2>2. classify_wave_item_source_readiness(found[i]) \in ItemStates
    BY <2>1, Zenon DEF ItemStates
  <2>3. items[i] = [wave.items[i] EXCEPT !.state = classify_wave_item_source_readiness(found[i])]
    BY <1>2, Zenon
  <2> QED
    BY <2>1, <2>2, <2>3, StoredWave, StateChange
<1>4. items \in [Items -> Item]
  BY <1>2, <1>3, Zenon
<1>5. PICK w \in Wave :
        /\ w = WithItems(wave, items)
        /\ w.state = wave.state /\ w.version = wave.version /\ w.items = items
        /\ w.events = wave.events /\ w.handoffs = wave.handoffs
  BY <1>4, StoredWave, WithItemsFields, Zenon
<1>6. wave.state = "CREATED" /\ requests[r] = Idle
  BY Zenon DEF SourceCheck, Prepares
<1>7. KeptUp(apply_wave_transition(w, "SOURCE_CHECKED"))
  <2>1. w.handoffs = <<>>
    BY <1>5, <1>6, StoredWave, EarlyItems, Zenon
  <2>2. "SOURCE_CHECKED" \in WaveStates
    BY Zenon DEF WaveStates
  <2>3. PICK next : next = apply_wave_transition(w, "SOURCE_CHECKED")
    BY Zenon
  <2>4. next.state = "SOURCE_CHECKED" /\ next.items = items /\ next.handoffs = <<>>
    BY <1>5, <2>1, <2>2, <2>3, TransitionFields, Zenon
  <2> QED
    BY <1>3, <2>3, <2>4, EarlyKeptUp, Zenon
<1>8. \A i \in Items : Evidence(i, w.items[i], packs) /\ OwnInput(i, w.items[i], sets)
  BY <1>3, <1>5, StoredWave, Zenon DEF Evidence, OwnInput
<1>9. validate_wave_transition(w.state, "SOURCE_CHECKED") /\ "SOURCE_CHECKED" \in WaveStates
  BY <1>5, <1>6, Zenon DEF validate_wave_transition, ALLOWED_WAVE_TRANSITIONS, WaveStates
<1>10. Take(r, Built(apply_wave_transition(w, "SOURCE_CHECKED")))
  BY <1>1, <1>2, <1>5, Zenon
<1>11. UNCHANGED <<wave, sets, selections, packs, stray, mix>>
  BY Zenon DEF SourceCheck
<1> QED
  BY <1>3, <1>5, <1>6, <1>7, <1>8, <1>9, <1>10, <1>11, CommandBuilds, Zenon

\* Two items that differ in their state at most.
SameButState(item, old) ==
  /\ item.set = old.set /\ item.selected = old.selected /\ item.pack = old.pack
  /\ item.proof = old.proof /\ item.input = old.input

\* A command that moves items to other states along an allowed transition.
LEMMA CommandMoves ==
  ASSUME LifecycleInv, NEW r \in Requests, requests[r] = Idle,
         NEW items \in [Items -> Item], NEW to \in WaveStates,
         \A i \in Items : SameButState(items[i], wave.items[i]),
         \A i \in Items : Evidence(i, items[i], packs),
         Take(r, Built(apply_wave_transition(WithItems(wave, items), to))),
         UNCHANGED <<wave, sets, selections, packs, stray, mix>>,
         validate_wave_transition(wave.state, to),
         wave.state # "SIMULATING", to # "SOURCE_CHECKED",
         \A next \in Wave :
           next.state = to /\ next.items = items /\ next.handoffs = wave.handoffs => KeptUp(next)
  PROVE  LifecycleInv'
<1>1. PICK w \in Wave :
        /\ w = WithItems(wave, items)
        /\ w.state = wave.state /\ w.version = wave.version /\ w.items = items
        /\ w.events = wave.events /\ w.handoffs = wave.handoffs
  BY StoredWave, WithItemsFields, Zenon
<1>2. PICK next \in Wave :
        /\ next = apply_wave_transition(w, to)
        /\ next.state = to /\ next.items = items /\ next.handoffs = wave.handoffs
  BY <1>1, TransitionFields
<1>3. KeptUp(apply_wave_transition(w, to))
  BY <1>2, Zenon
<1>4. \A i \in Items : /\ w.items[i].selected = wave.items[i].selected
                       /\ Evidence(i, w.items[i], packs) /\ OwnInput(i, w.items[i], sets)
  BY <1>1, StoredWave, Zenon DEF SameButState, OwnInput
<1>5. Take(r, Built(apply_wave_transition(w, to))) /\ validate_wave_transition(w.state, to)
  BY <1>1, Zenon
<1> QED
  BY <1>1, <1>3, <1>4, <1>5, CommandBuilds, Zenon

\* An approval.
LEMMA ApproveInv ==
  ASSUME LifecycleInv, NEW r \in Requests, Approve(r)
  PROVE  LifecycleInv'
<1>1. PICK items : items = Mapped(wave.items, approve_item)
  BY Zenon
<1>2. PICK to : to = IF ItemsIn(items, {"APPROVED"}) = Items THEN "APPROVED"
                     ELSE "APPROVED_WITH_EXCEPTIONS"
  BY Zenon
<1>3. /\ ItemsIn(items, {"APPROVED"}) # {}
      /\ validate_wave_transition(wave.state, to)
      /\ Take(r, Built(apply_wave_transition(WithItems(wave, items), to)))
      /\ requests[r] = Idle
      /\ wave.state \in {"SIMULATED", "PARTIALLY_SIMULATED", "REVIEW_REQUIRED"}
      /\ UNCHANGED <<wave, sets, selections, packs, stray, mix>>
  BY <1>1, <1>2, Zenon DEF Approve, Prepares
<1>4. /\ wave.handoffs = <<>>
      /\ \A i \in Items : wave.items[i].state \notin {"APPROVED", "STAGED", "HANDOFF_READY"}
  BY <1>3, StoredWave, EarlyItems, Zenon
<1>5. ASSUME NEW i \in Items
      PROVE  /\ items[i] \in Item /\ SameButState(items[i], wave.items[i])
             /\ items[i].state \notin {"STAGED", "HANDOFF_READY"}
             /\ Evidence(i, items[i], packs)
  <2>1. /\ wave.items[i] \in Item /\ items[i] = approve_item(wave.items[i])
        /\ Evidence(i, wave.items[i], packs) /\ "APPROVED" \in ItemStates
    BY <1>1, StoredWave, Zenon DEF Mapped, ItemStates
  <2>2. CASE /\ wave.items[i].state \in {"SELECTED", "PROOF_PACK_READY"}
             /\ wave.items[i].proof # "BLOCKED"
    <3>1. items[i] = [wave.items[i] EXCEPT !.state = "APPROVED"]
      BY <2>1, <2>2, Zenon DEF approve_item, proof_pack_blocked
    <3>2. items[i] \in Item /\ SameButState(items[i], wave.items[i]) /\ items[i].state = "APPROVED"
      BY <2>1, <3>1, StateChange DEF SameButState
    <3>3. Evidence(i, items[i], packs)
      BY <2>1, <2>2, <3>2, Zenon DEF Evidence, SameButState
    <3> QED
      BY <3>2, <3>3, Zenon
  <2>3. CASE ~(/\ wave.items[i].state \in {"SELECTED", "PROOF_PACK_READY"}
               /\ wave.items[i].proof # "BLOCKED")
    <3>1. items[i] = wave.items[i]
      BY <2>1, <2>3, Zenon DEF approve_item, proof_pack_blocked
    <3> QED
      BY <1>4, <2>1, <3>1, Zenon DEF SameButState
  <2> QED
    BY <2>2, <2>3, Zenon
<1>6. items \in [Items -> Item]
  BY <1>1, <1>5, Zenon DEF Mapped
<1>7. ASSUME NEW next \in Wave, next.state = to, next.items = items,
             next.handoffs = wave.handoffs
      PROVE  KeptUp(next)
  <2>1. StateOfApproved(to) = {"APPROVED"} /\ to \in {"APPROVED", "APPROVED_WITH_EXCEPTIONS"}
    BY <1>2, Zenon DEF StateOfApproved
  <2>2. ItemsIn(items, {"APPROVED", "STAGED", "HANDOFF_READY"}) = ItemsIn(items, {"APPROVED"})
    BY <1>5, Zenon DEF ItemsIn
  <2> QED
    BY <1>2, <1>3, <1>4, <1>7, <2>1, <2>2, Zenon DEF KeptUp
<1>8. to \in WaveStates /\ to # "SOURCE_CHECKED" /\ wave.state # "SIMULATING"
  BY <1>2, <1>3, Zenon DEF WaveStates
<1> QED
  BY <1>3, <1>5, <1>6, <1>7, <1>8, CommandMoves

\* A wave past its approval has approved items in one state only.
LEMMA ApprovedItems ==
  ASSUME NEW w, KeptUp(w), NEW s, StateOfApproved(w.state) = {s}, NEW i \in Items,
         w.items[i].state \in {"APPROVED", "STAGED", "HANDOFF_READY"}
  PROVE  w.items[i].state = s
<1>1. i \in ItemsIn(w.items, {"APPROVED", "STAGED", "HANDOFF_READY"})
  BY Zenon DEF ItemsIn
<1>2. i \in ItemsIn(w.items, {s})
  BY <1>1, Zenon DEF KeptUp
<1> QED
  BY <1>2, Zenon DEF ItemsIn

\* A staging.
LEMMA StageInv ==
  ASSUME LifecycleInv, NEW r \in Requests, Stage(r)
  PROVE  LifecycleInv'
<1>1. PICK items : items = Mapped(wave.items, stage_item)
  BY Zenon
<1>2. /\ ItemsIn(items, {"STAGED"}) # {}
      /\ Take(r, Built(apply_wave_transition(WithItems(wave, items), "STAGED")))
      /\ requests[r] = Idle
      /\ wave.state \in {"APPROVED", "APPROVED_WITH_EXCEPTIONS"}
      /\ UNCHANGED <<wave, sets, selections, packs, stray, mix>>
  BY <1>1, Zenon DEF Stage, Prepares
<1>3. StateOfApproved(wave.state) = {"APPROVED"} /\ wave.handoffs = <<>>
  BY <1>2, StoredWave, Zenon DEF StateOfApproved, KeptUp
<1>4. ASSUME NEW i \in Items
      PROVE  /\ items[i] \in Item /\ SameButState(items[i], wave.items[i])
             /\ items[i].state \notin {"APPROVED", "HANDOFF_READY"}
             /\ Evidence(i, items[i], packs)
  <2>1. /\ wave.items[i] \in Item /\ items[i] = stage_item(wave.items[i])
        /\ Evidence(i, wave.items[i], packs) /\ "STAGED" \in ItemStates
    BY <1>1, StoredWave, Zenon DEF Mapped, ItemStates
  <2>2. CASE wave.items[i].state = "APPROVED"
    <3>1. items[i] = [wave.items[i] EXCEPT !.state = "STAGED"]
      BY <2>1, <2>2, Zenon DEF stage_item, proof_pack_blocked, Evidence
    <3>2. items[i] \in Item /\ SameButState(items[i], wave.items[i]) /\ items[i].state = "STAGED"
      BY <2>1, <3>1, StateChange DEF SameButState
    <3>3. Evidence(i, items[i], packs)
      BY <2>1, <2>2, <3>2, Zenon DEF Evidence, SameButState
    <3> QED
      BY <3>2, <3>3, Zenon
  <2>3. CASE wave.items[i].state # "APPROVED"
    <3>1. items[i] = wave.items[i]
      BY <2>1, <2>3, Zenon DEF stage_item
    <3>2. wave.items[i].state \notin {"APPROVED", "STAGED", "HANDOFF_READY"}
      BY <1>3, <2>3, StoredWave, ApprovedItems, Zenon
    <3> QED
      BY <2>1, <3>1, <3>2, Zenon DEF SameButState
  <2> QED
    BY <2>2, <2>3, Zenon
<1>5. items \in [Items -> Item]
  BY <1>1, <1>4, Zenon DEF Mapped
<1>6. ASSUME NEW next \in Wave, next.state = "STAGED", next.items = items,
             next.handoffs = wave.handoffs
      PROVE  KeptUp(next)
  <2>1. StateOfApproved("STAGED") = {"STAGED"}
    BY Zenon DEF StateOfApproved
  <2>2. ItemsIn(items, {"APPROVED", "STAGED", "HANDOFF_READY"}) = ItemsIn(items, {"STAGED"})
    BY <1>4, Zenon DEF ItemsIn
  <2> QED
    BY <1>2, <1>3, <1>6, <2>1, <2>2, Zenon DEF KeptUp
<1>7. "STAGED" \in WaveStates /\ validate_wave_transition(wave.state, "STAGED")
  BY <1>2, Zenon DEF WaveStates, validate_wave_transition, ALLOWED_WAVE_TRANSITIONS
<1> QED
  BY <1>2, <1>4, <1>5, <1>6, <1>7, CommandMoves

\* A handoff.
LEMMA HandoffInv ==
  ASSUME LifecycleInv, NEW r \in Requests, Handoff(r)
  PROVE  LifecycleInv'
<1>1. PICK items : items = Mapped(wave.items, handoff_item)
  BY Zenon
<1>2. PICK ready : ready = ItemsIn(items, {"HANDOFF_READY"})
  BY Zenon
<1>3. PICK w : w = [WithItems(wave, items) EXCEPT !.handoffs = Append(wave.handoffs, ready)]
  BY Zenon
<1>4. /\ ready # {}
      /\ Take(r, Built(apply_wave_transition(w, "HANDOFF_READY")))
      /\ requests[r] = Idle
      /\ wave.state = "STAGED"
      /\ UNCHANGED <<wave, sets, selections, packs, stray, mix>>
  BY <1>1, <1>2, <1>3, Zenon DEF Handoff, Prepares
<1>5. StateOfApproved(wave.state) = {"STAGED"} /\ wave.handoffs = <<>>
  BY <1>4, StoredWave, Zenon DEF StateOfApproved, KeptUp
<1>6. ASSUME NEW i \in Items
      PROVE  /\ items[i] \in Item /\ SameButState(items[i], wave.items[i])
             /\ items[i].state \notin {"APPROVED", "STAGED"}
             /\ Evidence(i, items[i], packs)
  <2>1. /\ wave.items[i] \in Item /\ items[i] = handoff_item(wave.items[i])
        /\ Evidence(i, wave.items[i], packs) /\ "HANDOFF_READY" \in ItemStates
    BY <1>1, StoredWave, Zenon DEF Mapped, ItemStates
  <2>2. CASE wave.items[i].state = "STAGED"
    <3>1. items[i] = [wave.items[i] EXCEPT !.state = "HANDOFF_READY"]
      BY <2>1, <2>2, Zenon DEF handoff_item, proof_pack_blocked, Evidence
    <3>2. /\ items[i] \in Item /\ SameButState(items[i], wave.items[i])
          /\ items[i].state = "HANDOFF_READY"
      BY <2>1, <3>1, StateChange DEF SameButState
    <3>3. Evidence(i, items[i], packs)
      BY <2>1, <2>2, <3>2, Zenon DEF Evidence, SameButState
    <3> QED
      BY <3>2, <3>3, Zenon
  <2>3. CASE wave.items[i].state # "STAGED"
    <3>1. items[i] = wave.items[i]
      BY <2>1, <2>3, Zenon DEF handoff_item
    <3>2. wave.items[i].state \notin {"APPROVED", "STAGED", "HANDOFF_READY"}
      BY <1>5, <2>3, StoredWave, ApprovedItems, Zenon
    <3> QED
      BY <2>1, <3>1, <3>2, Zenon DEF SameButState
  <2> QED
    BY <2>2, <2>3, Zenon
<1>7. items \in [Items -> Item]
  BY <1>1, <1>6, Zenon DEF Mapped
<1>8. Append(wave.handoffs, ready) = <<ready>> /\ <<ready>> \in Seq(SUBSET Items)
  BY <1>2, <1>5 DEF ItemsIn
<1>9. /\ w \in Wave /\ w.state = wave.state /\ w.version = wave.version /\ w.items = items
      /\ w.events = wave.events /\ w.handoffs = <<ready>>
  <2>1. PICK v \in Wave :
          /\ v = WithItems(wave, items) /\ v.state = wave.state /\ v.version = wave.version
          /\ v.items = items /\ v.events = wave.events
    BY <1>7, StoredWave, WithItemsFields, Zenon
  <2> QED
    BY <1>3, <1>8, <2>1, Zenon DEF Wave
<1>10. "HANDOFF_READY" \in WaveStates /\ validate_wave_transition(w.state, "HANDOFF_READY")
  BY <1>4, <1>9, Zenon DEF WaveStates, validate_wave_transition, ALLOWED_WAVE_TRANSITIONS
<1>11. KeptUp(apply_wave_transition(w, "HANDOFF_READY"))
  <2>1. PICK next : next = apply_wave_transition(w, "HANDOFF_READY")
    BY Zenon
  <2>2. next.state = "HANDOFF_READY" /\ next.items = items /\ next.handoffs = <<ready>>
    BY <1>9, <1>10, <2>1, TransitionFields, Zenon
  <2>3. StateOfApproved("HANDOFF_READY") = {"HANDOFF_READY"}
    BY Zenon DEF StateOfApproved
  <2>4. ItemsIn(items, {"APPROVED", "STAGED", "HANDOFF_READY"})
          = ItemsIn(items, {"HANDOFF_READY"})
    BY <1>6, Zenon DEF ItemsIn
  <2> QED
    BY <1>2, <1>4, <2>1, <2>2, <2>3, <2>4, Zenon DEF KeptUp
<1>12. \A i \in Items : /\ w.items[i].selected = wave.items[i].selected
                        /\ Evidence(i, w.items[i], packs) /\ OwnInput(i, w.items[i], sets)
  BY <1>6, <1>9, StoredWave, Zenon DEF SameButState, OwnInput
<1> QED
  BY <1>4, <1>9, <1>10, <1>11, <1>12, CommandBuilds, Zenon

\* A cancellation: nothing is handed off in any state it starts from.
LEMMA CancelInv ==
  ASSUME LifecycleInv, NEW r \in Requests, Cancel(r)
  PROVE  LifecycleInv'
<1>1. PICK items : items = Mapped(wave.items, cancel_item)
  BY Zenon
<1>2. /\ Take(r, Built(apply_wave_transition(WithItems(wave, items), "CANCELLED")))
      /\ requests[r] = Idle
      /\ validate_wave_transition(wave.state, "CANCELLED")
      /\ UNCHANGED <<wave, sets, selections, packs, stray, mix>>
  BY <1>1, Zenon DEF Cancel, Prepares
<1>3. wave.state # "HANDOFF_READY" /\ wave.state # "SIMULATING"
  BY <1>2, Zenon DEF validate_wave_transition, ALLOWED_WAVE_TRANSITIONS
<1>4. \A i \in Items : wave.items[i].state # "HANDOFF_READY"
  <2>1. "HANDOFF_READY" \notin StateOfApproved(wave.state)
    BY <1>3, Zenon DEF StateOfApproved
  <2> QED
    BY <2>1, StoredWave, Zenon DEF KeptUp, ItemsIn
<1>5. ASSUME NEW i \in Items
      PROVE  /\ items[i] \in Item /\ SameButState(items[i], wave.items[i])
             /\ items[i].state = "EXCLUDED"
             /\ Evidence(i, items[i], packs)
  <2>1. wave.items[i] \in Item /\ "EXCLUDED" \in ItemStates
    BY StoredWave, Zenon DEF ItemStates
  <2>2. items[i] = [wave.items[i] EXCEPT !.state = "EXCLUDED"]
    BY <1>1, <1>4, Zenon DEF Mapped, cancel_item
  <2>3. items[i] \in Item /\ SameButState(items[i], wave.items[i]) /\ items[i].state = "EXCLUDED"
    BY <2>1, <2>2, StateChange DEF SameButState
  <2> QED
    BY <2>3, Zenon DEF Evidence
<1>6. items \in [Items -> Item]
  BY <1>1, <1>5, Zenon DEF Mapped
<1>7. ASSUME NEW next \in Wave, next.state = "CANCELLED", next.items = items,
             next.handoffs = wave.handoffs
      PROVE  KeptUp(next)
  <2>1. StateOfApproved("CANCELLED") = {}
    BY Zenon DEF StateOfApproved
  <2>2. /\ ItemsIn(items, {"APPROVED", "STAGED", "HANDOFF_READY"}) = {}
        /\ ItemsIn(items, {}) = {} /\ ItemsIn(items, {"EXCLUDED"}) = Items
    BY <1>5, Zenon DEF ItemsIn
  <2>3. wave.handoffs = <<>>
    BY <1>3, StoredWave, Zenon DEF KeptUp
  <2> QED
    BY <1>7, <2>1, <2>2, <2>3, Zenon DEF KeptUp
<1>8. PICK to \in WaveStates : to = "CANCELLED" /\ to # "SOURCE_CHECKED"
  BY Zenon DEF WaveStates
<1>9. \A i \in Items : SameButState(items[i], wave.items[i]) /\ Evidence(i, items[i], packs)
  BY <1>5, Zenon
<1>10. \A next \in Wave :
         next.state = to /\ next.items = items /\ next.handoffs = wave.handoffs => KeptUp(next)
  BY <1>7, <1>8, Zenon
<1>11. /\ Take(r, Built(apply_wave_transition(WithItems(wave, items), to)))
       /\ validate_wave_transition(wave.state, to)
  BY <1>2, <1>8, Zenon
<1> QED
  BY <1>2, <1>3, <1>6, <1>8, <1>9, <1>10, <1>11, CommandMoves, SMTT(20)

-----------------------------------------------------------------------------
(* Simulations and selections.                                              *)

\* A simulation starts from the stored wave.
LEMMA StartSimulationInv ==
  ASSUME LifecycleInv, NEW r \in Requests, StartSimulation(r)
  PROVE  LifecycleInv'
<1>1. PICK inputs \in [Items -> mix.inputs \cup {None}] :
        Take(r, [pc |-> "simulate", loaded |-> wave, inputs |-> inputs,
                 todo |-> ItemsIn(wave.items, {"SOURCE_READY"})])
  BY Zenon DEF StartSimulation
<1>2. PICK k : k = [pc |-> "simulate", loaded |-> wave, inputs |-> inputs,
                    todo |-> ItemsIn(wave.items, {"SOURCE_READY"})]
  BY Zenon
<1>3. k.pc = "simulate" /\ k.loaded = wave
  BY <1>2, Zenon
<1>4. k \in Request
  <2>1. inputs \in [Items -> Inputs \cup {None}]
    BY Zenon DEF LifecycleInv, TypeOK, Mix
  <2>2. ItemsIn(wave.items, {"SOURCE_READY"}) \in SUBSET Items
    BY Zenon DEF ItemsIn
  <2> QED
    BY <1>2, <2>1, <2>2, StoredWave, Zenon DEF Request
<1>5. k # Idle /\ Held(k) = wave /\ Base(k) = wave.version
  BY <1>3 DEF Idle, Held, Base
<1>6. Continues(wave.events, wave.events) /\ wave.version <= wave.version
  BY StoredWave, LogContinues DEF Wave
<1>7. wave.state = "SOURCE_CHECKED" /\ requests[r] = Idle
      /\ UNCHANGED <<wave, sets, selections, packs, stray, mix>>
  BY Zenon DEF StartSimulation, Prepares
<1>8. Ready(k, wave)
  BY <1>3, <1>5, <1>6, <1>7, Zenon DEF Ready
<1>9. Sound(Held(k), packs, sets)
  BY <1>5, Zenon DEF LifecycleInv
<1>10. k.pc \notin Saved /\ Take(r, k)
  BY <1>1, <1>2, <1>3, Zenon DEF Saved
<1> QED
  BY <1>4, <1>5, <1>7, <1>8, <1>9, <1>10, CommandStarts, Zenon

\* A selection starts from the stored wave.
LEMMA StartSelectionInv ==
  ASSUME LifecycleInv, NEW r \in Requests, NEW i \in Items, NEW a \in mix.alternatives,
         StartSelection(r, i, a)
  PROVE  LifecycleInv'
<1>1. PICK k : k = [pc |-> "select", loaded |-> wave, item |-> i, alternative |-> a,
                    status |-> None]
  BY Zenon
<1>2. /\ k.pc = "select" /\ k.loaded = wave /\ k.item = i /\ k.alternative = a
      /\ k.status = None
  BY <1>1, Zenon
<1>3. k \in Request
  <2>1. a \in Alternatives
    BY Zenon DEF LifecycleInv, TypeOK, Mix
  <2> QED
    BY <1>1, <2>1, StoredWave, Zenon DEF Request
<1>4. k # Idle /\ Held(k) = wave /\ Base(k) = wave.version
  BY <1>2 DEF Idle, Held, Base
<1>5. Continues(wave.events, wave.events) /\ wave.version <= wave.version
  BY StoredWave, LogContinues DEF Wave
<1>6. /\ wave.state \in {"SIMULATED", "PARTIALLY_SIMULATED"} /\ requests[r] = Idle
      /\ wave.items[i].set /\ a \notin Blocked /\ Take(r, k)
      /\ UNCHANGED <<wave, sets, selections, packs, stray, mix>>
  BY <1>1, Zenon DEF StartSelection, Prepares
<1>7. Ready(k, wave)
  BY <1>2, <1>4, <1>5, <1>6, Zenon DEF Ready
<1>8. Sound(Held(k), packs, sets)
  BY <1>4, Zenon DEF LifecycleInv
<1>9. k.pc \notin Saved
  BY <1>2, Zenon DEF Saved
<1> QED
  BY <1>3, <1>4, <1>6, <1>7, <1>8, <1>9, CommandStarts, Zenon

\* A simulation relies on nothing of its items but what they have selected.
LEMMA SimulationReady ==
  ASSUME NEW k, NEW k2, NEW w, k.pc = "simulate", k2.pc = "simulate", Ready(k, w),
         k2.loaded.state = k.loaded.state, k2.loaded.version = k.loaded.version,
         k2.loaded.events = k.loaded.events,
         \A j \in Items : k2.loaded.items[j].selected = k.loaded.items[j].selected
  PROVE  Ready(k2, w)
BY Zenon DEF Ready, Held, Base

\* A simulation that has an item less to do holds a sound wave: items of a
\* wave that is SOURCE_CHECKED are not approved, and a simulated one names the
\* input its stored set was constructed from.
LEMMA SimulatedRequest ==
  ASSUME NEW k \in Request, k.pc = "simulate", NEW i \in Items,
         NEW state \in {"SIMULATED", "SIMULATION_BLOCKED"}, NEW ps, NEW ss, NEW w,
         Sound(k.loaded, ps, ss), Ready(k, w), state = "SIMULATED" => ss[i] = k.inputs[i]
  PROVE  LET k2 == Simulated(k, i, state)
         IN /\ k2 \in Request /\ k2.pc = "simulate" /\ k2 # Idle
            /\ Sound(Held(k2), ps, ss) /\ Ready(k2, w)
<1>1. /\ k.loaded \in Wave /\ k.inputs \in [Items -> Inputs \cup {None}] /\ k.todo \subseteq Items
      /\ k.loaded.items \in [Items -> Item]
  BY RequestShape, Zenon DEF Wave
<1>2. PICK item : item = [k.loaded.items[i] EXCEPT
                            !.state = state, !.set = state = "SIMULATED",
                            !.input = IF state = "SIMULATED" THEN k.inputs[i] ELSE None]
  BY Zenon
<1>3. PICK input \in Inputs \cup {None} :
        /\ input = IF state = "SIMULATED" THEN k.inputs[i] ELSE None
        /\ input # None => ss[i] = input
  BY <1>1, Zenon
<1>4. /\ item \in Item /\ item.state = state /\ item.input = input
      /\ item.selected = k.loaded.items[i].selected
  <2>1. state \in ItemStates
    BY Zenon DEF ItemStates
  <2>2. PICK set \in BOOLEAN : set = (state = "SIMULATED")
    BY Zenon
  <2>3. item = [k.loaded.items[i] EXCEPT !.state = state, !.set = set, !.input = input]
    BY <1>2, <1>3, <2>2, Zenon
  <2> QED
    BY <1>1, <2>1, <2>3, ZenonT(30) DEF Item
<1>5. PICK items : items = [k.loaded.items EXCEPT ![i] = item]
  BY Zenon
<1>6. /\ items \in [Items -> Item] /\ items[i] = item
      /\ \A j \in Items \ {i} : items[j] = k.loaded.items[j]
  BY <1>1, <1>4, <1>5, Zenon
<1>7. PICK v \in Wave :
        /\ v = WithItems(k.loaded, items) /\ v.items = items
        /\ v.state = k.loaded.state /\ v.version = k.loaded.version
        /\ v.events = k.loaded.events /\ v.handoffs = k.loaded.handoffs
  BY <1>1, <1>6, WithItemsFields
<1>8. PICK k2 : k2 = Simulated(k, i, state)
  BY Zenon
<1>9. /\ k2 = [pc |-> "simulate", inputs |-> k.inputs, todo |-> k.todo \ {i}, loaded |-> v]
      /\ k2.pc = "simulate" /\ k2.loaded = v
  BY <1>2, <1>5, <1>7, <1>8, Zenon DEF Simulated
<1>10. k2 \in Request /\ k2 # Idle /\ Held(k2) = v /\ Base(k2) = Base(k)
  BY <1>1, <1>7, <1>9, Zenon DEF Request, Idle, Held, Base
<1>11. k.loaded.state = "SOURCE_CHECKED" /\ Held(k) = k.loaded
  BY Zenon DEF Ready, Held
<1>12. Sound(v, ps, ss)
  <2>1. Explained(v)
    BY <1>1, <1>7, <1>11, ExplainedAlike, Zenon DEF Sound
  <2>2. /\ k.loaded.handoffs = <<>>
        /\ \A j \in Items : k.loaded.items[j].state \notin {"APPROVED", "STAGED", "HANDOFF_READY"}
    BY <1>11, EarlyItems, Zenon DEF Sound
  <2>3. \A j \in Items : items[j].state \notin {"APPROVED", "STAGED", "HANDOFF_READY"}
    BY <1>4, <1>6, <2>2, Zenon
  <2>4. KeptUp(v)
    BY <1>7, <1>11, <2>2, <2>3, EarlyKeptUp, Zenon
  <2>5. \A j \in Items : Evidence(j, items[j], ps) /\ OwnInput(j, items[j], ss)
    <3>1. Evidence(i, item, ps) /\ OwnInput(i, item, ss)
      BY <1>3, <1>4, Zenon DEF Evidence, OwnInput
    <3> QED
      BY <1>6, <3>1, Zenon DEF Sound
  <2> QED
    BY <1>7, <2>1, <2>4, <2>5, Zenon DEF Sound
<1>13. Ready(k2, w)
  <2>1. \A j \in Items : v.items[j].selected = k.loaded.items[j].selected
    BY <1>4, <1>6, <1>7, Zenon
  <2> QED
    BY <1>7, <1>9, <2>1, SimulationReady
<1> QED
  BY <1>8, <1>9, <1>10, <1>12, <1>13, Zenon

\* A command under way, as its next step finds it.
LEMMA RequestUnderWay ==
  ASSUME LifecycleInv, NEW r \in Requests, requests[r].pc # "idle"
  PROVE  /\ requests[r] \in Request /\ requests[r] # Idle
         /\ Sound(Held(requests[r]), packs, sets) /\ Ready(requests[r], wave)
<1>1. requests[r] \in Request
  BY Zenon DEF LifecycleInv, TypeOK
<1>2. requests[r] # Idle
  BY <1>1, RequestShape, Zenon
<1> QED
  BY <1>1, <1>2, Zenon DEF LifecycleInv

\* The simulation of an item, which may store an alternative set.
LEMMA SimulateItemInv ==
  ASSUME LifecycleInv, NEW r \in Requests, NEW i \in Items, SimulateItem(r, i)
  PROVE  LifecycleInv'
<1>1. PICK k \in Request : k = requests[r]
  BY Zenon DEF LifecycleInv, TypeOK
<1>2. k.pc = "simulate" /\ UNCHANGED <<wave, selections, packs, stray, mix>>
  BY <1>1, Zenon DEF SimulateItem
<1>3. k # Idle /\ Sound(k.loaded, packs, sets) /\ Ready(k, wave)
  BY <1>1, <1>2, RequestUnderWay, Zenon DEF Held
<1>4. k.inputs[i] \in Inputs \cup {None}
  BY <1>2, RequestShape, Zenon
<1>5. PICK state \in {"SIMULATED", "SIMULATION_BLOCKED"} :
        /\ Take(r, Simulated(k, i, state))
        /\ sets' = sets \/ (sets[i] = None /\ sets' = [sets EXCEPT ![i] = k.inputs[i]])
        /\ state = "SIMULATED" =>
             sets[i] = k.inputs[i] \/ sets' = [sets EXCEPT ![i] = k.inputs[i]]
  BY <1>1, Zenon DEF SimulateItem, Replayed
<1>6. sets \in [Items -> Inputs \cup {None}]
  BY Zenon DEF LifecycleInv, TypeOK
<1>7. /\ sets' \in [Items -> Inputs \cup {None}]
      /\ \A j \in Items : sets[j] # None => sets'[j] = sets[j]
      /\ state = "SIMULATED" => sets'[i] = k.inputs[i]
  BY <1>4, <1>5, <1>6, Zenon
<1>8. StoresGrow
  BY <1>2, <1>7, Zenon DEF StoresGrow, LifecycleInv, TypeOK
<1>9. Sound(k.loaded, packs', sets')
  BY <1>3, <1>8, SoundGrows, Zenon DEF StoresGrow
<1>10. PICK k2 : k2 = Simulated(k, i, state)
  BY Zenon
<1>11. /\ k2 \in Request /\ k2.pc = "simulate" /\ k2 # Idle
       /\ Sound(Held(k2), packs', sets') /\ Ready(k2, wave)
  BY <1>2, <1>3, <1>7, <1>9, <1>10, SimulatedRequest, Zenon
<1>12. \A j \in Items : ~Storing(requests, r, j) /\ k2.pc \notin Saved
  BY <1>1, <1>2, <1>11, Zenon DEF Storing, Saved
<1> QED
  BY <1>2, <1>5, <1>8, <1>10, <1>11, <1>12, CommandGoesOn, Zenon

\* The two transitions of a simulated wave.
LEMMA SimulatedWaveSound ==
  ASSUME NEW w \in Wave, NEW ps, NEW ss, Sound(w, ps, ss), w.state = "SOURCE_CHECKED"
  PROVE  LET v == SimulatedWave(w)
         IN /\ v \in Wave /\ Sound(v, ps, ss) /\ w.version < v.version
            /\ v.items = w.items /\ Continues(v.events, w.events)
<1>1. PICK to \in {"SIMULATED", "PARTIALLY_SIMULATED", "SIMULATION_FAILED"} :
        to = simulation_result_state(w.items)
  BY Zenon DEF simulation_result_state
<1>2. to \in WaveStates /\ "SIMULATING" \in WaveStates
  BY <1>1, Zenon DEF WaveStates
<1>3. PICK u \in Wave :
        /\ u = apply_wave_transition(w, "SIMULATING")
        /\ u.state = "SIMULATING" /\ u.version = w.version + 1 /\ u.items = w.items
        /\ u.events = Append(w.events, <<w.state, "SIMULATING">>) /\ u.handoffs = w.handoffs
  BY <1>2, TransitionFields, Zenon
<1>4. PICK v \in Wave :
        /\ v = apply_wave_transition(u, to)
        /\ v.state = to /\ v.version = u.version + 1 /\ v.items = u.items
        /\ v.events = Append(u.events, <<u.state, to>>) /\ v.handoffs = u.handoffs
  BY <1>2, <1>3, TransitionFields, Zenon
<1>5. v = SimulatedWave(w)
  BY <1>1, <1>3, <1>4, Zenon DEF SimulatedWave
<1>6. Explained(v)
  <2>1. /\ validate_wave_transition(w.state, "SIMULATING")
        /\ validate_wave_transition(u.state, to)
    BY <1>1, <1>3, Zenon DEF validate_wave_transition, ALLOWED_WAVE_TRANSITIONS
  <2>2. Explained(u)
    BY <1>2, <1>3, <2>1, TransitionExplained, Zenon DEF Sound
  <2> QED
    BY <1>2, <1>4, <2>1, <2>2, TransitionExplained, Zenon
<1>7. KeptUp(v)
  <2>1. /\ w.handoffs = <<>>
        /\ \A i \in Items : w.items[i].state \notin {"APPROVED", "STAGED", "HANDOFF_READY"}
    BY EarlyItems, Zenon DEF Sound
  <2> QED
    BY <1>1, <1>3, <1>4, <2>1, EarlyKeptUp, Zenon
<1>8. Sound(v, ps, ss)
  BY <1>3, <1>4, <1>6, <1>7, Zenon DEF Sound
<1>9. Continues(v.events, w.events)
  <2>1. Continues(u.events, w.events)
    BY <1>2, <1>3, LogContinues, TransitionContinues, Zenon
  <2> QED
    BY <1>2, <1>4, <2>1, TransitionContinues, Zenon
<1>10. w.version < v.version
  BY <1>3, <1>4 DEF Wave
<1> QED
  BY <1>3, <1>4, <1>5, <1>8, <1>9, <1>10, Zenon

\* A log continues what the log it continues does.
LEMMA ContinuesTransitive ==
  ASSUME NEW u \in Wave, NEW v \in Wave, NEW w \in Wave,
         Continues(u.events, v.events), Continues(v.events, w.events)
  PROVE  Continues(u.events, w.events)
<1>1. Len(u.events) \in Nat /\ Len(v.events) \in Nat /\ Len(w.events) \in Nat
  BY LogLength, Zenon DEF Wave
<1> QED
  BY <1>1 DEF Continues

\* The end of a simulation.
LEMMA FinishSimulationInv ==
  ASSUME LifecycleInv, NEW r \in Requests, FinishSimulation(r)
  PROVE  LifecycleInv'
<1>1. PICK k \in Request : k = requests[r]
  BY Zenon DEF LifecycleInv, TypeOK
<1>2. k.pc = "simulate" /\ UNCHANGED <<wave, sets, selections, packs, stray, mix>>
  BY <1>1, Zenon DEF FinishSimulation
<1>3. /\ k # Idle /\ Sound(k.loaded, packs, sets) /\ Ready(k, wave)
      /\ Held(k) = k.loaded /\ Base(k) = k.loaded.version
  BY <1>1, <1>2, RequestUnderWay, Zenon DEF Held, Base
<1>4. k.loaded \in Wave /\ k.loaded.version \in Nat /\ k.loaded.state = "SOURCE_CHECKED"
  BY <1>2, <1>3, RequestShape, Zenon DEF Ready, Wave
<1>5. PICK v \in Wave :
        /\ v = SimulatedWave(k.loaded) /\ Sound(v, packs, sets)
        /\ k.loaded.version < v.version
        /\ v.items = k.loaded.items /\ Continues(v.events, k.loaded.events)
  BY <1>3, <1>4, SimulatedWaveSound, Zenon
<1>6. PICK k2 : k2 = [pc |-> "persist", base |-> k.loaded.version, next |-> v, item |-> None]
  BY Zenon
<1>7. /\ k2.pc = "persist" /\ k2.base = k.loaded.version /\ k2.next = v /\ k2.item = None
      /\ Take(r, k2)
  BY <1>1, <1>5, <1>6, Zenon DEF FinishSimulation
<1>8. k2 \in Request /\ k2 # Idle /\ Held(k2) = v /\ Base(k2) = k.loaded.version
  BY <1>4, <1>6, <1>7, Zenon DEF Request, Idle, Held, Base
<1>9. Ready(k2, wave)
  <2>1. Base(k2) <= wave.version /\ k2.base < k2.next.version
    BY <1>3, <1>5, <1>7, <1>8, Zenon DEF Ready
  <2>2. ASSUME Base(k2) = wave.version
        PROVE  /\ Continues(v.events, wave.events)
               /\ \A j \in Items : v.items[j].selected = wave.items[j].selected
    <3>1. /\ Continues(k.loaded.events, wave.events)
          /\ \A j \in Items : k.loaded.items[j].selected = wave.items[j].selected
      BY <1>2, <1>3, <1>8, <2>2, Zenon DEF Ready
    <3> QED
      BY <1>4, <1>5, <3>1, StoredWave, ContinuesTransitive, Zenon
  <2> QED
    BY <1>7, <1>8, <2>1, <2>2, Zenon DEF Ready
<1>10. StoresGrow /\ Sound(Held(k2), packs', sets')
  BY <1>2, <1>5, <1>8, Zenon DEF StoresGrow, LifecycleInv, TypeOK
<1>11. \A j \in Items : ~Storing(requests, r, j) /\ k2.item # j
  BY <1>1, <1>2, <1>7, LifecycleConstants, Zenon DEF Storing, Saved
<1> QED
  BY <1>2, <1>7, <1>8, <1>9, <1>10, <1>11, CommandGoesOn, Zenon

-----------------------------------------------------------------------------
(* Selections.                                                              *)

\* The selection of an item on the wave its command had loaded: the item names
\* the alternative its command stored, and a proof pack that is stored.
LEMMA SelectedRequest ==
  ASSUME NEW k \in Request, k.pc \in {"pack", "check", "insert"},
         NEW pack \in Alternatives \cup {None}, NEW proof \in PackStatuses,
         NEW ps, NEW ss, NEW w \in Wave, Sound(k.loaded, ps, ss), Ready(k, w),
         pack # None => pack = k.alternative /\ ps[<<k.item, pack>>] # None
  PROVE  LET k2 == Selected(k, pack, proof)
         IN /\ k2 \in Request /\ k2 # Idle /\ k2.pc = "persist" /\ k2.item = k.item
            /\ Sound(Held(k2), ps, ss) /\ Ready(k2, w)
            /\ Choice(k2) = k.alternative /\ Base(k2) = k.loaded.version
<1>1. /\ k.loaded \in Wave /\ k.item \in Items /\ k.alternative \in Alternatives
      /\ k.loaded.items \in [Items -> Item] /\ k.loaded.version \in Nat
  BY RequestShape, Zenon DEF Wave
<1>2. /\ k.loaded.state \in {"SIMULATED", "PARTIALLY_SIMULATED"}
      /\ k.loaded.items[k.item].set /\ k.alternative \notin Blocked
      /\ Held(k) = k.loaded /\ Base(k) = k.loaded.version
  BY Zenon DEF Ready, Held, Base
<1>3. PICK state \in {"PROOF_PACK_READY", "SELECTED"} :
        state = IF pack # None /\ proof # "BLOCKED" THEN "PROOF_PACK_READY" ELSE "SELECTED"
  BY Zenon
<1>4. PICK item : item = [k.loaded.items[k.item] EXCEPT
                            !.state = state, !.selected = k.alternative, !.pack = pack,
                            !.proof = proof]
  BY Zenon
<1>5. /\ item \in Item /\ item.state = state /\ item.selected = k.alternative
      /\ item.pack = pack /\ item.set = k.loaded.items[k.item].set
      /\ item.input = k.loaded.items[k.item].input
  <2>1. state \in ItemStates
    BY <1>3, Zenon DEF ItemStates
  <2> QED
    BY <1>1, <1>4, <2>1, ZenonT(30) DEF Item
<1>6. PICK items : items = [k.loaded.items EXCEPT ![k.item] = item]
  BY Zenon
<1>7. /\ items \in [Items -> Item] /\ items[k.item] = item
      /\ \A j \in Items \ {k.item} : items[j] = k.loaded.items[j]
  BY <1>1, <1>5, <1>6, Zenon
<1>8. PICK v \in Wave :
        /\ v = WithItems(k.loaded, items) /\ v.items = items
        /\ v.state = k.loaded.state /\ v.version = k.loaded.version
        /\ v.events = k.loaded.events /\ v.handoffs = k.loaded.handoffs
  BY <1>1, <1>7, WithItemsFields
<1>9. v.state \in WaveStates
  BY Zenon DEF Wave
<1>10. PICK next \in Wave :
        /\ next = apply_wave_transition(v, v.state) /\ next.items = items
        /\ next.state = v.state /\ next.version = v.version + 1
        /\ next.handoffs = v.handoffs
  BY <1>8, <1>9, TransitionFields
<1>11. PICK k2 : k2 = Selected(k, pack, proof)
  BY Zenon
<1>12. k2 = [pc |-> "persist", base |-> k.loaded.version, item |-> k.item, next |-> next]
  BY <1>3, <1>4, <1>6, <1>8, <1>10, <1>11, Zenon DEF Selected, SelectedItem
<1>13. /\ k2.pc = "persist" /\ k2.base = k.loaded.version /\ k2.item = k.item
       /\ k2.next = next
  BY <1>12, Zenon
<1>14. k2 \in Request /\ k2 # Idle /\ Held(k2) = next /\ Base(k2) = k.loaded.version
  BY <1>1, <1>12, <1>13, Zenon DEF Request, Idle, Held, Base
<1>15. Choice(k2) = k.alternative
  BY <1>5, <1>7, <1>10, <1>13, Zenon DEF Choice
<1>16. Sound(next, ps, ss)
  <2>1. Explained(v)
    BY <1>1, <1>2, <1>8, ExplainedAlike, Zenon DEF Sound
  <2>2. Explained(next)
    BY <1>2, <1>8, <1>9, <1>10, <2>1, TransitionExplained, Zenon
  <2>3. /\ k.loaded.handoffs = <<>>
        /\ \A j \in Items : k.loaded.items[j].state \notin {"APPROVED", "STAGED", "HANDOFF_READY"}
    BY <1>2, EarlyItems, Zenon DEF Sound
  <2>4. \A j \in Items : items[j].state \notin {"APPROVED", "STAGED", "HANDOFF_READY"}
    BY <1>3, <1>5, <1>7, <2>3, Zenon
  <2>5. KeptUp(next)
    BY <1>2, <1>8, <1>10, <2>3, <2>4, EarlyKeptUp, ZenonT(30)
  <2>6. \A j \in Items : Evidence(j, items[j], ps) /\ OwnInput(j, items[j], ss)
    <3>1. Evidence(k.item, item, ps)
      BY <1>1, <1>2, <1>3, <1>5, Zenon DEF Evidence
    <3>2. OwnInput(k.item, item, ss)
      BY <1>1, <1>5, Zenon DEF Sound, OwnInput
    <3> QED
      BY <1>7, <3>1, <3>2, Zenon DEF Sound
  <2> QED
    BY <1>10, <2>2, <2>5, <2>6, Zenon DEF Sound
<1>17. Ready(k2, w)
  <2>1. Base(k2) <= w.version /\ k2.base < k2.next.version
    BY <1>1, <1>2, <1>8, <1>10, <1>13, <1>14 DEF Ready
  <2>2. ASSUME Base(k2) = w.version
        PROVE  /\ Continues(next.events, w.events)
               /\ \A j \in Items : j # k.item => next.items[j].selected = w.items[j].selected
    <3>1. /\ Continues(k.loaded.events, w.events)
          /\ \A j \in Items : k.loaded.items[j].selected = w.items[j].selected
      BY <1>2, <1>14, <2>2, Zenon DEF Ready
    <3>2. Continues(v.events, w.events)
      BY <1>8, <3>1, Zenon
    <3>3. Continues(next.events, w.events)
      BY <1>9, <1>10, <3>2, TransitionContinues, Zenon
    <3> QED
      BY <1>7, <1>10, <3>1, <3>3, Zenon
  <2> QED
    BY <1>13, <1>14, <2>1, <2>2, Zenon DEF Ready
<1> QED
  BY <1>11, <1>13, <1>14, <1>15, <1>16, <1>17, Zenon

\* A command that has its proof pack, or does without one, goes on to write.
LEMMA SelectedGoesOn ==
  ASSUME LifecycleInv, NEW r \in Requests, requests[r].pc \in {"pack", "check", "insert"},
         NEW pack \in Alternatives \cup {None}, NEW proof \in PackStatuses,
         Take(r, Selected(requests[r], pack, proof)),
         UNCHANGED <<wave, selections, stray, mix>>, StoresGrow,
         pack # None => /\ pack = requests[r].alternative
                        /\ packs'[<<requests[r].item, pack>>] # None
  PROVE  LifecycleInv'
<1>1. PICK k \in Request : k = requests[r]
  BY Zenon DEF LifecycleInv, TypeOK
<1>2. /\ k # Idle /\ Sound(k.loaded, packs, sets) /\ Ready(k, wave)
      /\ Base(k) = k.loaded.version /\ Choice(k) = k.alternative
  BY <1>1, RequestUnderWay, Zenon DEF Held, Base, Choice
<1>3. Sound(k.loaded, packs', sets')
  BY <1>2, SoundGrows DEF StoresGrow
<1>4. PICK k2 : k2 = Selected(k, pack, proof)
  BY Zenon
<1>5. /\ k2 \in Request /\ k2 # Idle /\ k2.pc = "persist" /\ k2.item = k.item
      /\ Sound(Held(k2), packs', sets') /\ Ready(k2, wave)
      /\ Choice(k2) = k.alternative /\ Base(k2) = k.loaded.version
  BY <1>1, <1>2, <1>3, <1>4, StoredWave, SelectedRequest, ZenonT(30)
<1>6. \A j \in Items : Storing(requests, r, j) <=> k2.pc \in Saved /\ k2.item = j
  BY <1>1, <1>2, <1>5, Zenon DEF Storing, Saved
<1> QED
  BY <1>1, <1>2, <1>4, <1>5, <1>6, CommandGoesOn

\* A selection without a proof pack.
LEMMA NoPackInv ==
  ASSUME LifecycleInv, NEW r \in Requests, NoPack(r)
  PROVE  LifecycleInv'
<1>1. StoresGrow /\ "DEGRADED" \in PackStatuses
  BY Zenon DEF NoPack, StoresGrow, LifecycleInv, TypeOK, PackStatuses
<1> QED
  BY <1>1, SelectedGoesOn, Zenon DEF NoPack

\* The item and the alternative of a selection.
LEMMA SelectionShape ==
  ASSUME LifecycleInv, NEW r \in Requests,
         requests[r].pc \in {"select", "pack", "check", "insert"}
  PROVE  /\ requests[r] \in Request /\ requests[r].loaded \in Wave
         /\ requests[r].item \in Items /\ requests[r].alternative \in Alternatives
         /\ requests[r].status \in PackStatuses \cup {None}
BY RequestShape, Zenon DEF LifecycleInv, TypeOK

\* A selection that finds its proof pack.
LEMMA ReplayPackInv ==
  ASSUME LifecycleInv, NEW r \in Requests, ReplayPack(r)
  PROVE  LifecycleInv'
<1>1. PICK s \in PackStatuses :
        /\ packs[<<requests[r].item, requests[r].alternative>>] = s
        /\ Take(r, Selected(requests[r], requests[r].alternative, s))
  BY Zenon DEF ReplayPack, FindPack
<1>2. requests[r].pc = "pack" /\ UNCHANGED <<wave, sets, selections, packs, stray, mix>>
  BY Zenon DEF ReplayPack
<1>3. StoresGrow
  BY <1>2, Zenon DEF StoresGrow, LifecycleInv, TypeOK
<1>4. requests[r].alternative \in Alternatives /\ s # None
  BY <1>2, SelectionShape, LifecycleConstants, Zenon
<1> QED
  BY <1>1, <1>2, <1>3, <1>4, SelectedGoesOn, Zenon

\* A selection that moves on with the wave it has loaded.
LEMMA SelectionGoesOn ==
  ASSUME LifecycleInv, NEW r \in Requests, requests[r].pc \in {"pack", "check"},
         NEW pc \in {"check", "insert"}, NEW s \in PackStatuses,
         Take(r, [requests[r] EXCEPT !.pc = pc, !.status = s]),
         UNCHANGED <<wave, sets, selections, packs, stray, mix>>
  PROVE  LifecycleInv'
<1>1. PICK k \in Request : k = requests[r]
  BY Zenon DEF LifecycleInv, TypeOK
<1>2. PICK k2 : k2 = [k EXCEPT !.pc = pc, !.status = s]
  BY Zenon
<1>3. k \in [pc: {"select", "pack", "check", "insert"}, loaded: Wave, item: Items,
             alternative: Alternatives, status: PackStatuses \cup {None}]
  BY <1>1, RequestShape, Zenon
<1>4. /\ k2 \in [pc: {"select", "pack", "check", "insert"}, loaded: Wave, item: Items,
                 alternative: Alternatives, status: PackStatuses \cup {None}]
      /\ k2.pc = pc /\ k2.status = s /\ k2.loaded = k.loaded /\ k2.item = k.item
      /\ k2.alternative = k.alternative
  BY <1>2, <1>3, Zenon
<1>5. k2 \in Request /\ k2 # Idle
  BY <1>4 DEF Request, Idle
<1>6. /\ Held(k2) = Held(k) /\ Base(k2) = Base(k) /\ Choice(k2) = Choice(k)
  BY <1>1, <1>4, Zenon DEF Held, Base, Choice
<1>7. k # Idle /\ Sound(Held(k), packs, sets) /\ Ready(k, wave)
  BY <1>1, RequestUnderWay, Zenon
<1>8. Ready(k2, wave)
  <2>1. s # None
    BY LifecycleConstants, Zenon
  <2> QED
    BY <1>1, <1>4, <1>6, <1>7, <2>1 DEF Ready
<1>9. StoresGrow
  BY Zenon DEF StoresGrow, LifecycleInv, TypeOK
<1>10. \A j \in Items : Storing(requests, r, j) <=> k2.pc \in Saved /\ k2.item = j
  BY <1>1, <1>4, <1>7, Zenon DEF Storing, Saved
<1> QED
  BY <1>1, <1>2, <1>5, <1>6, <1>7, <1>8, <1>9, <1>10, CommandGoesOn, Zenon

\* A selection that builds its proof pack.
LEMMA BuildPackInv ==
  ASSUME LifecycleInv, NEW r \in Requests, NEW s \in mix.packs, BuildPack(r, s)
  PROVE  LifecycleInv'
<1>1. s \in PackStatuses
  BY Zenon DEF LifecycleInv, TypeOK, Mix
<1> QED
  BY <1>1, SelectionGoesOn, Zenon DEF BuildPack

\* A selection that looks whether its proof pack has been stored meanwhile.
LEMMA CheckPackInv ==
  ASSUME LifecycleInv, NEW r \in Requests, CheckPack(r)
  PROVE  LifecycleInv'
<1>1. requests[r].pc = "check" /\ UNCHANGED <<wave, sets, selections, packs, stray, mix>>
  BY Zenon DEF CheckPack
<1>2. CASE FindPack(requests[r]) = {}
  <2>1. Take(r, [requests[r] EXCEPT !.pc = "insert"])
    BY <1>2, Zenon DEF CheckPack
  <2>2. requests[r].status \in PackStatuses
    BY <1>1, SelectionShape, RequestUnderWay, Zenon DEF Ready
  <2>3. [requests[r] EXCEPT !.pc = "insert"]
          = [requests[r] EXCEPT !.pc = "insert", !.status = requests[r].status]
    BY <1>1, SelectionShape, RequestShape, Zenon
  <2> QED
    BY <1>1, <2>1, <2>2, <2>3, SelectionGoesOn, Zenon
<1>3. CASE FindPack(requests[r]) # {}
  <2>1. Take(r, Selected(requests[r], None, "DEGRADED"))
    BY <1>3, Zenon DEF CheckPack
  <2>2. StoresGrow /\ "DEGRADED" \in PackStatuses
    BY <1>1, Zenon DEF StoresGrow, LifecycleInv, TypeOK, PackStatuses
  <2> QED
    BY <1>1, <2>1, <2>2, SelectedGoesOn, Zenon
<1> QED
  BY <1>2, <1>3, Zenon

\* A selection that stores its proof pack.
LEMMA InsertPackInv ==
  ASSUME LifecycleInv, NEW r \in Requests, InsertPack(r)
  PROVE  LifecycleInv'
<1>1. /\ requests[r].pc = "insert" /\ UNCHANGED <<wave, sets, selections, stray, mix>>
      /\ Take(r, Selected(requests[r], requests[r].alternative, requests[r].status))
  BY Zenon DEF InsertPack
<1>2. PICK p \in Items \X Alternatives :
        p = <<requests[r].item, requests[r].alternative>>
  BY <1>1, SelectionShape, Zenon
<1>3. requests[r].status \in PackStatuses /\ requests[r].status # None
  BY <1>1, SelectionShape, RequestUnderWay, Zenon DEF Ready
<1>4. packs \in [Items \X Alternatives -> PackStatuses \cup {None}]
  BY Zenon DEF LifecycleInv, TypeOK
<1>5. packs' = [packs EXCEPT ![p] = IF packs[p] = None THEN requests[r].status ELSE packs[p]]
  BY <1>2, Zenon DEF InsertPack
<1>6. /\ packs' \in [Items \X Alternatives -> PackStatuses \cup {None}]
      /\ packs'[p] # None
      /\ \A q \in Items \X Alternatives : packs[q] # None => packs'[q] # None
  BY <1>2, <1>3, <1>4, <1>5, Zenon
<1>7. StoresGrow
  <2>1. sets' \in [Items -> Inputs \cup {None}] /\ sets' = sets
    BY <1>1, Zenon DEF LifecycleInv, TypeOK
  <2> QED
    BY <1>6, <2>1, Zenon DEF StoresGrow
<1>8. requests[r].alternative \in Alternatives
  BY <1>1, SelectionShape, Zenon
<1> QED
  BY <1>1, <1>2, <1>3, <1>6, <1>7, <1>8, SelectedGoesOn, Zenon

\* A selection that is stored: from here its command has something to write, and
\* whoever stored another selection of the item before is no longer the last.
LEMMA SaveSelectionInv ==
  ASSUME LifecycleInv, NEW r \in Requests, SaveSelection(r)
  PROVE  LifecycleInv'
<1>1. PICK k \in Request : k = requests[r]
  BY Zenon DEF LifecycleInv, TypeOK
<1>2. /\ k.pc = "select" /\ UNCHANGED <<wave, sets, packs, stray, mix>>
      /\ selections' = [selections EXCEPT ![k.item] = k.alternative]
  BY <1>1, Zenon DEF SaveSelection
<1>3. PICK k2 : k2 = [k EXCEPT !.pc = "pack"]
  BY Zenon
<1>4. k \in [pc: {"select", "pack", "check", "insert"}, loaded: Wave, item: Items,
             alternative: Alternatives, status: PackStatuses \cup {None}]
  BY <1>2, RequestShape, Zenon
<1>5. /\ k2 \in [pc: {"select", "pack", "check", "insert"}, loaded: Wave, item: Items,
                 alternative: Alternatives, status: PackStatuses \cup {None}]
      /\ k2.pc = "pack" /\ k2.loaded = k.loaded /\ k2.item = k.item
      /\ k2.alternative = k.alternative
  BY <1>3, <1>4, Zenon
<1>6. k2 \in Request /\ k2 # Idle
  BY <1>5 DEF Request, Idle
<1>7. Held(k2) = Held(k) /\ Base(k2) = Base(k) /\ Choice(k2) = k.alternative
  BY <1>2, <1>5, Zenon DEF Held, Base, Choice
<1>8. k # Idle /\ Sound(Held(k), packs, sets) /\ Ready(k, wave)
  BY <1>1, <1>2, RequestUnderWay, Zenon
<1>9. Ready(k2, wave)
  BY <1>2, <1>5, <1>7, <1>8 DEF Ready
<1>10. /\ requests' \in [Requests -> Request] /\ requests'[r] = k2
       /\ \A q \in Requests \ {r} : requests'[q] = requests[q]
  BY <1>1, <1>3, <1>6, Zenon DEF SaveSelection, Take, LifecycleInv, TypeOK
<1>11. /\ selections' \in [Items -> Alternatives \cup {None}]
       /\ selections'[k.item] = k.alternative
       /\ \A j \in Items \ {k.item} : selections'[j] = selections[j]
  BY <1>2, <1>4, Zenon DEF LifecycleInv, TypeOK
<1>12. TypeOK'
  BY <1>2, <1>10, <1>11, Zenon DEF LifecycleInv, TypeOK
<1>13. \A q \in Requests : requests'[q] # Idle =>
         Sound(Held(requests'[q]), packs', sets') /\ Ready(requests'[q], wave')
  BY <1>2, <1>7, <1>8, <1>9, <1>10, Zenon DEF LifecycleInv
<1>14. /\ Storing(requests', r, k.item)
       /\ \A j \in Items \ {k.item} : ~Storing(requests', r, j)
       /\ \A j \in Items : ~Storing(requests, r, j)
       /\ \A q \in Requests \ {r}, j \in Items :
            Storing(requests', q, j) <=> Storing(requests, q, j)
  BY <1>1, <1>2, <1>5, <1>6, <1>10, Zenon DEF Storing, Saved
<1>15. ASSUME NEW j \in Items
       PROVE  \/ wave'.items[j].selected \in {None, selections'[j]}
              \/ j \in stray'
              \/ \E q \in Requests : Storing(requests', q, j)
  <2>1. CASE j = k.item
    BY <1>14, <2>1, Zenon
  <2>2. CASE j # k.item
    BY <1>2, <1>11, <1>14, <2>2, Zenon DEF LifecycleInv, SelectionsTraced
  <2> QED
    BY <2>1, <2>2, Zenon
<1>16. ASSUME NEW q \in Requests, NEW j \in Items, Storing(requests', q, j)
       PROVE  \/ Base(requests'[q]) < wave'.version
              \/ Choice(requests'[q]) = selections'[j]
              \/ j \in stray'
              \/ \E p \in Requests \ {q} : Storing(requests', p, j)
  <2>1. CASE q = r
    BY <1>7, <1>10, <1>11, <1>14, <1>16, <2>1, Zenon
  <2>2. CASE q # r /\ j = k.item
    BY <1>14, <2>2, Zenon
  <2>3. CASE q # r /\ j # k.item
    <3>1. Storing(requests, q, j) /\ requests'[q] = requests[q]
      BY <1>10, <1>14, <1>16, <2>3, Zenon
    <3>2. \/ Base(requests[q]) < wave.version
          \/ Choice(requests[q]) = selections[j]
          \/ j \in stray
          \/ \E p \in Requests \ {q} : Storing(requests, p, j)
      BY <3>1, Zenon DEF LifecycleInv, SelectionsTraced
    <3> QED
      BY <1>2, <1>11, <1>14, <2>3, <3>1, <3>2, Zenon
  <2> QED
    BY <2>1, <2>2, <2>3, Zenon
<1> QED
  BY <1>2, <1>12, <1>13, <1>15, <1>16, Zenon DEF LifecycleInv, SelectionsTraced

\* A selection stored by the construction routes.
LEMMA SelectDirectlyInv ==
  ASSUME LifecycleInv, NEW i \in Items, NEW a \in mix.alternatives, SelectDirectly(i, a)
  PROVE  LifecycleInv'
<1>1. /\ selections' = [selections EXCEPT ![i] = a] /\ stray' = stray \cup {i}
      /\ UNCHANGED <<wave, sets, packs, requests, mix>>
  BY Zenon DEF SelectDirectly
<1>2. a \in Alternatives
  BY Zenon DEF LifecycleInv, TypeOK, Mix
<1>3. /\ selections' \in [Items -> Alternatives \cup {None}]
      /\ \A j \in Items \ {i} : selections'[j] = selections[j]
  BY <1>1, <1>2, Zenon DEF LifecycleInv, TypeOK
<1>4. TypeOK'
  BY <1>1, <1>3, Zenon DEF LifecycleInv, TypeOK
<1>5. \A j \in Items : j \in stray' \/ (selections'[j] = selections[j] /\ j \notin stray)
  BY <1>1, <1>3, Zenon
<1>6. SelectionsTraced'
  BY <1>1, <1>5, Zenon DEF LifecycleInv, SelectionsTraced
<1> QED
  BY <1>1, <1>4, <1>6, Zenon DEF LifecycleInv

-----------------------------------------------------------------------------
(* Steps that write the wave, or that end a command.                        *)

\* A command whose wave has been overtaken relies on nothing of the new one.
LEMMA ReadyLater ==
  ASSUME NEW k \in Request, k # Idle, NEW w \in Wave, NEW v \in Wave,
         Ready(k, w), w.version < v.version
  PROVE  Ready(k, v) /\ Base(k) < v.version
<1>1. Base(k) \in Nat /\ w.version \in Nat /\ v.version \in Nat
  BY HeldType, Zenon DEF Wave
<1>2. Base(k) <= w.version
  BY Zenon DEF Ready
<1>3. Base(k) < v.version /\ Base(k) <= v.version /\ Base(k) # v.version
  BY <1>1, <1>2
<1> QED
  BY <1>3, Zenon DEF Ready

\* The wave moves on by itself, with what its items have selected.
LEMMA WaveMoves ==
  ASSUME LifecycleInv, wave' \in Wave, wave.version < wave'.version,
         Sound(wave', packs, sets),
         \A i \in Items : wave'.items[i].selected = wave.items[i].selected,
         UNCHANGED <<sets, selections, packs, requests, stray, mix>>
  PROVE  LifecycleInv'
<1>1. TypeOK'
  BY Zenon DEF LifecycleInv, TypeOK, Wave
<1>2. ASSUME NEW q \in Requests, requests[q] # Idle
      PROVE  /\ Sound(Held(requests[q]), packs, sets) /\ Ready(requests[q], wave')
             /\ Base(requests[q]) < wave'.version
  <2>1. requests[q] \in Request
    BY Zenon DEF LifecycleInv, TypeOK
  <2>2. Sound(Held(requests[q]), packs, sets) /\ Ready(requests[q], wave)
    BY <1>2, Zenon DEF LifecycleInv
  <2> QED
    BY <1>2, <2>1, <2>2, StoredWave, ReadyLater, Zenon
<1>3. SelectionsTraced'
  <2>1. ASSUME NEW q \in Requests, NEW i \in Items, Storing(requests', q, i)
        PROVE  Base(requests'[q]) < wave'.version
    BY <1>2, <2>1, Zenon DEF Storing
  <2> QED
    BY <2>1, Zenon DEF LifecycleInv, SelectionsTraced
<1> QED
  BY <1>1, <1>2, <1>3, Zenon DEF LifecycleInv

\* The durable operation is admitted.
LEMMA AdmitDurableInv ==
  ASSUME LifecycleInv, AdmitDurable
  PROVE  LifecycleInv' /\ Continues(wave'.events, wave.events)
<1>1. /\ wave.state = "SOURCE_CHECKED" /\ wave' = apply_wave_transition(wave, "SIMULATING")
      /\ UNCHANGED <<sets, selections, packs, requests, stray, mix>>
  BY Zenon DEF AdmitDurable
<1>2. /\ "SIMULATING" \in WaveStates /\ validate_wave_transition(wave.state, "SIMULATING")
  BY <1>1, Zenon DEF WaveStates, validate_wave_transition, ALLOWED_WAVE_TRANSITIONS
<1>3. /\ wave' \in Wave /\ wave'.state = "SIMULATING" /\ wave'.version = wave.version + 1
      /\ wave'.items = wave.items /\ wave'.handoffs = wave.handoffs
  BY <1>1, <1>2, StoredWave, TransitionFields, Zenon
<1>4. Explained(wave')
  BY <1>1, <1>2, StoredWave, TransitionExplained, Zenon
<1>5. KeptUp(wave')
  <2>1. /\ wave.handoffs = <<>>
        /\ \A j \in Items : wave.items[j].state \notin {"APPROVED", "STAGED", "HANDOFF_READY"}
    BY <1>1, StoredWave, EarlyItems, Zenon
  <2> QED
    BY <1>3, <2>1, EarlyKeptUp, Zenon
<1>6. Sound(wave', packs, sets)
  BY <1>3, <1>4, <1>5, StoredWave, Zenon DEF Sound
<1>7. wave.version < wave'.version
  BY <1>3, StoredWave DEF Wave
<1>8. Continues(wave'.events, wave.events)
  BY <1>1, <1>2, StoredWave, LogContinues, TransitionContinues, Zenon
<1> QED
  BY <1>1, <1>3, <1>6, <1>7, <1>8, WaveMoves, Zenon

\* The items a reconciliation leaves: they keep what they rest on and selected,
\* none is approved, and no verdict is taken back.
SettledItems(items) ==
  /\ items \in [Items -> Item]
  /\ wave.handoffs = <<>>
  /\ \A i \in Items :
       /\ items[i].selected = wave.items[i].selected
       /\ items[i].state \notin {"APPROVED", "STAGED", "HANDOFF_READY"}
       /\ Evidence(i, items[i], packs) /\ OwnInput(i, items[i], sets)
  /\ ItemsIn(wave.items, {"SIMULATED", "SIMULATION_BLOCKED"})
       \subseteq ItemsIn(items, {"SIMULATED", "SIMULATION_BLOCKED"})

\* Every reconciliation leaves such items.
LEMMA ReconciledItems ==
  ASSUME LifecycleInv, wave.state = "SIMULATING", NEW simulated, NEW failed,
         MaySettle(simulated, failed), NEW items, items = Reconciled(simulated, failed)
  PROVE  SettledItems(items)
<1>1. /\ wave.handoffs = <<>>
      /\ \A i \in Items : wave.items[i].state \notin {"APPROVED", "STAGED", "HANDOFF_READY"}
  BY StoredWave, EarlyItems, Zenon
<1>2. ASSUME NEW i \in Items
      PROVE  /\ items[i] \in Item /\ items[i].selected = wave.items[i].selected
             /\ items[i].state \notin {"APPROVED", "STAGED", "HANDOFF_READY"}
             /\ Evidence(i, items[i], packs) /\ OwnInput(i, items[i], sets)
             /\ \/ items[i].state \in {"SIMULATED", "SIMULATION_BLOCKED"}
                \/ items[i] = wave.items[i]
  <2>1. /\ wave.items[i] \in Item /\ Evidence(i, wave.items[i], packs)
        /\ OwnInput(i, wave.items[i], sets)
        /\ "SIMULATED" \in ItemStates /\ "SIMULATION_BLOCKED" \in ItemStates
    BY StoredWave, Zenon DEF ItemStates
  <2>2. CASE i \in simulated
    <3>1. items[i] = [wave.items[i] EXCEPT !.state = "SIMULATED", !.set = TRUE]
      BY <2>2, Zenon DEF Reconciled
    <3>2. /\ items[i] \in Item /\ items[i].selected = wave.items[i].selected
          /\ items[i].state = "SIMULATED" /\ items[i].input = wave.items[i].input
      BY <2>1, <3>1, Zenon DEF Item
    <3> QED
      BY <2>1, <3>2, Zenon DEF Evidence, OwnInput
  <2>3. CASE i \notin simulated /\ i \in failed
    <3>1. items[i] = [wave.items[i] EXCEPT !.state = "SIMULATION_BLOCKED"]
      BY <2>3, Zenon DEF Reconciled
    <3>2. /\ items[i] \in Item /\ items[i].selected = wave.items[i].selected
          /\ items[i].state = "SIMULATION_BLOCKED" /\ items[i].input = wave.items[i].input
      BY <2>1, <3>1, StateChange
    <3> QED
      BY <2>1, <3>2, Zenon DEF Evidence, OwnInput
  <2>4. CASE i \notin simulated /\ i \notin failed
    <3>1. items[i] = wave.items[i]
      BY <2>4, Zenon DEF Reconciled
    <3> QED
      BY <1>1, <2>1, <3>1, Zenon
  <2> QED
    BY <2>2, <2>3, <2>4, Zenon
<1>3. items \in [Items -> Item]
  BY <1>2, Zenon DEF Reconciled
<1>4. ItemsIn(wave.items, {"SIMULATED", "SIMULATION_BLOCKED"})
        \subseteq ItemsIn(items, {"SIMULATED", "SIMULATION_BLOCKED"})
  BY <1>2, Zenon DEF ItemsIn
<1> QED
  BY <1>1, <1>2, <1>3, <1>4, Zenon DEF SettledItems

\* A reconciliation that changes an item settles one that was not.
LEMMA VerdictsGrow ==
  ASSUME LifecycleInv, NEW simulated, NEW failed, MaySettle(simulated, failed),
         NEW items, items = Reconciled(simulated, failed), items # wave.items
  PROVE  ItemsIn(wave.items, {"SIMULATED", "SIMULATION_BLOCKED"})
           # ItemsIn(items, {"SIMULATED", "SIMULATION_BLOCKED"})
<1>1. PICK i \in Items : items[i] # wave.items[i]
  <2>1. items = [i \in Items |-> items[i]] /\ wave.items = [i \in Items |-> wave.items[i]]
    BY StoredWave, Zenon DEF Reconciled
  <2> QED
    BY <2>1, Zenon
<1>2. wave.items[i] \in Item
  BY StoredWave, Zenon
<1>3. CASE i \in simulated
  <2>1. items[i] = [wave.items[i] EXCEPT !.state = "SIMULATED", !.set = TRUE]
    BY <1>3, Zenon DEF Reconciled
  <2>2. items[i].state = "SIMULATED" /\ wave.items[i].state = "SOURCE_READY"
    BY <1>2, <1>3, <2>1, Zenon DEF Item, MaySettle, ItemsIn
  <2> QED
    BY <2>2, Zenon DEF ItemsIn
<1>4. CASE i \notin simulated
  <2>1. i \in failed /\ wave.items[i].state # "SIMULATED"
    BY <1>1, <1>4, Zenon DEF Reconciled, MaySettle, ItemsIn
  <2>2. items[i] = [wave.items[i] EXCEPT !.state = "SIMULATION_BLOCKED"]
    BY <1>4, <2>1, Zenon DEF Reconciled
  <2>3. items[i].state = "SIMULATION_BLOCKED"
    BY <1>2, <2>2, Zenon DEF Item
  <2>4. wave.items[i].state # "SIMULATION_BLOCKED"
    BY <1>1, <1>2, <2>2 DEF Item
  <2> QED
    BY <2>1, <2>3, <2>4, Zenon DEF ItemsIn
<1> QED
  BY <1>3, <1>4, Zenon

\* The durable operation stores the items it has settled so far.
LEMMA ProjectDurableInv ==
  ASSUME LifecycleInv, ProjectDurable
  PROVE  LifecycleInv' /\ Continues(wave'.events, wave.events)
<1>1. PICK simulated \in SUBSET Items, failed \in SUBSET Items :
        /\ MaySettle(simulated, failed)
        /\ Reconciled(simulated, failed) # wave.items
        /\ wave' = [WithItems(wave, Reconciled(simulated, failed)) EXCEPT
                      !.version = wave.version + 1]
  BY Zenon DEF ProjectDurable
<1>2. /\ wave.state = "SIMULATING"
      /\ UNCHANGED <<sets, selections, packs, requests, stray, mix>>
  BY Zenon DEF ProjectDurable
<1>3. PICK items : items = Reconciled(simulated, failed) /\ items # wave.items
  BY <1>1, Zenon
<1>4. /\ items \in [Items -> Item] /\ wave.handoffs = <<>>
      /\ \A i \in Items :
           /\ items[i].selected = wave.items[i].selected
           /\ items[i].state \notin {"APPROVED", "STAGED", "HANDOFF_READY"}
           /\ Evidence(i, items[i], packs) /\ OwnInput(i, items[i], sets)
      /\ ItemsIn(wave.items, {"SIMULATED", "SIMULATION_BLOCKED"})
           \subseteq ItemsIn(items, {"SIMULATED", "SIMULATION_BLOCKED"})
  <2>1. SettledItems(items)
    BY <1>1, <1>2, <1>3, ReconciledItems, Zenon
  <2> QED
    BY <2>1, Zenon DEF SettledItems
<1>5. PICK w \in Wave :
        /\ w = WithItems(wave, items) /\ w.items = items
        /\ w.state = wave.state /\ w.version = wave.version
        /\ w.events = wave.events /\ w.handoffs = wave.handoffs
  BY <1>4, StoredWave, WithItemsFields, Zenon
<1>6. /\ wave' \in Wave /\ wave'.state = "SIMULATING" /\ wave'.version = wave.version + 1
      /\ wave'.items = items /\ wave'.events = wave.events /\ wave'.handoffs = <<>>
  <2>1. wave' = [w EXCEPT !.version = wave.version + 1] /\ wave.version + 1 \in Nat
    BY <1>1, <1>3, <1>5, StoredWave DEF Wave
  <2> QED
    BY <1>2, <1>4, <1>5, <2>1, Zenon DEF Wave
<1>7. Cardinality(Projected(wave)) + 1 <= Cardinality(Projected(wave'))
  <2>1. /\ Projected(wave) = ItemsIn(wave.items, {"SIMULATED", "SIMULATION_BLOCKED"})
        /\ Projected(wave') = ItemsIn(items, {"SIMULATED", "SIMULATION_BLOCKED"})
    BY <1>2, <1>6, Zenon DEF Projected
  <2>2. Projected(wave) \subseteq Projected(wave') /\ Projected(wave) # Projected(wave')
    BY <1>1, <1>3, <1>4, <2>1, VerdictsGrow, Zenon
  <2>3. /\ Cardinality(Projected(wave)) <= Cardinality(Projected(wave'))
        /\ Cardinality(Projected(wave)) # Cardinality(Projected(wave'))
    BY <2>2, ProjectedCount, FS_Subset, Zenon
  <2> QED
    BY <2>3, ProjectedCount
<1>8. Explained(wave')
  <2>1. /\ wave.version <= wave'.version
        /\ wave'.version + Cardinality(Projected(wave))
             <= wave.version + Cardinality(Projected(wave'))
    <3>1. /\ wave.version \in Nat /\ Cardinality(Projected(wave)) \in Nat
          /\ Cardinality(Projected(wave')) \in Nat
      BY StoredWave, ProjectedCount, Zenon DEF Wave
    <3> QED
      BY <1>6, <1>7, <3>1
  <2> QED
    BY <1>2, <1>6, <2>1, StoredWave, ExplainedAs, Zenon
<1>9. KeptUp(wave')
  BY <1>4, <1>6, EarlyKeptUp, Zenon
<1>10. Sound(wave', packs, sets)
  BY <1>4, <1>6, <1>8, <1>9, Zenon DEF Sound
<1>11. wave.version < wave'.version
  BY <1>6, StoredWave DEF Wave
<1>12. Continues(wave'.events, wave.events)
  BY <1>6, StoredWave, LogContinues, Zenon
<1> QED
  BY <1>2, <1>4, <1>6, <1>10, <1>11, <1>12, WaveMoves, Zenon

\* The durable operation closes the wave with the verdicts of its items.
LEMMA CloseDurableInv ==
  ASSUME LifecycleInv, CloseDurable
  PROVE  LifecycleInv' /\ Continues(wave'.events, wave.events)
<1>0. PICK simulated \in SUBSET Items, failed \in SUBSET Items :
        /\ MaySettle(simulated, failed)
        /\ wave' = apply_wave_transition(WithItems(wave, Reconciled(simulated, failed)),
                                         simulation_result_state(Reconciled(simulated, failed)))
  BY Zenon DEF CloseDurable
<1>1. PICK items :
        /\ MaySettle(simulated, failed) /\ items = Reconciled(simulated, failed)
        /\ wave' = apply_wave_transition(WithItems(wave, items), simulation_result_state(items))
  BY <1>0, Zenon
<1>2. /\ wave.state = "SIMULATING"
      /\ UNCHANGED <<sets, selections, packs, requests, stray, mix>>
  BY Zenon DEF CloseDurable
<1>3. /\ items \in [Items -> Item] /\ wave.handoffs = <<>>
      /\ \A i \in Items :
           /\ items[i].selected = wave.items[i].selected
           /\ items[i].state \notin {"APPROVED", "STAGED", "HANDOFF_READY"}
           /\ Evidence(i, items[i], packs) /\ OwnInput(i, items[i], sets)
      /\ ItemsIn(wave.items, {"SIMULATED", "SIMULATION_BLOCKED"})
           \subseteq ItemsIn(items, {"SIMULATED", "SIMULATION_BLOCKED"})
  <2>1. SettledItems(items)
    BY <1>1, <1>2, ReconciledItems, Zenon
  <2> QED
    BY <2>1, Zenon DEF SettledItems
<1>4. PICK w \in Wave :
        /\ w = WithItems(wave, items) /\ w.items = items
        /\ w.state = wave.state /\ w.version = wave.version
        /\ w.events = wave.events /\ w.handoffs = wave.handoffs
  BY <1>3, StoredWave, WithItemsFields, Zenon
<1>5. PICK to \in {"SIMULATED", "PARTIALLY_SIMULATED", "SIMULATION_FAILED"} :
        to = simulation_result_state(items)
  BY Zenon DEF simulation_result_state
<1>6. /\ to \in WaveStates /\ validate_wave_transition(w.state, to) /\ to # "SOURCE_CHECKED"
  BY <1>2, <1>4, <1>5, Zenon DEF WaveStates, validate_wave_transition, ALLOWED_WAVE_TRANSITIONS
<1>7. wave' = apply_wave_transition(w, to)
  BY <1>1, <1>4, <1>5, Zenon
<1>8. /\ wave' \in Wave /\ wave'.state = to /\ wave'.version = w.version + 1
       /\ wave'.items = items /\ wave'.handoffs = wave.handoffs
  BY <1>4, <1>6, <1>7, TransitionFields, Zenon
<1>9. Explained(wave')
  <2>1. Projected(wave) \subseteq Projected(w)
    BY <1>2, <1>3, <1>4, Zenon DEF Projected
  <2>2. Cardinality(Projected(wave)) <= Cardinality(Projected(w))
    BY <2>1, ProjectedCount, FS_Subset, Zenon
  <2>3. /\ wave.version <= w.version
        /\ w.version + Cardinality(Projected(wave)) <= wave.version + Cardinality(Projected(w))
    <3>1. /\ wave.version \in Nat /\ Cardinality(Projected(wave)) \in Nat
          /\ Cardinality(Projected(w)) \in Nat
      BY StoredWave, ProjectedCount, Zenon DEF Wave
    <3> QED
      BY <1>4, <2>2, <3>1
  <2>4. Explained(w)
    BY <1>4, <2>3, StoredWave, ExplainedAs, Zenon
  <2> QED
    BY <1>6, <1>7, <2>4, TransitionExplained, Zenon
<1>10. KeptUp(wave')
  BY <1>3, <1>5, <1>8, EarlyKeptUp, Zenon
<1>11. Sound(wave', packs, sets)
  BY <1>3, <1>8, <1>9, <1>10, Zenon DEF Sound
<1>12. wave.version < wave'.version
  BY <1>4, <1>8, StoredWave DEF Wave
<1>13. Continues(wave'.events, wave.events)
  <2>1. Continues(w.events, wave.events)
    BY <1>4, StoredWave, LogContinues, Zenon
  <2> QED
    BY <1>6, <1>7, <2>1, StoredWave, TransitionContinues, Zenon
<1> QED
  BY <1>2, <1>3, <1>8, <1>11, <1>12, <1>13, WaveMoves, Zenon

\* The requests after command r has ended.
LEMMA RequestsLeft ==
  ASSUME LifecycleInv, NEW r \in Requests, Take(r, Idle)
  PROVE  /\ requests' \in [Requests -> Request] /\ requests'[r] = Idle
         /\ \A q \in Requests \ {r} : requests'[q] = requests[q]
         /\ \A i \in Items : ~Storing(requests', r, i)
         /\ \A q \in Requests \ {r}, i \in Items :
              Storing(requests', q, i) <=> Storing(requests, q, i)
<1>1. Idle \in Request
  BY Zenon DEF Request
<1>2. /\ requests' \in [Requests -> Request] /\ requests'[r] = Idle
      /\ \A q \in Requests \ {r} : requests'[q] = requests[q]
  BY <1>1, Zenon DEF Take, LifecycleInv, TypeOK
<1> QED
  BY <1>2, Zenon DEF Storing

\* A command ends without writing the wave: what it has stored is stray.
LEMMA CommandEnds ==
  ASSUME LifecycleInv, NEW r \in Requests, Take(r, Idle), stray' \subseteq Items,
         stray \subseteq stray', \A i \in Items : Storing(requests, r, i) => i \in stray',
         UNCHANGED <<wave, sets, selections, packs, mix>>
  PROVE  LifecycleInv'
<1>1. TypeOK'
  BY RequestsLeft, Zenon DEF LifecycleInv, TypeOK
<1>2. \A q \in Requests : requests'[q] # Idle =>
        Sound(Held(requests'[q]), packs', sets') /\ Ready(requests'[q], wave')
  BY RequestsLeft, Zenon DEF LifecycleInv
<1>3. ASSUME NEW i \in Items
      PROVE  \/ wave'.items[i].selected \in {None, selections'[i]}
             \/ i \in stray'
             \/ \E q \in Requests : Storing(requests', q, i)
  BY RequestsLeft, Zenon DEF LifecycleInv, SelectionsTraced
<1>4. ASSUME NEW q \in Requests, NEW i \in Items, Storing(requests', q, i)
      PROVE  \/ Base(requests'[q]) < wave'.version
             \/ Choice(requests'[q]) = selections'[i]
             \/ i \in stray'
             \/ \E p \in Requests \ {q} : Storing(requests', p, i)
  <2>1. q # r /\ Storing(requests, q, i) /\ requests'[q] = requests[q]
    BY <1>4, RequestsLeft, Zenon
  <2>2. \/ Base(requests[q]) < wave.version
        \/ Choice(requests[q]) = selections[i]
        \/ i \in stray
        \/ \E p \in Requests \ {q} : Storing(requests, p, i)
    BY <2>1, Zenon DEF LifecycleInv, SelectionsTraced
  <2> QED
    BY <2>1, <2>2, RequestsLeft, Zenon
<1> QED
  BY <1>1, <1>2, <1>3, <1>4, Zenon DEF LifecycleInv, SelectionsTraced

\* A command that writes its wave: the version it had loaded is the one
\* stored, so the wave it writes continues the stored one.
LEMMA WriteInv ==
  ASSUME LifecycleInv, NEW r \in Requests, requests[r].pc = "persist",
         wave.version = requests[r].base, wave' = requests[r].next, Take(r, Idle),
         UNCHANGED <<sets, selections, packs, stray, mix>>
  PROVE  LifecycleInv' /\ Continues(wave'.events, wave.events)
<1>1. PICK k \in Request : k = requests[r]
  BY Zenon DEF LifecycleInv, TypeOK
<1>2. /\ k # Idle /\ Sound(k.next, packs, sets) /\ Ready(k, wave)
      /\ Held(k) = k.next /\ Base(k) = k.base /\ Choice(k) = k.next.items[k.item].selected
  BY <1>1, RequestUnderWay, Zenon DEF Held, Base, Choice
<1>3. k.next \in Wave /\ k.item \in Items \cup {None}
  BY <1>1, RequestShape, Zenon
<1>4. /\ wave.version < wave'.version /\ Continues(wave'.events, wave.events)
      /\ \A j \in Items : j # k.item => wave'.items[j].selected = wave.items[j].selected
  BY <1>1, <1>2, Zenon DEF Ready
<1>5. TypeOK'
  BY <1>1, <1>3, RequestsLeft, Zenon DEF LifecycleInv, TypeOK, Wave
<1>6. ASSUME NEW q \in Requests, requests'[q] # Idle
      PROVE  /\ Sound(Held(requests'[q]), packs', sets') /\ Ready(requests'[q], wave')
             /\ Base(requests'[q]) < wave'.version
  <2>1. q # r /\ requests'[q] = requests[q] /\ requests[q] \in Request
    BY <1>6, RequestsLeft, Zenon DEF LifecycleInv, TypeOK
  <2>2. Sound(Held(requests[q]), packs, sets) /\ Ready(requests[q], wave)
    BY <1>6, <2>1, Zenon DEF LifecycleInv
  <2>3. Ready(requests[q], wave') /\ Base(requests[q]) < wave'.version
    BY <1>1, <1>3, <1>4, <1>6, <2>1, <2>2, StoredWave, ReadyLater, Zenon
  <2> QED
    BY <2>1, <2>2, <2>3, Zenon
<1>7. ASSUME NEW i \in Items
      PROVE  \/ wave'.items[i].selected \in {None, selections'[i]}
             \/ i \in stray'
             \/ \E q \in Requests : Storing(requests', q, i)
  <2>1. CASE i = k.item
    <3>1. Storing(requests, r, i)
      BY <1>1, <1>2, <2>1, Zenon DEF Storing, Saved
    <3>2. ~(Base(k) < wave.version)
      BY <1>1, <1>2, StoredWave DEF Wave
    <3>3. \/ Choice(k) = selections[i] \/ i \in stray
          \/ \E p \in Requests \ {r} : Storing(requests, p, i)
      BY <1>1, <3>1, <3>2, Zenon DEF LifecycleInv, SelectionsTraced
    <3> QED
      BY <1>1, <1>2, <2>1, <3>3, RequestsLeft, Zenon
  <2>2. CASE i # k.item
    <3>1. ~Storing(requests, r, i)
      BY <1>1, <2>2, Zenon DEF Storing
    <3>2. \/ wave.items[i].selected \in {None, selections[i]} \/ i \in stray
          \/ \E p \in Requests : Storing(requests, p, i)
      BY Zenon DEF LifecycleInv, SelectionsTraced
    <3> QED
      BY <1>4, <2>2, <3>1, <3>2, RequestsLeft, Zenon
  <2> QED
    BY <2>1, <2>2, Zenon
<1>8. ASSUME NEW q \in Requests, NEW i \in Items, Storing(requests', q, i)
      PROVE  Base(requests'[q]) < wave'.version
  BY <1>6, <1>8, Zenon DEF Storing
<1>9. SelectionsTraced'
  BY <1>7, <1>8, Zenon DEF SelectionsTraced
<1> QED
  BY <1>1, <1>2, <1>4, <1>5, <1>6, <1>9, Zenon DEF LifecycleInv

\* A command comes to write its wave.
LEMMA PersistInv ==
  ASSUME LifecycleInv, NEW r \in Requests, Persist(r)
  PROVE  LifecycleInv' /\ Continues(wave'.events, wave.events)
<1>1. /\ requests[r].pc = "persist" /\ Take(r, Idle)
      /\ UNCHANGED <<sets, selections, packs, mix>>
  BY Zenon DEF Persist
<1>2. CASE wave.version = requests[r].base
  <2>1. wave' = requests[r].next /\ UNCHANGED stray
    BY <1>2, Zenon DEF Persist
  <2> QED
    BY <1>1, <1>2, <2>1, WriteInv, Zenon
<1>3. CASE wave.version # requests[r].base
  <2>1. stray' = stray \cup ({requests[r].item} \cap Items) /\ UNCHANGED wave
    BY <1>3, Zenon DEF Persist
  <2>2. stray' \subseteq Items /\ \A i \in Items : Storing(requests, r, i) => i \in stray'
    BY <2>1, Zenon DEF LifecycleInv, TypeOK, Storing
  <2>3. LifecycleInv'
    BY <1>1, <2>1, <2>2, CommandEnds, Zenon
  <2> QED
    BY <2>1, <2>3, StoredWave, LogContinues, Zenon
<1> QED
  BY <1>2, <1>3, Zenon

\* A command dies.
LEMMA DieInv ==
  ASSUME LifecycleInv, NEW r \in Requests, Die(r)
  PROVE  LifecycleInv'
<1>1. /\ Take(r, Idle) /\ UNCHANGED <<wave, sets, selections, packs, mix>>
      /\ stray' = IF requests[r].pc \in Saved THEN stray \cup ({requests[r].item} \cap Items)
                  ELSE stray
  BY Zenon DEF Die, Saved
<1>2. /\ stray' \subseteq Items /\ stray \subseteq stray'
      /\ \A i \in Items : Storing(requests, r, i) => i \in stray'
  BY <1>1, Zenon DEF LifecycleInv, TypeOK, Storing
<1> QED
  BY <1>1, <1>2, CommandEnds, Zenon

-----------------------------------------------------------------------------
(* The invariant, and what follows from it.                                 *)

\* A wave as it was created.
LEMMA InitInv == Init => LifecycleInv
<1> SUFFICES ASSUME Init PROVE LifecycleInv
  BY Zenon
<1>1. PICK states \in [Items -> {"CANDIDATE", "SOURCE_BLOCKED"}] :
        wave = [state |-> "CREATED", version |-> 3,
                items |-> [i \in Items |-> NewItem(states[i])],
                events |-> <<<<"DRAFT", "PREVIEWED">>, <<"PREVIEWED", "CREATED">>>>,
                handoffs |-> <<>>]
  BY Zenon DEF Init
<1>2. /\ sets = [i \in Items |-> None] /\ selections = [i \in Items |-> None]
      /\ packs = [p \in Items \X Alternatives |-> None]
      /\ requests = [r \in Requests |-> Idle] /\ mix \in Mixes /\ stray = {}
  BY Zenon DEF Init
<1>3. /\ wave.state = "CREATED" /\ wave.version = 3 /\ wave.handoffs = <<>>
      /\ wave.items = [i \in Items |-> NewItem(states[i])]
      /\ wave.events = <<<<"DRAFT", "PREVIEWED">>, <<"PREVIEWED", "CREATED">>>>
  BY <1>1, Zenon
<1>4. ASSUME NEW i \in Items
      PROVE  /\ wave.items[i] \in Item /\ wave.items[i].selected = None
             /\ wave.items[i].input = None
             /\ wave.items[i].state \in {"CANDIDATE", "SOURCE_BLOCKED"}
  <2>1. /\ wave.items[i] = [state |-> states[i], set |-> FALSE, selected |-> None,
                            pack |-> None, proof |-> None, input |-> None]
        /\ states[i] \in {"CANDIDATE", "SOURCE_BLOCKED"}
    BY <1>3, Zenon DEF NewItem
  <2>2. states[i] \in ItemStates
    BY <2>1, Zenon DEF ItemStates
  <2> QED
    BY <2>1, <2>2 DEF Item
<1>5. wave.events \in Seq(WaveStates \X WaveStates)
  <2>1. /\ <<"DRAFT", "PREVIEWED">> \in WaveStates \X WaveStates
        /\ <<"PREVIEWED", "CREATED">> \in WaveStates \X WaveStates
    BY Zenon DEF WaveStates
  <2> QED
    BY <1>3, <2>1
<1>6. wave \in [state: WaveStates, version: Nat, items: [Items -> Item],
                events: Seq(WaveStates \X WaveStates), handoffs: Seq(SUBSET Items)]
  <2>1. wave.items \in [Items -> Item]
    BY <1>3, <1>4, Zenon
  <2>2. "CREATED" \in WaveStates /\ <<>> \in Seq(SUBSET Items)
    BY DEF WaveStates
  <2> QED
    BY <1>1, <1>3, <1>5, <2>1, <2>2, Zenon
<1>7. TypeOK
  <2>1. Idle \in Request /\ mix \in Mix
    BY <1>2, LifecycleConstants, Zenon DEF Request
  <2> QED
    BY <1>2, <1>6, <2>1, Zenon DEF TypeOK
<1>8. Explained(wave)
  <2>1. /\ Len(wave.events) = 2 /\ wave.events[1] = <<"DRAFT", "PREVIEWED">>
        /\ wave.events[2] = <<"PREVIEWED", "CREATED">>
    BY <1>3
  <2>2. /\ wave.events[1] \in ALLOWED_WAVE_TRANSITIONS
        /\ wave.events[2] \in ALLOWED_WAVE_TRANSITIONS
    BY <2>1, Zenon DEF ALLOWED_WAVE_TRANSITIONS
  <2>3. /\ wave.events[1][1] = "DRAFT" /\ wave.events[1][2] = "PREVIEWED"
        /\ wave.events[2][1] = "PREVIEWED" /\ wave.events[2][2] = "CREATED"
    BY <2>1
  <2>4. \A n \in 1..Len(wave.events) : n = 1 \/ n = 2
    BY <2>1
  <2>5. Cardinality(Projected(wave)) = 0
    BY <1>3, ProjectedCount, Zenon DEF Unprojected
  <2> QED
    BY <1>3, <2>1, <2>2, <2>3, <2>4, <2>5 DEF Explained
<1>9. KeptUp(wave)
  BY <1>3, <1>4, EarlyKeptUp, Zenon
<1>10. Sound(wave, packs, sets)
  BY <1>4, <1>8, <1>9, Zenon DEF Sound, Evidence, OwnInput
<1>11. SelectionsTraced
  BY <1>2, <1>4, Zenon DEF SelectionsTraced, Storing
<1> QED
  BY <1>2, <1>7, <1>10, <1>11, Zenon DEF LifecycleInv

\* Every step keeps the invariant, and the log of the stored wave.
LEMMA NextInv ==
  ASSUME LifecycleInv, [Next]_vars
  PROVE  LifecycleInv' /\ Continues(wave'.events, wave.events)
<1>1. Continues(wave.events, wave.events)
  BY StoredWave, LogContinues, Zenon
<1>2. CASE UNCHANGED vars
  <2>1. LifecycleInv'
    BY <1>2, Zenon DEF vars, LifecycleInv, TypeOK, SelectionsTraced
  <2> QED
    BY <1>1, <1>2, <2>1, Zenon DEF vars
<1>3. ASSUME NEW r \in Requests,
             \/ SourceCheck(r) \/ Approve(r) \/ Stage(r) \/ Handoff(r) \/ Cancel(r)
      PROVE  LifecycleInv' /\ Continues(wave'.events, wave.events)
  <2>1. UNCHANGED wave
    BY <1>3, Zenon DEF SourceCheck, Approve, Stage, Handoff, Cancel
  <2> QED
    BY <1>1, <1>3, <2>1, SourceCheckInv, ApproveInv, StageInv, HandoffInv, CancelInv, Zenon
<1>4. ASSUME NEW r \in Requests,
             \/ StartSimulation(r) \/ FinishSimulation(r)
             \/ \E i \in Items : SimulateItem(r, i)
             \/ \E i \in Items, a \in mix.alternatives : StartSelection(r, i, a)
      PROVE  LifecycleInv' /\ Continues(wave'.events, wave.events)
  <2>1. UNCHANGED wave
    BY <1>4, Zenon DEF StartSimulation, FinishSimulation, SimulateItem, StartSelection
  <2> QED
    BY <1>1, <1>4, <2>1, StartSimulationInv, FinishSimulationInv, SimulateItemInv,
       StartSelectionInv, Zenon
<1>5. ASSUME NEW r \in Requests,
             \/ SaveSelection(r) \/ NoPack(r) \/ ReplayPack(r)
             \/ \E s \in mix.packs : BuildPack(r, s)
             \/ CheckPack(r) \/ InsertPack(r) \/ Die(r)
      PROVE  LifecycleInv' /\ Continues(wave'.events, wave.events)
  <2>1. UNCHANGED wave
    BY <1>5, Zenon DEF SaveSelection, NoPack, ReplayPack, BuildPack, CheckPack, InsertPack, Die
  <2> QED
    BY <1>1, <1>5, <2>1, SaveSelectionInv, NoPackInv, ReplayPackInv, BuildPackInv,
       CheckPackInv, InsertPackInv, DieInv, Zenon
<1>6. ASSUME NEW i \in Items, NEW a \in mix.alternatives, SelectDirectly(i, a)
      PROVE  LifecycleInv' /\ Continues(wave'.events, wave.events)
  <2>1. UNCHANGED wave
    BY <1>6, Zenon DEF SelectDirectly
  <2> QED
    BY <1>1, <1>6, <2>1, SelectDirectlyInv, Zenon
<1> QED
  BY <1>2, <1>3, <1>4, <1>5, <1>6, PersistInv, AdmitDurableInv, ProjectDurableInv,
     CloseDurableInv, Zenon DEF Next

\* The inductive invariant: the stored wave and every wave a command holds are
\* sound, and the version says which of them may still be written.
THEOREM LifecycleInvHolds == Spec => []LifecycleInv
<1>1. LifecycleInv /\ [Next]_vars => LifecycleInv'
  BY NextInv, Zenon
<1> QED
  BY <1>1, InitInv, PTL DEF Spec

\* The stored event log leads along allowed transitions to the wave's state
\* and version, whatever commands load, build and write concurrently.
THEOREM LogExplainsWave == Spec => []HistoryExplainsState
<1>1. LifecycleInv => HistoryExplainsState
  BY Zenon DEF LifecycleInv, Sound, Explained, HistoryExplainsState
<1> QED
  BY <1>1, LifecycleInvHolds, PTL

\* From its approval on a wave and its approved items are in one state, and the
\* handoff names exactly them, once.
THEOREM ItemsFollowWave == Spec => []ItemsKeepUp
<1>1. ASSUME LifecycleInv PROVE ItemsKeepUp
  <2>1. KeptUp(wave)
    BY <1>1, StoredWave, Zenon
  <2>2. HandedOffOnce
    BY <2>1, Zenon DEF KeptUp, HandedOffOnce
  <2>3. wave.state \in {"APPROVED", "APPROVED_WITH_EXCEPTIONS"} =>
          StateOfApproved(wave.state) = {"APPROVED"}
    BY Zenon DEF StateOfApproved
  <2> QED
    BY <2>1, <2>2, <2>3, Zenon DEF KeptUp, ItemsKeepUp
<1> QED
  BY <1>1, LifecycleInvHolds, PTL

\* What is approved, staged or handed off rests on its own set, its selection
\* and a stored proof pack, and the wave and the construction store name the
\* same alternative unless a command stands or has fallen between the two.
THEOREM ApprovalsAreEarned == Spec => []ApprovedOnEvidence
<1>1. ASSUME LifecycleInv PROVE ApprovedOnEvidence
  <2>1. \A i \in Items : Evidence(i, wave.items[i], packs) /\ OwnInput(i, wave.items[i], sets)
    BY <1>1, StoredWave, Zenon
  <2>2. SimulatedFromOwnInput
    BY <2>1, Zenon DEF SimulatedFromOwnInput, OwnInput
  <2>3. SelectionsAgree
    BY <1>1, Zenon DEF LifecycleInv, SelectionsTraced, SelectionsAgree, Storing, Saved
  <2>4. \A i \in ItemsIn(wave.items, {"APPROVED", "STAGED", "HANDOFF_READY"}) :
          i \in Items /\ wave.items[i].state \in {"APPROVED", "STAGED", "HANDOFF_READY"}
    BY Zenon DEF ItemsIn
  <2> QED
    BY <2>1, <2>2, <2>3, <2>4, Zenon DEF ApprovedOnEvidence, Evidence, proof_pack_blocked
<1> QED
  BY <1>1, LifecycleInvHolds, PTL

\* No command overwrites an event that another one stored.
THEOREM LogOnlyGrows == Spec => EventsAppendOnly
<1>1. LifecycleInv /\ [Next]_vars => [Continues(wave'.events, wave.events)]_wave
  BY NextInv, Zenon
<1> QED
  BY <1>1, LifecycleInvHolds, PTL DEF Spec, EventsAppendOnly
=============================================================================
