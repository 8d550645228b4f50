--------------------------- MODULE CampaignsProofs ---------------------------
(***************************************************************************)
(* Proofs about Campaigns, for every set of clients and versions and every *)
(* workload: acknowledged evidence is kept, launches are audited, ledgers  *)
(* are legal and the read model agrees, whatever requests overlap.         *)
(*                                                                         *)
(* The argument.  A document is judged by itself (Legal) and against the   *)
(* waves (Audited); both hold of every document a request holds, as well   *)
(* as of the stored ones, since a command makes a legal document of a      *)
(* legal one.  What relates documents is Extends: nothing recorded is lost *)
(* from one to the other.  A stored document extends every document read   *)
(* from its row, unless an unfenced write hit the row.                     *)
(***************************************************************************)
EXTENDS Campaigns, WellFoundedInduction, TLAPS

-----------------------------------------------------------------------------
(* Numbers and lists.                                                      *)

Below == {p \in Nat \X Nat : p[1] < p[2]}

\* Every set of naturals has a least element: the form in which the proofs
\* below use induction.
LEMMA LeastNatural ==
  ASSUME NEW T \in SUBSET Nat, T # {}
  PROVE  \E x \in T : \A y \in T : x <= y
<1>1. IsWellFoundedOn(Below, Nat)
  BY NatLessThanWellFounded, Zenon DEF OpToRel, Below
<1>2. PICK x \in T : \A y \in T : <<y, x>> \notin Below
  BY <1>1, WFMin, Zenon
<1>3. \A y \in T : ~(y < x)
  BY <1>2, Zenon DEF Below
<1> QED BY <1>3

\* A set of indices has a greatest element.
LEMMA GreatestIndex ==
  ASSUME NEW n \in Nat, NEW T \in SUBSET (1..n), T # {}
  PROVE  \E x \in T : \A y \in T : y <= x
<1> DEFINE D == {n - x : x \in T}
<1>0. \A x \in T : n - x \in Nat
  OBVIOUS
<1>1. D \in SUBSET Nat /\ D # {}
  BY <1>0, Zenon
<1> HIDE DEF D
<1>2. PICK k \in D : \A j \in D : k <= j
  BY <1>1, LeastNatural, Zenon
<1>3. PICK x \in T : k = n - x
  BY <1>2, Zenon DEF D
<1>4. \A y \in T : n - y \in D
  BY Zenon DEF D
<1>5. \A y \in T : n - x <= n - y
  BY <1>2, <1>3, <1>4, Zenon
<1> QED BY <1>5

\* Records have no common type: a list is a sequence over some set.
IsList(s) == \E S : s \in Seq(S)

LEMMA ListShape ==
  ASSUME NEW s, IsList(s)
  PROVE  Len(s) \in Nat /\ DOMAIN s = 1..Len(s)
  BY DEF IsList

LEMMA EmptyList == IsList(<<>>) /\ Len(<<>>) = 0
<1>1. <<>> \in Seq({})
  OBVIOUS
<1> QED BY <1>1, Zenon DEF IsList

\* What appending to a list does.
LEMMA AppendList ==
  ASSUME NEW s, NEW x, IsList(s)
  PROVE  /\ IsList(Append(s, x))
         /\ Len(Append(s, x)) = Len(s) + 1
         /\ DOMAIN Append(s, x) = 1..(Len(s) + 1)
         /\ \A i \in 1..Len(s) : Append(s, x)[i] = s[i]
         /\ Append(s, x)[Len(s) + 1] = x
<1>1. PICK S : s \in Seq(S)
  BY Zenon DEF IsList
<1>2. s \in Seq(S \cup {x}) /\ x \in S \cup {x}
  BY <1>1
<1>3. Append(s, x) \in Seq(S \cup {x})
  BY <1>2
<1> QED BY <1>2, <1>3 DEF IsList

\* What replacing an entry of a list does.
LEMMA ReplaceInList ==
  ASSUME NEW s, NEW x, IsList(s), NEW i \in DOMAIN s
  PROVE  /\ IsList([s EXCEPT ![i] = x])
         /\ Len([s EXCEPT ![i] = x]) = Len(s)
         /\ DOMAIN [s EXCEPT ![i] = x] = DOMAIN s
         /\ [s EXCEPT ![i] = x][i] = x
         /\ \A j \in DOMAIN s : j # i => [s EXCEPT ![i] = x][j] = s[j]
<1>1. PICK S : s \in Seq(S)
  BY Zenon DEF IsList
<1>2. s \in Seq(S \cup {x}) /\ x \in S \cup {x} /\ DOMAIN s = 1..Len(s)
  BY <1>1
<1>3. [s EXCEPT ![i] = x] \in Seq(S \cup {x})
  BY <1>2
<1> QED BY <1>2, <1>3 DEF IsList

-----------------------------------------------------------------------------
(* The fold over the ledger of controls.                                   *)

\* f is the run of the loop over the first n controls.
Replays(f, controls, n) ==
  f = [i \in 0..n |-> IF i = 0 THEN NoReview ELSE Reviewed(f[i - 1], controls[i])]

LEMMA ReplayExists ==
  ASSUME NEW controls, NEW n \in Nat
  PROVE  \E f : Replays(f, controls, n)
<1> DEFINE T == {m \in Nat : ~\E f : Replays(f, controls, m)}
<1>1. SUFFICES ASSUME T # {} PROVE FALSE
  BY Zenon
<1>2. PICK m \in T : \A k \in T : m <= k
  BY <1>1, LeastNatural, Zenon
<1>3. CASE m = 0
  <2>1. Replays([i \in 0..0 |-> NoReview], controls, 0)
    BY DEF Replays
  <2> QED BY <1>2, <1>3, <2>1, Zenon
<1>4. CASE m # 0
  <2>1. m - 1 \in Nat /\ m \in Nat /\ m - 1 \notin T
    BY <1>2, <1>4
  <2>2. PICK g : Replays(g, controls, m - 1)
    BY <2>1, Zenon
  <2> DEFINE f == [i \in 0..m |->
                     IF i = m THEN Reviewed(g[m - 1], controls[m]) ELSE g[i]]
  <2>3. \A i \in 0..(m - 1) :
          g[i] = IF i = 0 THEN NoReview ELSE Reviewed(g[i - 1], controls[i])
    BY <2>2, Zenon DEF Replays
  <2>4. ASSUME NEW i \in 0..m
        PROVE  f[i] = IF i = 0 THEN NoReview ELSE Reviewed(f[i - 1], controls[i])
    <3>1. CASE i = m
      BY <1>4, <2>1, <3>1
    <3>2. CASE i # m
      <4>1. i \in 0..(m - 1) /\ f[i] = g[i]
        BY <2>1, <3>2
      <4>2. i # 0 => i - 1 \in 0..m /\ i - 1 # m /\ f[i - 1] = g[i - 1]
        BY <2>1
      <4> QED BY <2>3, <4>1, <4>2, Zenon
    <3> QED BY <3>1, <3>2, Zenon
  <2> HIDE DEF f
  <2>5. f = [i \in 0..m |-> f[i]]
    BY Zenon DEF f
  <2>6. Replays(f, controls, m)
    BY <2>4, <2>5, Zenon DEF Replays
  <2> QED BY <1>2, <2>6, Zenon
<1> QED BY <1>3, <1>4, Zenon

\* Two replays that agree on the controls agree on the states.
LEMMA ReplaysAgree ==
  ASSUME NEW f, NEW g, NEW a, NEW b, NEW m \in Nat, NEW n \in Nat, m <= n,
         Replays(f, a, m), Replays(g, b, n), \A i \in 1..m : a[i] = b[i]
  PROVE  f[m] = g[m]
<1> DEFINE T == {k \in Nat : k <= m /\ f[k] # g[k]}
<1>1. SUFFICES ASSUME T # {} PROVE FALSE
  OBVIOUS
<1>2. PICK k \in T : \A j \in T : k <= j
  BY <1>1, LeastNatural, Zenon
<1>3. /\ f[k] = IF k = 0 THEN NoReview ELSE Reviewed(f[k - 1], a[k])
      /\ g[k] = IF k = 0 THEN NoReview ELSE Reviewed(g[k - 1], b[k])
  BY <1>2 DEF Replays
<1>4. k # 0 => f[k - 1] = g[k - 1] /\ a[k] = b[k]
  BY <1>2
<1> QED BY <1>2, <1>3, <1>4, Zenon

\* The state after one more control is one more turn of the loop.
LEMMA ReviewAppend ==
  ASSUME NEW controls, NEW c, IsList(controls)
  PROVE  ReviewState(Append(controls, c)) = Reviewed(ReviewState(controls), c)
<1> DEFINE n == Len(controls)
           more == Append(controls, c)
<1>1. /\ n \in Nat /\ Len(more) = n + 1 /\ more[n + 1] = c
      /\ \A i \in 1..n : controls[i] = more[i]
  BY AppendList, ListShape
<1> HIDE DEF n, more
<1>2. PICK f : f = CHOOSE g : Replays(g, controls, n)
  BY Zenon
<1>3. PICK h : h = CHOOSE g : Replays(g, more, n + 1)
  BY Zenon
<1>4. Replays(f, controls, n) /\ Replays(h, more, n + 1)
  <2>1. n + 1 \in Nat /\ n <= n + 1
    BY <1>1
  <2>2. (\E g : Replays(g, controls, n)) /\ (\E g : Replays(g, more, n + 1))
    BY <1>1, <2>1, ReplayExists, Zenon
  <2> QED BY <1>2, <1>3, <2>2, Zenon
<1>5. ReviewState(controls) = f[n] /\ ReviewState(more) = h[n + 1]
  BY <1>1, <1>2, <1>3, Zenon DEF ReviewState, Replays, n
<1>6. f[n] = h[n]
  <2>1. n + 1 \in Nat /\ n <= n + 1
    BY <1>1
  <2>2. n \in Nat /\ \A i \in 1..n : controls[i] = more[i]
    BY <1>1, Zenon
  <2> QED BY <1>4, <2>1, <2>2, ReplaysAgree
<1>7. h[n + 1] = Reviewed(h[n], c)
  BY <1>1, <1>4 DEF Replays
<1> QED BY <1>5, <1>6, <1>7, Zenon DEF more

LEMMA ReviewEmpty == ReviewState(<<>>) = NoReview
<1>1. PICK f : f = CHOOSE g : Replays(g, <<>>, 0)
  BY Zenon
<1>2. Replays(f, <<>>, 0)
  BY <1>1, ReplayExists, Zenon
<1>3. ReviewState(<<>>) = f[0]
  BY <1>1, EmptyList, Zenon DEF ReviewState, Replays
<1> QED BY <1>2, <1>3 DEF Replays

-----------------------------------------------------------------------------
(* Documents.                                                              *)

IsTask(t) ==
  /\ t = [ref |-> t.ref, type |-> t.type, status |-> t.status,
          actors |-> t.actors, tier |-> t.tier, sla |-> t.sla, due |-> t.due,
          transitions |-> t.transitions]
  /\ IsList(t.transitions) /\ Len(t.transitions) > 0

IsDocument(d) ==
  /\ d = [body |-> d.body, status |-> d.status, successor |-> d.successor,
          launches |-> d.launches, decisions |-> d.decisions,
          actions |-> d.actions, tasks |-> d.tasks, controls |-> d.controls]
  /\ IsList(d.launches) /\ IsList(d.decisions) /\ IsList(d.actions)
  /\ IsList(d.tasks) /\ IsList(d.controls)
  /\ \A i \in DOMAIN d.tasks : IsTask(d.tasks[i])

UniqueRefs(s) == \A i, j \in DOMAIN s : s[i].ref = s[j].ref => i = j

\* What the loop over the controls knows while a review is pending: the
\* submission it answers, and the reviewer and role assigned last since.
ReviewIsKnown(controls, state) ==
  state.pending = TRUE =>
    \E s \in 1..Len(controls) :
      /\ controls[s].action = "SUBMITTED_FOR_REVIEW"
      /\ controls[s].submitter = state.submitter
      /\ \A k \in s+1..Len(controls) :
           /\ controls[k].action \notin {"SUBMITTED_FOR_REVIEW", "REVIEW_COMPLETED"}
           /\ \/ controls[k].action # "REVIEWER_ASSIGNED"
              \/ \E m \in k+1..Len(controls) : controls[m].action = "REVIEWER_ASSIGNED"
              \/ /\ controls[k].reviewer = state.reviewer
                 /\ controls[k].role = state.role
                 /\ None \notin {state.reviewer, state.role}

IsReview(state) ==
  state = [pending |-> state.pending, submitter |-> state.submitter,
           reviewer |-> state.reviewer, role |-> state.role,
           exception |-> state.exception, outcome |-> state.outcome]

LegalControls(controls) ==
  /\ UniqueRefs(controls)
  /\ IsReview(ReviewState(controls))
  /\ ReviewIsKnown(controls, ReviewState(controls))
  /\ \A j \in DOMAIN controls :
       controls[j].action = "REVIEW_COMPLETED" => ReviewIsSeparated(controls, j)

\* What LedgersAreLegal says of one document, and why it stays so.
Legal(d) ==
  /\ UniqueRefs(d.decisions) /\ UniqueRefs(d.actions) /\ UniqueRefs(d.tasks)
  /\ LegalControls(d.controls)
  /\ \A i \in DOMAIN d.tasks : TaskStoryHolds(d.tasks[i])

\* Nothing that d records is missing from e.
Extends(e, d) ==
  /\ Range(d.launches) \subseteq Range(e.launches)
  /\ Range(d.decisions) \subseteq Range(e.decisions)
  /\ Range(d.actions) \subseteq Range(e.actions)
  /\ Range(d.controls) \subseteq Range(e.controls)
  /\ \A i \in DOMAIN d.tasks :
       /\ i \in DOMAIN e.tasks
       /\ e.tasks[i].ref = d.tasks[i].ref
       /\ e.tasks[i].transitions[1] = d.tasks[i].transitions[1]
       /\ Range(d.tasks[i].transitions) \subseteq Range(e.tasks[i].transitions)

\* Every record of a launch names the wave its key created, each another key.
Audited(d, ws) ==
  \A i, j \in DOMAIN d.launches :
    /\ d.launches[i].wave \in DOMAIN ws
    /\ ws[d.launches[i].wave].key = d.launches[i].key
    /\ d.launches[i].key = d.launches[j].key => i = j

ControlActions == {"SUBMITTED_FOR_REVIEW", "REVIEWER_ASSIGNED", "REVIEW_COMPLETED",
                   "CONTROL_EXCEPTION_RAISED", "CONTROL_EXCEPTION_RESOLVED"}

TransitionTypes == {"OPENED", "ACKNOWLEDGED", "STARTED", "BLOCKED", "UNBLOCKED",
                    "RESOLVED", "CANCELLED"} \cup FieldTransitions

\* What the request models admit.
IsCommand(cmd) ==
  /\ cmd.version \in Versions
  /\ cmd.kind \in EvidenceKinds \cup {"LAUNCH", "RETIRE", "SUPERSEDE", "PUT"}
  /\ cmd.kind = "SUPERSEDE" => cmd.replacement \in Versions
  /\ cmd.kind = "CONTROL" => cmd.action \in ControlActions
  /\ cmd.kind = "TRANSITION" => cmd.type \in TransitionTypes

\* The reasons for which a command is refused.
Reasons == {"ACTIVE_REQUIRED", "TEXT_REQUIRED", "REF_CONFLICT", "ACTORS_REQUIRED",
            "TIER_INVALID", "ACTOR_NOT_ENTITLED", "ASSIGNEES_REQUIRED",
            "TASK_NOT_FOUND", "TRANSITION_REF_CONFLICT",
            "OPENED_TRANSITION_FORBIDDEN", "CLOSED_TRANSITION_FORBIDDEN",
            "TRANSITION_INVALID", "DUE_AT_REQUIRED", "CONTROL_INVALID",
            "CONTROL_OUT_OF_ORDER"}

\* The assumptions of the theorems: an absent value is neither a reason nor a
\* document, the tables start with definitions as they are first saved, and
\* the commands are ones the request models admit.
WellPosed ==
  /\ None \notin Reasons
  /\ \A d : IsDocument(d) => d # None
  /\ \A w \in DOMAIN Workloads :
       /\ Workloads[w].rows = [v \in Versions |-> Workloads[w].rows[v]]
       /\ \A v \in Versions :
            \/ Workloads[w].rows[v] = None
            \/ Workloads[w].rows[v] = NewDefinition(Workloads[w].rows[v].body)
       /\ \A c \in Clients : \A cmd \in Workloads[w].menu[c] : IsCommand(cmd)

-----------------------------------------------------------------------------
(* Lists of records.                                                       *)

LEMMA LastUseIsOne ==
  ASSUME NEW s, NEW ref, IsList(s), Uses(s, ref) # {}
  PROVE  LastUse(s, ref) \in DOMAIN s /\ s[LastUse(s, ref)].ref = ref
<1>1. Len(s) \in Nat /\ Uses(s, ref) \in SUBSET (1..Len(s))
  BY ListShape, Zenon DEF Uses
<1>2. \E i \in Uses(s, ref) : \A j \in Uses(s, ref) : j <= i
  BY <1>1, GreatestIndex, Zenon
<1>3. LastUse(s, ref) \in Uses(s, ref)
  BY <1>2, Zenon DEF LastUse
<1> QED BY <1>3, Zenon DEF Uses

LEMMA FirstUseIsOne ==
  ASSUME NEW s, NEW ref, IsList(s), Uses(s, ref) # {}
  PROVE  FirstUse(s, ref) \in DOMAIN s /\ s[FirstUse(s, ref)].ref = ref
<1>1. Uses(s, ref) \in SUBSET Nat
  BY ListShape DEF Uses
<1>2. \E i \in Uses(s, ref) : \A j \in Uses(s, ref) : i <= j
  BY <1>1, LeastNatural, Zenon
<1>3. FirstUse(s, ref) \in Uses(s, ref)
  BY <1>2, Zenon DEF FirstUse
<1> QED BY <1>3, Zenon DEF Uses

LEMMA AppendRange ==
  ASSUME NEW s, NEW x, IsList(s)
  PROVE  Range(s) \subseteq Range(Append(s, x)) /\ x \in Range(Append(s, x))
<1>1. /\ DOMAIN s = 1..Len(s) /\ Len(s) \in Nat
      /\ DOMAIN Append(s, x) = 1..(Len(s) + 1)
      /\ \A i \in 1..Len(s) : Append(s, x)[i] = s[i]
      /\ Append(s, x)[Len(s) + 1] = x
  BY AppendList, ListShape
<1>2. DOMAIN s \subseteq DOMAIN Append(s, x) /\ Len(s) + 1 \in DOMAIN Append(s, x)
  BY <1>1
<1> QED BY <1>1, <1>2, Zenon DEF Range

LEMMA AppendUnique ==
  ASSUME NEW s, NEW x, IsList(s), UniqueRefs(s), Uses(s, x.ref) = {}
  PROVE  UniqueRefs(Append(s, x))
<1>1. /\ DOMAIN s = 1..Len(s) /\ Len(s) \in Nat
      /\ DOMAIN Append(s, x) = 1..(Len(s) + 1)
      /\ \A i \in 1..Len(s) : Append(s, x)[i] = s[i]
      /\ Append(s, x)[Len(s) + 1] = x
  BY AppendList, ListShape
<1>2. \A i \in 1..Len(s) : s[i].ref # x.ref
  BY <1>1, Zenon DEF Uses
<1>3. \A i \in 1..(Len(s) + 1) : i \in 1..Len(s) \/ i = Len(s) + 1
  BY <1>1
<1>4. \A i, j \in 1..Len(s) : s[i].ref = s[j].ref => i = j
  BY <1>1, Zenon DEF UniqueRefs
<1> SUFFICES ASSUME NEW i \in 1..(Len(s) + 1), NEW j \in 1..(Len(s) + 1),
                    Append(s, x)[i].ref = Append(s, x)[j].ref
             PROVE  i = j
  BY <1>1, Zenon DEF UniqueRefs
<1>5. CASE i \in 1..Len(s) /\ j \in 1..Len(s)
  BY <1>1, <1>4, <1>5, Zenon
<1>6. CASE i = Len(s) + 1 /\ j \in 1..Len(s)
  BY <1>1, <1>2, <1>6, Zenon
<1>7. CASE i \in 1..Len(s) /\ j = Len(s) + 1
  BY <1>1, <1>2, <1>7, Zenon
<1> QED BY <1>3, <1>5, <1>6, <1>7, Zenon

\* A list under which nothing is recorded yet gains the entry; a list that
\* has the entry is left alone.
LEMMA RecordedIs ==
  ASSUME None \notin Reasons, NEW d, IsDocument(d), NEW entry,
         NEW list \in {"decisions", "actions", "tasks", "controls"},
         NEW r, r = Recorded(d, list, entry), r.refused = None
  PROVE  \/ r.definition = d /\ entry \in Range(d[list])
         \/ /\ r.definition = [d EXCEPT ![list] = Append(d[list], entry)]
            /\ Uses(d[list], entry.ref) = {}
<1>1. IsList(d[list])
  BY Zenon DEF IsDocument
<1>2. CASE Uses(d[list], entry.ref) = {}
  BY <1>2, Zenon DEF Recorded, Done
<1>3. CASE Uses(d[list], entry.ref) # {}
  <2>1. LastUse(d[list], entry.ref) \in DOMAIN d[list]
    BY <1>1, <1>3, LastUseIsOne, Zenon
  <2>2. d[list][LastUse(d[list], entry.ref)] = entry
    <3> SUFFICES ASSUME d[list][LastUse(d[list], entry.ref)] # entry
                 PROVE  FALSE
      BY Zenon
    <3>1. Recorded(d, list, entry) = Refuse("REF_CONFLICT")
      BY <1>3, Zenon DEF Recorded
    <3>2. Refuse("REF_CONFLICT").refused = "REF_CONFLICT" /\ "REF_CONFLICT" # None
      BY Zenon DEF Refuse, Reasons
    <3> QED BY <3>1, <3>2, Zenon
  <2>3. Recorded(d, list, entry).definition = d
    BY <1>3, <2>2, Zenon DEF Recorded, Done
  <2> QED BY <2>1, <2>2, <2>3, Zenon DEF Range
<1> QED BY <1>2, <1>3, Zenon

LEMMA ExtendsItself ==
  ASSUME NEW d PROVE Extends(d, d)
  BY Zenon DEF Extends

LEMMA ExtendsOn ==
  ASSUME NEW d, NEW e, NEW f, Extends(e, d), Extends(f, e)
  PROVE  Extends(f, d)
<1>1. /\ Range(d.launches) \subseteq Range(f.launches)
      /\ Range(d.decisions) \subseteq Range(f.decisions)
      /\ Range(d.actions) \subseteq Range(f.actions)
      /\ Range(d.controls) \subseteq Range(f.controls)
  BY Zenon DEF Extends
<1>2. ASSUME NEW i \in DOMAIN d.tasks
      PROVE  /\ i \in DOMAIN f.tasks
             /\ f.tasks[i].ref = d.tasks[i].ref
             /\ f.tasks[i].transitions[1] = d.tasks[i].transitions[1]
             /\ Range(d.tasks[i].transitions) \subseteq Range(f.tasks[i].transitions)
  <2>1. /\ i \in DOMAIN e.tasks
        /\ e.tasks[i].ref = d.tasks[i].ref
        /\ e.tasks[i].transitions[1] = d.tasks[i].transitions[1]
        /\ Range(d.tasks[i].transitions) \subseteq Range(e.tasks[i].transitions)
    BY Zenon DEF Extends
  <2>2. /\ i \in DOMAIN f.tasks
        /\ f.tasks[i].ref = e.tasks[i].ref
        /\ f.tasks[i].transitions[1] = e.tasks[i].transitions[1]
        /\ Range(e.tasks[i].transitions) \subseteq Range(f.tasks[i].transitions)
    BY <2>1, Zenon DEF Extends
  <2> QED BY <2>1, <2>2, Zenon
<1> QED BY <1>1, <1>2, Zenon DEF Extends

\* Evidence stays evident in a document that extends the one it is in.
LEMMA EvidentOn ==
  ASSUME NEW d, NEW e, Extends(e, d), NEW a, Evident(d, a)
  PROVE  Evident(e, a)
<1>1. CASE a.cmd.kind = "DECIDE"
  BY <1>1, Zenon DEF Evident, Extends
<1>2. CASE a.cmd.kind = "ASSIGN"
  BY <1>2, Zenon DEF Evident, Extends
<1>3. CASE a.cmd.kind = "OPEN"
  <2>1. PICK t \in Range(d.tasks) :
          t.ref = a.cmd.ref /\ t.transitions[1].by = a.cmd.by
    BY <1>3, Zenon DEF Evident
  <2>2. PICK i \in DOMAIN d.tasks : t = d.tasks[i]
    BY Zenon DEF Range
  <2>3. /\ e.tasks[i] \in Range(e.tasks) /\ e.tasks[i].ref = t.ref
        /\ e.tasks[i].transitions[1] = t.transitions[1]
    BY <2>2, Zenon DEF Extends, Range
  <2>4. \E u \in Range(e.tasks) : u.ref = a.cmd.ref /\ u.transitions[1].by = a.cmd.by
    BY <2>1, <2>3, Zenon
  <2> QED BY <1>3, <2>4, Zenon DEF Evident
<1>4. CASE a.cmd.kind = "TRANSITION"
  <2>1. PICK t \in Range(d.tasks) : \E x \in Range(t.transitions) :
          t.ref = a.cmd.task /\ x.ref = a.cmd.ref /\ x.type = a.cmd.type
    BY <1>4, Zenon DEF Evident
  <2>2. PICK i \in DOMAIN d.tasks : t = d.tasks[i]
    BY Zenon DEF Range
  <2>3. /\ e.tasks[i] \in Range(e.tasks) /\ e.tasks[i].ref = t.ref
        /\ Range(t.transitions) \subseteq Range(e.tasks[i].transitions)
    BY <2>2, ZenonT(30) DEF Extends, Range
  <2>4. \E u \in Range(e.tasks) : \E x \in Range(u.transitions) :
          u.ref = a.cmd.task /\ x.ref = a.cmd.ref /\ x.type = a.cmd.type
    BY <2>1, <2>3, Zenon
  <2> QED BY <1>4, <2>4, Zenon DEF Evident
<1>5. CASE a.cmd.kind = "CONTROL"
  BY <1>5, Zenon DEF Evident, Extends
<1>6. CASE a.cmd.kind = "LAUNCH"
  BY <1>6, Zenon DEF Evident, Extends
<1>7. CASE a.cmd.kind \notin {"DECIDE", "ASSIGN", "OPEN", "TRANSITION", "CONTROL", "LAUNCH"}
  BY <1>7, Zenon DEF Evident
<1> QED BY <1>1, <1>2, <1>3, <1>4, <1>5, <1>6, <1>7, Zenon

-----------------------------------------------------------------------------
(* A command makes a legal document of a legal one, extends it, and leaves *)
(* its evidence in it.                                                     *)

Follows(e, d, cmd) ==
  /\ IsDocument(e) /\ Legal(e) /\ Extends(e, d)
  /\ e.launches = d.launches
  /\ \A w : Evident(e, [cmd |-> cmd, wave |-> w])

LEMMA DecideFollows ==
  ASSUME None \notin Reasons, NEW d, IsDocument(d), Legal(d), NEW c,
         c.kind = "DECIDE", Decide(d, c).refused = None
  PROVE  Follows(Decide(d, c).definition, d, c)
<1> DEFINE entry == [ref |-> c.ref, type |-> c.type, by |-> c.by]
           e == Decide(d, c).definition
<1>1. Decide(d, c) = Recorded(d, "decisions", entry)
  BY Zenon DEF Decide, Refuse, Reasons
<1>2. CASE e = d /\ entry \in Range(d.decisions)
  <2>1. \A w : Evident(d, [cmd |-> c, wave |-> w])
    BY <1>2, Zenon DEF Evident
  <2> QED BY <1>2, <2>1, ExtendsItself, Zenon DEF Follows
<1>3. CASE e = [d EXCEPT !["decisions"] = Append(d.decisions, entry)] /\ Uses(d.decisions, c.ref) = {}
  <2>1. /\ e.decisions = Append(d.decisions, entry)
        /\ e.launches = d.launches /\ e.actions = d.actions /\ e.tasks = d.tasks
        /\ e.controls = d.controls
        /\ e = [body |-> e.body, status |-> e.status, successor |-> e.successor,
                launches |-> e.launches, decisions |-> e.decisions,
                actions |-> e.actions, tasks |-> e.tasks, controls |-> e.controls]
    BY <1>3, Zenon DEF IsDocument
  <2> HIDE DEF e
  <2>2. IsList(d.decisions)
    BY Zenon DEF IsDocument
  <2>3. /\ IsList(e.decisions) /\ UniqueRefs(e.decisions)
        /\ Range(d.decisions) \subseteq Range(e.decisions)
        /\ entry \in Range(e.decisions)
    BY <1>3, <2>1, <2>2, AppendList, AppendRange, AppendUnique, Zenon DEF Legal
  <2>4. IsDocument(e)
    BY <2>1, <2>3, Zenon DEF IsDocument
  <2>5. Legal(e)
    BY <2>1, <2>3, Zenon DEF Legal
  <2>6. Extends(e, d)
    BY <2>1, <2>3, Zenon DEF Extends
  <2>7. \A w : Evident(e, [cmd |-> c, wave |-> w])
    BY <2>3, Zenon DEF Evident
  <2>8. Follows(e, d, c)
    BY <2>1, <2>4, <2>5, <2>6, <2>7, Zenon DEF Follows
  <2> QED BY <2>8, Zenon DEF e
<1>4. \/ e = d /\ entry \in Range(d["decisions"])
      \/ /\ e = [d EXCEPT !["decisions"] = Append(d["decisions"], entry)]
         /\ Uses(d["decisions"], entry.ref) = {}
  <2> HIDE DEF entry
  <2>1. "decisions" \in {"decisions", "actions", "tasks", "controls"}
    BY Zenon
  <2> QED BY <1>1, <2>1, RecordedIs, Zenon
<1> QED BY <1>2, <1>3, <1>4, Zenon

LEMMA AssignFollows ==
  ASSUME None \notin Reasons, NEW d, IsDocument(d), Legal(d), NEW c,
         c.kind = "ASSIGN", Assign(d, c).refused = None
  PROVE  Follows(Assign(d, c).definition, d, c)
<1> DEFINE entry == [ref |-> c.ref, type |-> c.type, by |-> c.by,
                     actors |-> c.actors, tier |-> c.tier]
           e == Assign(d, c).definition
<1>1. Assign(d, c) = Recorded(d, "actions", entry)
  BY Zenon DEF Assign, Refuse, Reasons
<1>2. CASE e = d /\ entry \in Range(d.actions)
  <2>1. \A w : Evident(d, [cmd |-> c, wave |-> w])
    BY <1>2, Zenon DEF Evident
  <2> QED BY <1>2, <2>1, ExtendsItself, Zenon DEF Follows
<1>3. CASE e = [d EXCEPT !["actions"] = Append(d.actions, entry)] /\ Uses(d.actions, c.ref) = {}
  <2>1. /\ e.actions = Append(d.actions, entry)
        /\ e.launches = d.launches /\ e.decisions = d.decisions /\ e.tasks = d.tasks
        /\ e.controls = d.controls
        /\ e = [body |-> e.body, status |-> e.status, successor |-> e.successor,
                launches |-> e.launches, decisions |-> e.decisions,
                actions |-> e.actions, tasks |-> e.tasks, controls |-> e.controls]
    BY <1>3, Zenon DEF IsDocument
  <2> HIDE DEF e
  <2>2. IsList(d.actions)
    BY Zenon DEF IsDocument
  <2>3. /\ IsList(e.actions) /\ UniqueRefs(e.actions)
        /\ Range(d.actions) \subseteq Range(e.actions)
        /\ entry \in Range(e.actions)
    BY <1>3, <2>1, <2>2, AppendList, AppendRange, AppendUnique, Zenon DEF Legal
  <2>4. IsDocument(e)
    BY <2>1, <2>3, Zenon DEF IsDocument
  <2>5. Legal(e)
    BY <2>1, <2>3, Zenon DEF Legal
  <2>6. Extends(e, d)
    BY <2>1, <2>3, Zenon DEF Extends
  <2>7. \A w : Evident(e, [cmd |-> c, wave |-> w])
    BY <2>3, Zenon DEF Evident
  <2>8. Follows(e, d, c)
    BY <2>1, <2>4, <2>5, <2>6, <2>7, Zenon DEF Follows
  <2> QED BY <2>8, Zenon DEF e
<1>4. \/ e = d /\ entry \in Range(d["actions"])
      \/ /\ e = [d EXCEPT !["actions"] = Append(d["actions"], entry)]
         /\ Uses(d["actions"], entry.ref) = {}
  <2> HIDE DEF entry
  <2>1. "actions" \in {"decisions", "actions", "tasks", "controls"}
    BY Zenon
  <2> QED BY <1>1, <2>1, RecordedIs, Zenon
<1> QED BY <1>2, <1>3, <1>4, Zenon

LEMMA OpenTaskFollows ==
  ASSUME None \notin Reasons, NEW d, IsDocument(d), Legal(d), NEW c,
         c.kind = "OPEN", OpenTask(d, c).refused = None
  PROVE  Follows(OpenTask(d, c).definition, d, c)
<1> DEFINE entry == OpenedTask(c)
           e == OpenTask(d, c).definition
<1>1. OpenTask(d, c) = Recorded(d, "tasks", entry) /\ c.actors # {}
  BY Zenon DEF OpenTask, Refuse, Reasons
<1>2. entry.ref = c.ref /\ entry.transitions[1].by = c.by
  BY Zenon DEF OpenedTask
<1>3. IsTask(entry) /\ TaskStoryHolds(entry)
  <2>1. PICK x : x = entry.transitions[1]
    BY Zenon
  <2>2. entry.transitions = <<x>> /\ x.type = "OPENED" /\ x.to = "OPEN" /\ x.actors = c.actors
    BY <2>1, Zenon DEF OpenedTask
  <2>3. <<x>> \in Seq({x}) /\ Len(<<x>>) = 1 /\ <<x>>[1] = x
    OBVIOUS
  <2>4. IsTask(entry)
    <3>0. IsList(<<x>>) /\ Len(<<x>>) > 0
      <4>1. \E S : <<x>> \in Seq(S)
        BY <2>3, Zenon
      <4> QED BY <2>3, <4>1 DEF IsList
    <3>1. IsList(entry.transitions) /\ Len(entry.transitions) > 0
      BY <2>2, <3>0, Zenon
    <3>2. entry = [ref |-> entry.ref, type |-> entry.type, status |-> entry.status,
                   actors |-> entry.actors, tier |-> entry.tier, sla |-> entry.sla,
                   due |-> entry.due, transitions |-> entry.transitions]
      BY Zenon DEF OpenedTask
    <3> QED BY <3>1, <3>2, Zenon DEF IsTask
  <2>5. entry.status = "OPEN" /\ entry.actors = c.actors
    BY Zenon DEF OpenedTask
  <2>6. 2..1 = {}
    OBVIOUS
  <2>7. TaskStoryHolds(entry)
    BY <1>1, <2>2, <2>3, <2>5, <2>6, Zenon DEF TaskStoryHolds
  <2> QED BY <2>4, <2>7, Zenon
<1> HIDE DEF entry
<1>4. CASE e = d /\ entry \in Range(d.tasks)
  <2>1. \A w : Evident(d, [cmd |-> c, wave |-> w])
    BY <1>2, <1>4, Zenon DEF Evident
  <2> QED BY <1>4, <2>1, ExtendsItself, Zenon DEF Follows
<1>5. CASE e = [d EXCEPT !["tasks"] = Append(d.tasks, entry)] /\ Uses(d.tasks, entry.ref) = {}
  <2>1. /\ e.tasks = Append(d.tasks, entry)
        /\ e.launches = d.launches /\ e.decisions = d.decisions
        /\ e.actions = d.actions /\ e.controls = d.controls
        /\ e = [body |-> e.body, status |-> e.status, successor |-> e.successor,
                launches |-> e.launches, decisions |-> e.decisions,
                actions |-> e.actions, tasks |-> e.tasks, controls |-> e.controls]
    BY <1>5, Zenon DEF IsDocument
  <2> HIDE DEF e
  <2>2. IsList(d.tasks)
    BY Zenon DEF IsDocument
  <2>3. /\ IsList(e.tasks) /\ UniqueRefs(e.tasks) /\ entry \in Range(e.tasks)
    BY <1>5, <2>1, <2>2, AppendList, AppendRange, AppendUnique, Zenon DEF Legal
  <2>4. /\ DOMAIN d.tasks = 1..Len(d.tasks) /\ Len(d.tasks) \in Nat
        /\ DOMAIN e.tasks = 1..(Len(d.tasks) + 1)
        /\ \A i \in 1..Len(d.tasks) : e.tasks[i] = d.tasks[i]
        /\ e.tasks[Len(d.tasks) + 1] = entry
    BY <2>1, <2>2, AppendList, ListShape
  <2>5. \A i \in DOMAIN e.tasks : i \in DOMAIN d.tasks \/ i = Len(d.tasks) + 1
    BY <2>4
  <2>6. \A i \in DOMAIN e.tasks : IsTask(e.tasks[i]) /\ TaskStoryHolds(e.tasks[i])
    BY <1>3, <2>4, <2>5, Zenon DEF IsDocument, Legal
  <2>7. IsDocument(e)
    BY <2>1, <2>3, <2>6, Zenon DEF IsDocument
  <2>8. Legal(e)
    BY <2>1, <2>3, <2>6, Zenon DEF Legal
  <2>9. DOMAIN d.tasks \subseteq DOMAIN e.tasks
    BY <2>4
  <2>10. Extends(e, d)
    BY <2>1, <2>4, <2>9, Zenon DEF Extends
  <2>11. \A w : Evident(e, [cmd |-> c, wave |-> w])
    BY <1>2, <2>3, Zenon DEF Evident
  <2>12. Follows(e, d, c)
    BY <2>1, <2>7, <2>8, <2>10, <2>11, Zenon DEF Follows
  <2> QED BY <2>12, Zenon DEF e
<1>6. \/ e = d /\ entry \in Range(d["tasks"])
      \/ /\ e = [d EXCEPT !["tasks"] = Append(d["tasks"], entry)]
         /\ Uses(d["tasks"], entry.ref) = {}
  <2>1. "tasks" \in {"decisions", "actions", "tasks", "controls"}
    BY Zenon
  <2> QED BY <1>1, <2>1, RecordedIs, Zenon
<1> QED BY <1>4, <1>5, <1>6, Zenon

\* What a control makes of the state of the review.
Moves(state, x, r) ==
  /\ IsReview(r)
  /\ x.action = "SUBMITTED_FOR_REVIEW" => r.submitter = x.submitter
  /\ x.action # "SUBMITTED_FOR_REVIEW" => r.submitter = state.submitter
  /\ x.action = "REVIEWER_ASSIGNED" => r.reviewer = x.reviewer /\ r.role = x.role
  /\ x.action \notin {"SUBMITTED_FOR_REVIEW", "REVIEWER_ASSIGNED"} =>
       r.reviewer = state.reviewer /\ r.role = state.role
  /\ x.action = "REVIEW_COMPLETED" => r.pending = FALSE
  /\ x.action \notin {"SUBMITTED_FOR_REVIEW", "REVIEW_COMPLETED"} =>
       r.pending = state.pending

LEMMA ReviewedMoves ==
  ASSUME NEW state, IsReview(state), NEW x, x.action \in ControlActions
  PROVE  Moves(state, x, Reviewed(state, x))
<1>1. CASE x.action = "SUBMITTED_FOR_REVIEW"
  BY <1>1, Zenon DEF Reviewed, IsReview, Moves
<1>2. CASE x.action = "REVIEWER_ASSIGNED"
  BY <1>2, Zenon DEF Reviewed, IsReview, Moves
<1>3. CASE x.action = "REVIEW_COMPLETED"
  BY <1>3, Zenon DEF Reviewed, IsReview, Moves
<1>4. CASE x.action = "CONTROL_EXCEPTION_RAISED"
  BY <1>4, Zenon DEF Reviewed, IsReview, Moves
<1>5. CASE x.action = "CONTROL_EXCEPTION_RESOLVED"
  BY <1>5, Zenon DEF Reviewed, IsReview, Moves
<1> QED BY <1>1, <1>2, <1>3, <1>4, <1>5, Zenon DEF ControlActions

\* What the loop knows of a review stays true after a control that is allowed.
LEMMA KnownGrows ==
  ASSUME NEW cs, IsList(cs), NEW state, IsReview(state), ReviewIsKnown(cs, state),
         NEW x, x.action \in ControlActions, ControlShape(x),
         ControlAllowed(state, x)
  PROVE  ReviewIsKnown(Append(cs, x), Reviewed(state, x))
<1> DEFINE n == Len(cs)
           more == Append(cs, x)
           r == Reviewed(state, x)
<1>1. /\ n \in Nat /\ Len(more) = n + 1 /\ more[n + 1] = x
      /\ \A i \in 1..n : more[i] = cs[i]
  BY AppendList, ListShape
<1>2. Moves(state, x, r)
  BY ReviewedMoves, Zenon
<1> HIDE DEF n, more, r
<1> SUFFICES ASSUME r.pending = TRUE PROVE ReviewIsKnown(more, r)
  BY Zenon DEF ReviewIsKnown, more, r
<1>3. CASE x.action = "SUBMITTED_FOR_REVIEW"
  <2>1. n + 1 \in 1..Len(more) /\ (n + 1) + 1..Len(more) = {}
    BY <1>1
  <2> QED BY <1>1, <1>2, <1>3, <2>1, Zenon DEF ReviewIsKnown, Moves
<1>4. CASE x.action = "REVIEW_COMPLETED"
  BY <1>2, <1>4, Zenon DEF Moves
<1>5. CASE x.action \notin {"SUBMITTED_FOR_REVIEW", "REVIEW_COMPLETED"}
  <2>1. PICK s \in 1..n :
          /\ cs[s].action = "SUBMITTED_FOR_REVIEW"
          /\ cs[s].submitter = state.submitter
          /\ \A k \in s+1..n :
               /\ cs[k].action \notin {"SUBMITTED_FOR_REVIEW", "REVIEW_COMPLETED"}
               /\ \/ cs[k].action # "REVIEWER_ASSIGNED"
                  \/ \E m \in k+1..n : cs[m].action = "REVIEWER_ASSIGNED"
                  \/ /\ cs[k].reviewer = state.reviewer
                     /\ cs[k].role = state.role
                     /\ None \notin {state.reviewer, state.role}
    BY <1>2, <1>5, Zenon DEF ReviewIsKnown, n, Moves
  <2>2. /\ s \in 1..(n + 1) /\ more[s].action = "SUBMITTED_FOR_REVIEW"
        /\ more[s].submitter = r.submitter
    BY <1>1, <1>2, <1>5, <2>1 DEF Moves
  <2>3. ASSUME NEW k \in s+1..(n + 1)
        PROVE  /\ more[k].action \notin {"SUBMITTED_FOR_REVIEW", "REVIEW_COMPLETED"}
               /\ \/ more[k].action # "REVIEWER_ASSIGNED"
                  \/ \E m \in k+1..(n + 1) : more[m].action = "REVIEWER_ASSIGNED"
                  \/ /\ more[k].reviewer = r.reviewer
                     /\ more[k].role = r.role
                     /\ None \notin {r.reviewer, r.role}
    <3>1. CASE k = n + 1
      <4>1. x.action = "REVIEWER_ASSIGNED" => None \notin {x.reviewer, x.role}
        BY Zenon DEF ControlShape
      <4> QED BY <1>1, <1>2, <1>5, <3>1, <4>1, Zenon DEF Moves
    <3>2. CASE k # n + 1
      <4>1. k \in s+1..n /\ k \in 1..n /\ more[k] = cs[k]
        BY <1>1, <3>2
      <4>2. /\ cs[k].action \notin {"SUBMITTED_FOR_REVIEW", "REVIEW_COMPLETED"}
            /\ \/ cs[k].action # "REVIEWER_ASSIGNED"
               \/ \E m \in k+1..n : cs[m].action = "REVIEWER_ASSIGNED"
               \/ /\ cs[k].reviewer = state.reviewer
                  /\ cs[k].role = state.role
                  /\ None \notin {state.reviewer, state.role}
        BY <2>1, <4>1, Zenon
      <4>3. \A m \in k+1..n : m \in k+1..(n + 1) /\ m \in 1..n /\ more[m] = cs[m]
        BY <1>1, <4>1
      <4>4. n + 1 \in k+1..(n + 1)
        BY <1>1, <4>1
      <4>5. CASE x.action = "REVIEWER_ASSIGNED"
        <5>1. \E m \in k+1..(n + 1) : more[m].action = "REVIEWER_ASSIGNED"
          BY <1>1, <4>4, <4>5, Zenon
        <5> QED BY <4>1, <4>2, <5>1, Zenon
      <4>6. CASE x.action # "REVIEWER_ASSIGNED"
        <5>1. r.reviewer = state.reviewer /\ r.role = state.role
          BY <1>2, <1>5, <4>6, Zenon DEF Moves
        <5> QED BY <4>1, <4>2, <4>3, <5>1, Zenon
      <4> QED BY <4>5, <4>6, Zenon
    <3> QED BY <3>1, <3>2, Zenon
  <2> QED BY <1>1, <2>2, <2>3 DEF ReviewIsKnown
<1> QED BY <1>3, <1>4, <1>5, Zenon

\* A review that is allowed is separated from its submission.
LEMMA SeparatedGrows ==
  ASSUME NEW cs, IsList(cs), NEW state, ReviewIsKnown(cs, state),
         NEW x, ControlShape(x), ControlAllowed(state, x),
         x.action = "REVIEW_COMPLETED"
  PROVE  ReviewIsSeparated(Append(cs, x), Len(cs) + 1)
<1> DEFINE n == Len(cs)
           more == Append(cs, x)
<1>1. /\ n \in Nat /\ more[n + 1] = x /\ \A i \in 1..n : more[i] = cs[i]
  BY AppendList, ListShape
<1> HIDE DEF n, more
<1>2. x.submitter # x.reviewer
  BY Zenon DEF ControlShape
<1>3. /\ state.pending = TRUE /\ x.submitter = state.submitter
      /\ state.reviewer \in {None, x.reviewer} /\ state.role \in {None, x.role}
  BY Zenon DEF ControlAllowed
<1>4. PICK s \in 1..n :
        /\ cs[s].action = "SUBMITTED_FOR_REVIEW"
        /\ cs[s].submitter = state.submitter
        /\ \A k \in s+1..n :
             /\ cs[k].action \notin {"SUBMITTED_FOR_REVIEW", "REVIEW_COMPLETED"}
             /\ \/ cs[k].action # "REVIEWER_ASSIGNED"
                \/ \E m \in k+1..n : cs[m].action = "REVIEWER_ASSIGNED"
                \/ /\ cs[k].reviewer = state.reviewer
                   /\ cs[k].role = state.role
                   /\ None \notin {state.reviewer, state.role}
  BY <1>3, Zenon DEF ReviewIsKnown, n
<1>5. \A k \in s+1..n : /\ k \in 1..n /\ more[k] = cs[k]
                        /\ \A m \in k+1..n : m \in 1..n /\ more[m] = cs[m]
  BY <1>1
<1>6. (n + 1) - 1 = n
  BY <1>1
<1>7. ASSUME NEW k \in s+1..n
      PROVE  /\ more[k].action \notin {"SUBMITTED_FOR_REVIEW", "REVIEW_COMPLETED"}
             /\ \/ more[k].action # "REVIEWER_ASSIGNED"
                \/ \E m \in k+1..n : more[m].action = "REVIEWER_ASSIGNED"
                \/ /\ more[k].reviewer = x.reviewer
                   /\ more[k].role = x.role
  BY <1>3, <1>4, <1>5
<1>8. ReviewIsSeparated(more, n + 1)
  BY <1>1, <1>2, <1>3, <1>4, <1>6, <1>7 DEF ReviewIsSeparated
<1> QED BY <1>8, Zenon DEF n, more

LEMMA ControlsGrow ==
  ASSUME NEW cs, IsList(cs), LegalControls(cs),
         NEW x, x.action \in ControlActions, ControlShape(x),
         ControlAllowed(ReviewState(cs), x), Uses(cs, x.ref) = {}
  PROVE  LegalControls(Append(cs, x))
<1> DEFINE more == Append(cs, x)
           n == Len(cs)
<1>1. /\ n \in Nat /\ DOMAIN cs = 1..n /\ DOMAIN more = 1..(n + 1)
      /\ \A i \in 1..n : more[i] = cs[i]
      /\ more[n + 1] = x
  BY AppendList, ListShape
<1>2. ReviewState(more) = Reviewed(ReviewState(cs), x)
  BY ReviewAppend, Zenon
<1>3. UniqueRefs(more)
  BY AppendUnique, Zenon DEF LegalControls
<1>4. IsReview(ReviewState(more))
  BY <1>2, ReviewedMoves, Zenon DEF LegalControls, Moves
<1>5. ReviewIsKnown(more, ReviewState(more))
  BY <1>2, KnownGrows, Zenon DEF LegalControls
<1>6. x.action = "REVIEW_COMPLETED" => ReviewIsSeparated(more, n + 1)
  BY SeparatedGrows, Zenon DEF LegalControls
<1>7. ASSUME NEW j \in 1..n, cs[j].action = "REVIEW_COMPLETED"
      PROVE  ReviewIsSeparated(more, j)
  <2>1. PICK s \in 1..j-1 :
          /\ cs[s].action = "SUBMITTED_FOR_REVIEW"
          /\ cs[s].submitter = cs[j].submitter
          /\ cs[j].reviewer # cs[s].submitter
          /\ \A k \in s+1..j-1 :
               /\ cs[k].action \notin {"SUBMITTED_FOR_REVIEW", "REVIEW_COMPLETED"}
               /\ \/ cs[k].action # "REVIEWER_ASSIGNED"
                  \/ \E m \in k+1..j-1 : cs[m].action = "REVIEWER_ASSIGNED"
                  \/ /\ cs[k].reviewer = cs[j].reviewer
                     /\ cs[k].role = cs[j].role
    BY <1>1, <1>7, Zenon DEF LegalControls, ReviewIsSeparated
  <2>2. /\ more[s] = cs[s] /\ more[j] = cs[j]
        /\ \A k \in s+1..j-1 : /\ more[k] = cs[k]
                               /\ \A m \in k+1..j-1 : more[m] = cs[m]
    BY <1>1
  <2> HIDE DEF more
  <2> QED BY <2>1, <2>2 DEF ReviewIsSeparated
<1> HIDE DEF more, n
<1>8. \A j \in 1..(n + 1) : j \in 1..n \/ j = n + 1
  BY <1>1
<1>9. \A j \in DOMAIN more :
        more[j].action = "REVIEW_COMPLETED" => ReviewIsSeparated(more, j)
  BY <1>1, <1>6, <1>7, <1>8, Zenon
<1>10. LegalControls(more)
  BY <1>3, <1>4, <1>5, <1>9, Zenon DEF LegalControls
<1> QED BY <1>10, Zenon DEF more

LEMMA RecordControlFollows ==
  ASSUME None \notin Reasons, NEW d, IsDocument(d), Legal(d), NEW c,
         c.kind = "CONTROL", c.action \in ControlActions,
         RecordControl(d, c).refused = None
  PROVE  Follows(RecordControl(d, c).definition, d, c)
<1> DEFINE entry == [ref |-> c.ref, action |-> c.action, by |-> c.by,
                     submitter |-> c.submitter, reviewer |-> c.reviewer,
                     role |-> c.role, outcome |-> c.outcome]
           e == RecordControl(d, c).definition
<1>1. /\ RecordControl(d, c) = Recorded(d, "controls", entry)
      /\ ControlShape(c)
      /\ Uses(d.controls, c.ref) = {} => ControlAllowed(ReviewState(d.controls), entry)
  BY Zenon DEF RecordControl, Refuse, Reasons
<1>2. /\ entry.ref = c.ref /\ entry.action = c.action /\ entry.outcome = c.outcome
      /\ ControlShape(entry)
  BY <1>1, Zenon DEF ControlShape
<1> HIDE DEF entry
<1>3. CASE e = d /\ entry \in Range(d.controls)
  <2>1. \A w : Evident(d, [cmd |-> c, wave |-> w])
    BY <1>2, <1>3, Zenon DEF Evident
  <2> QED BY <1>3, <2>1, ExtendsItself, Zenon DEF Follows
<1>4. CASE e = [d EXCEPT !["controls"] = Append(d.controls, entry)] /\ Uses(d.controls, entry.ref) = {}
  <2>1. /\ e.controls = Append(d.controls, entry)
        /\ e.launches = d.launches /\ e.decisions = d.decisions
        /\ e.tasks = d.tasks /\ e.actions = d.actions
        /\ e = [body |-> e.body, status |-> e.status, successor |-> e.successor,
                launches |-> e.launches, decisions |-> e.decisions,
                actions |-> e.actions, tasks |-> e.tasks, controls |-> e.controls]
    BY <1>4, Zenon DEF IsDocument
  <2> HIDE DEF e
  <2>2. IsList(d.controls)
    BY Zenon DEF IsDocument
  <2>3. /\ IsList(e.controls) /\ Range(d.controls) \subseteq Range(e.controls)
        /\ entry \in Range(e.controls)
    BY <2>1, <2>2, AppendList, AppendRange
  <2>4. LegalControls(e.controls)
    <3>1. /\ LegalControls(d.controls) /\ entry.action \in ControlActions
          /\ ControlAllowed(ReviewState(d.controls), entry)
      BY <1>1, <1>2, <1>4, Zenon DEF Legal
    <3> QED BY <1>2, <1>4, <2>1, <2>2, <3>1, ControlsGrow, Zenon
  <2>5. IsDocument(e)
    BY <2>1, <2>3, Zenon DEF IsDocument
  <2>6. Legal(e)
    BY <2>1, <2>4, Zenon DEF Legal
  <2>7. Extends(e, d)
    BY <2>1, <2>3, Zenon DEF Extends
  <2>8. \A w : Evident(e, [cmd |-> c, wave |-> w])
    BY <1>2, <2>3, Zenon DEF Evident
  <2>9. Follows(e, d, c)
    BY <2>1, <2>5, <2>6, <2>7, <2>8, Zenon DEF Follows
  <2> QED BY <2>9, Zenon DEF e
<1>5. \/ e = d /\ entry \in Range(d["controls"])
      \/ /\ e = [d EXCEPT !["controls"] = Append(d["controls"], entry)]
         /\ Uses(d["controls"], entry.ref) = {}
  <2>1. "controls" \in {"decisions", "actions", "tasks", "controls"}
    BY Zenon
  <2> QED BY <1>1, <2>1, RecordedIs, Zenon
<1> QED BY <1>3, <1>4, <1>5, Zenon

\* A transition that is not refused goes on from where the task stands.
LEMMA TransitionAllowed ==
  ASSUME None \notin Reasons, NEW t, NEW c, c.type \in TransitionTypes,
         TransitionRefusal(t, c) = None
  PROVE  LET to == NextStatus(t.status, c.type) IN
         /\ t.status \notin ClosedTask
         /\ to = "OPEN" => t.status = "OPEN"
         /\ to \notin ClosedTask => Given(c.actors, t.actors) # {}
<1>1. /\ c.type # "OPENED" /\ t.status \notin ClosedTask
      /\ NextStatus(t.status, c.type) \notin ClosedTask => Given(c.actors, t.actors) # {}
  BY Zenon DEF TransitionRefusal, Reasons
<1>2. CASE c.type \in FieldTransitions
  BY <1>1, <1>2, Zenon DEF NextStatus
<1>3. CASE c.type \notin FieldTransitions
  <2>1. c.type \in {"ACKNOWLEDGED", "STARTED", "BLOCKED", "UNBLOCKED", "RESOLVED", "CANCELLED"}
    BY <1>1, <1>3, Zenon DEF TransitionTypes
  <2>2. NextStatus(t.status, c.type) # "OPEN"
    BY <1>3, <2>1 DEF NextStatus, StatusTransitions
  <2> QED BY <1>1, <2>2, Zenon
<1> QED BY <1>2, <1>3, Zenon

\* The task u is the task t with the transition that c asks for.
Continues(u, t, c) ==
  /\ IsTask(u) /\ TaskStoryHolds(u) /\ u.ref = t.ref
  /\ u.transitions[1] = t.transitions[1]
  /\ Range(t.transitions) \subseteq Range(u.transitions)
  /\ \E x \in Range(u.transitions) : x.ref = c.ref /\ x.type = c.type

LEMMA TransitionedHolds ==
  ASSUME None \notin Reasons, NEW t, IsTask(t), TaskStoryHolds(t),
         NEW c, c.type \in TransitionTypes, TransitionRefusal(t, c) = None,
         NEW u, u = Transitioned(t, c)
  PROVE  Continues(u, t, c)
<1> DEFINE to == NextStatus(t.status, c.type)
           actors == Given(c.actors, t.actors)
           n == Len(t.transitions)
<1>1. PICK x : /\ x.ref = c.ref /\ x.type = c.type /\ x.from = t.status
               /\ x.to = to /\ x.actors = actors
               /\ u.transitions = Append(t.transitions, x)
  <2> DEFINE y == [ref |-> c.ref, type |-> c.type, by |-> c.by,
                   from |-> t.status, to |-> to, actors |-> actors,
                   tier |-> Given(c.tier, t.tier), sla |-> Given(c.sla, t.sla),
                   due |-> Given(c.due, t.due)]
  <2>1. u.transitions = Append(t.transitions, y)
    BY Zenon DEF Transitioned, IsTask
  <2> QED BY <2>1, Zenon
<1>2. /\ u.ref = t.ref /\ u.status = to /\ u.actors = actors
      /\ u = [ref |-> u.ref, type |-> u.type, status |-> u.status,
              actors |-> u.actors, tier |-> u.tier, sla |-> u.sla, due |-> u.due,
              transitions |-> u.transitions]
  BY Zenon DEF Transitioned, IsTask
<1>3. /\ t.status \notin ClosedTask
      /\ to = "OPEN" => t.status = "OPEN"
      /\ to \notin ClosedTask => actors # {}
  BY TransitionAllowed, Zenon
<1> HIDE DEF to, actors
<1>4. IsList(t.transitions) /\ n > 0 /\ n \in Nat
  BY ListShape, Zenon DEF IsTask
<1>5. /\ IsList(u.transitions) /\ Len(u.transitions) = n + 1
      /\ \A i \in 1..n : u.transitions[i] = t.transitions[i]
      /\ u.transitions[n + 1] = x
  BY <1>1, <1>4, AppendList
<1>6. Range(t.transitions) \subseteq Range(u.transitions) /\ x \in Range(u.transitions)
  BY <1>1, <1>4, AppendRange, Zenon
<1> HIDE DEF n
<1>7. IsTask(u)
  BY <1>2, <1>4, <1>5 DEF IsTask
<1>8. u.transitions[1] = t.transitions[1]
  BY <1>4, <1>5
<1>9. ASSUME NEW k \in 2..(n + 1)
      PROVE  /\ u.transitions[k].from = u.transitions[k-1].to
             /\ u.transitions[k].from \notin ClosedTask
             /\ u.transitions[k].to # "OPEN" \/ u.transitions[k].from = "OPEN"
  <2>1. CASE k = n + 1
    <3>1. u.transitions[k] = x /\ u.transitions[k - 1] = t.transitions[n]
      BY <1>4, <1>5, <2>1
    <3>2. t.transitions[n].to = t.status
      BY Zenon DEF TaskStoryHolds, n
    <3> QED BY <1>1, <1>3, <3>1, <3>2, Zenon
  <2>2. CASE k # n + 1
    <3>1. /\ k \in 2..n /\ u.transitions[k] = t.transitions[k]
          /\ u.transitions[k - 1] = t.transitions[k - 1]
      BY <1>4, <1>5, <2>2
    <3> QED BY <3>1, Zenon DEF TaskStoryHolds, n
  <2> QED BY <2>1, <2>2, Zenon
<1>10. t.transitions[1].type = "OPENED"
  BY Zenon DEF TaskStoryHolds
<1>11. TaskStoryHolds(u)
  BY <1>1, <1>2, <1>3, <1>5, <1>8, <1>9, <1>10, Zenon DEF TaskStoryHolds
<1> QED BY <1>1, <1>2, <1>6, <1>7, <1>8, <1>11, Zenon DEF Continues

LEMMA TransitionTaskFollows ==
  ASSUME None \notin Reasons, NEW d, IsDocument(d), Legal(d), NEW c,
         c.kind = "TRANSITION", c.type \in TransitionTypes,
         TransitionTask(d, c).refused = None
  PROVE  Follows(TransitionTask(d, c).definition, d, c)
<1> DEFINE i == FirstUse(d.tasks, c.task)
           past == d.tasks[i].transitions
           e == TransitionTask(d, c).definition
<1>1. Uses(d.tasks, c.task) # {}
  BY Zenon DEF TransitionTask, Refuse, Reasons
<1>2. /\ \/ Uses(past, c.ref) # {} /\ MatchesRequest(past[FirstUse(past, c.ref)], c) /\ e = d
         \/ /\ Uses(past, c.ref) = {} /\ TransitionRefusal(d.tasks[i], c) = None
            /\ e = [d EXCEPT !.tasks[i] = Transitioned(@, c)]
  BY Zenon DEF TransitionTask, Refuse, Reasons, Done
<1>3. IsList(d.tasks)
  BY Zenon DEF IsDocument
<1>4. i \in DOMAIN d.tasks /\ d.tasks[i].ref = c.task
  BY <1>1, <1>3, FirstUseIsOne, Zenon
<1>5. IsTask(d.tasks[i]) /\ TaskStoryHolds(d.tasks[i]) /\ IsList(past)
  BY <1>4, Zenon DEF IsDocument, Legal, IsTask
<1> HIDE DEF i, e
<1>6. CASE Uses(past, c.ref) # {} /\ MatchesRequest(past[FirstUse(past, c.ref)], c) /\ e = d
  <2>1. FirstUse(past, c.ref) \in DOMAIN past /\ past[FirstUse(past, c.ref)].ref = c.ref
    BY <1>5, <1>6, FirstUseIsOne, Zenon
  <2>2. past[FirstUse(past, c.ref)].type = c.type
    BY <1>6, Zenon DEF MatchesRequest
  <2>3. \E x \in Range(past) : x.ref = c.ref /\ x.type = c.type
    BY <2>1, <2>2, Zenon DEF Range
  <2>4. d.tasks[i] \in Range(d.tasks)
    BY <1>4, Zenon DEF Range
  <2>5. \A w : Evident(d, [cmd |-> c, wave |-> w])
    BY <1>4, <2>3, <2>4, Zenon DEF Evident
  <2>6. Follows(e, d, c)
    BY <1>6, <2>5, ExtendsItself, Zenon DEF Follows
  <2> QED BY <2>6, Zenon DEF e
<1>7. CASE /\ TransitionRefusal(d.tasks[i], c) = None
           /\ e = [d EXCEPT !.tasks[i] = Transitioned(@, c)]
  <2>1. PICK u : u = Transitioned(d.tasks[i], c)
    BY Zenon
  <2>2. /\ IsTask(u) /\ TaskStoryHolds(u) /\ u.ref = c.task
        /\ u.transitions[1] = past[1]
        /\ Range(past) \subseteq Range(u.transitions)
        /\ \E x \in Range(u.transitions) : x.ref = c.ref /\ x.type = c.type
    <3>1. Continues(u, d.tasks[i], c)
      BY <1>5, <1>7, <2>1, TransitionedHolds, Zenon
    <3> QED BY <1>4, <3>1, Zenon DEF Continues
  <2>3. /\ e.tasks = [d.tasks EXCEPT ![i] = u]
        /\ e.launches = d.launches /\ e.decisions = d.decisions
        /\ e.actions = d.actions /\ e.controls = d.controls
        /\ e = [body |-> e.body, status |-> e.status, successor |-> e.successor,
                launches |-> e.launches, decisions |-> e.decisions,
                actions |-> e.actions, tasks |-> e.tasks, controls |-> e.controls]
    BY <1>4, <1>7, <2>1, Zenon DEF IsDocument
  <2>4. /\ IsList(e.tasks) /\ DOMAIN e.tasks = DOMAIN d.tasks /\ e.tasks[i] = u
        /\ \A j \in DOMAIN d.tasks : j # i => e.tasks[j] = d.tasks[j]
    BY <1>3, <1>4, <2>3, ReplaceInList
  <2>5. \A j \in DOMAIN d.tasks : IsTask(d.tasks[j]) /\ TaskStoryHolds(d.tasks[j])
    BY Zenon DEF IsDocument, Legal
  <2>6. \A j \in DOMAIN e.tasks : IsTask(e.tasks[j]) /\ TaskStoryHolds(e.tasks[j])
    BY <2>2, <2>4, <2>5, Zenon
  <2>7. \A j \in DOMAIN e.tasks : e.tasks[j].ref = d.tasks[j].ref
    BY <1>4, <2>2, <2>4, Zenon
  <2>8. UniqueRefs(e.tasks)
    BY <2>4, <2>7, Zenon DEF UniqueRefs, Legal
  <2>9. IsDocument(e)
    BY <2>3, <2>4, <2>6, Zenon DEF IsDocument
  <2>10. Legal(e)
    BY <2>3, <2>6, <2>8, Zenon DEF Legal
  <2>11. Extends(e, d)
    <3>1. ASSUME NEW j \in DOMAIN d.tasks
          PROVE  /\ j \in DOMAIN e.tasks
                 /\ e.tasks[j].ref = d.tasks[j].ref
                 /\ e.tasks[j].transitions[1] = d.tasks[j].transitions[1]
                 /\ Range(d.tasks[j].transitions) \subseteq Range(e.tasks[j].transitions)
      BY <2>2, <2>4, <2>7, Zenon
    <3> QED BY <2>3, <3>1, Zenon DEF Extends
  <2>12. u \in Range(e.tasks)
    BY <1>4, <2>4, Zenon DEF Range
  <2>13. \A w : Evident(e, [cmd |-> c, wave |-> w])
    BY <2>2, <2>12, Zenon DEF Evident
  <2>14. Follows(e, d, c)
    BY <2>3, <2>9, <2>10, <2>11, <2>13, Zenon DEF Follows
  <2> QED BY <2>14, Zenon DEF e
<1> QED BY <1>2, <1>6, <1>7, Zenon

LEMMA AppliedFollows ==
  ASSUME None \notin Reasons, NEW d, IsDocument(d), Legal(d),
         NEW c, IsCommand(c), c.kind \in EvidenceKinds,
         NEW r, r = Applied(d, c), r.refused = None
  PROVE  Follows(r.definition, d, c)
<1>1. CASE c.kind = "DECIDE"
  BY <1>1, DecideFollows, Zenon DEF Applied
<1>2. CASE c.kind = "ASSIGN"
  BY <1>2, AssignFollows, Zenon DEF Applied
<1>3. CASE c.kind = "OPEN"
  BY <1>3, OpenTaskFollows, Zenon DEF Applied
<1>4. CASE c.kind = "TRANSITION"
  BY <1>4, TransitionTaskFollows, Zenon DEF Applied, IsCommand
<1>5. CASE c.kind = "CONTROL"
  BY <1>5, RecordControlFollows, Zenon DEF Applied, IsCommand
<1> QED BY <1>1, <1>2, <1>3, <1>4, <1>5, Zenon DEF EvidenceKinds

-----------------------------------------------------------------------------
(* The inductive invariant.  Its parts take the tables as parameters, so   *)
(* that one lemma carries each part over every step.                       *)

\* Waves have keys and correlations of their own.
KeyedWaves(ws) ==
  /\ IsList(ws)
  /\ \A i, j \in DOMAIN ws :
       /\ ws[i].key = ws[j].key => i = j
       /\ ws[i].correlation = ws[j].correlation => i = j
       /\ ws[i].correlation = Correlation(ws[i].cmd)

Good(d, ws) == IsDocument(d) /\ Legal(d) /\ Audited(d, ws)

\* The stored row still has what a request read from it, unless it was hit.
ReadFrom(v, d, rs, hit) ==
  /\ rs[v] # None
  /\ v \notin hit => Extends(rs[v], d)

\* A request that has read a row, and what it wants to store.
Reads(k, rs, ws, hit) ==
  IsCommand(k.cmd) /\ Good(k.read, ws) /\ ReadFrom(k.cmd.version, k.read, rs, hit)

Writes(k, ws) == Good(k.update, ws) /\ Extends(k.update, k.read)

Held(k, rs, ws, hit) ==
  \/ /\ k.step \in {"wave", "replacement"}
     /\ k.cmd.kind = (IF k.step = "wave" THEN "LAUNCH" ELSE "SUPERSEDE")
     /\ Reads(k, rs, ws, hit)
  \/ /\ k.step \in {"select", "update"}
     /\ k.cmd.kind \in EvidenceKinds \cup {"LAUNCH"}
     /\ Reads(k, rs, ws, hit) /\ Writes(k, ws)
     /\ Evident(k.update, [cmd |-> k.cmd, wave |-> k.wave])
  \/ /\ k.step \in {"close", "write"}
     /\ k.cmd.kind \in {"RETIRE", "SUPERSEDE"}
     /\ k = [step |-> k.step, cmd |-> k.cmd, read |-> k.read, update |-> k.update]
     /\ Reads(k, rs, ws, hit) /\ Writes(k, ws)
  \/ /\ k.step = "refresh"
     /\ k.cmd.kind = "PUT" /\ IsCommand(k.cmd) /\ rs[k.cmd.version] # None
     /\ k.update = NewDefinition(k.update.body)

Answered(a, rs, hit) ==
  /\ IsCommand(a.cmd) /\ rs[a.cmd.version] # None
  /\ a.cmd.version \notin hit => Evident(rs[a.cmd.version], a)

LoadIsKnown ==
  /\ load = [name |-> load.name, requests |-> load.requests,
             restarts |-> load.restarts, losses |-> load.losses]
  /\ load.name \in DOMAIN Workloads

TablesStand ==
  /\ rows = [v \in Versions |-> rows[v]]
  /\ \A v \in Versions : rows[v] # None => Good(rows[v], waves)
  /\ projection = [v \in Versions |-> projection[v]]
  /\ KeyedWaves(waves)
  /\ exposed = [evidence |-> exposed.evidence, projection |-> exposed.projection]

CallsHold ==
  /\ calls = [c \in Clients |-> calls[c]]
  /\ \A c \in Clients :
       calls[c] = Idle \/ Held(calls[c], rows, waves, exposed.evidence)

RestartStands ==
  restart # None => \A v \in Versions : restart[v] # None => IsDocument(restart[v])

AnswersHold == \A a \in answers : Answered(a, rows, exposed.evidence)

CampaignInv ==
  LoadIsKnown /\ TablesStand /\ CallsHold /\ RestartStands /\ AnswersHold /\ ReadModelAgrees

\* What the steps do to rows and waves.
Grows(rs, rs2, hit, hit2) ==
  \A v \in Versions : rs[v] # None =>
    /\ rs2[v] # None
    /\ v \notin hit2 => v \notin hit /\ Extends(rs2[v], rs[v])

WavesGrow(ws, ws2) == \A i \in DOMAIN ws : i \in DOMAIN ws2 /\ ws2[i] = ws[i]

LEMMA GoodStays ==
  ASSUME NEW d, NEW ws, NEW ws2, Good(d, ws), WavesGrow(ws, ws2)
  PROVE  Good(d, ws2)
<1>1. Audited(d, ws2)
  BY Zenon DEF Good, Audited, WavesGrow
<1> QED BY <1>1, Zenon DEF Good

LEMMA ReadsStay ==
  ASSUME NEW k, NEW rs, NEW ws, NEW hit, NEW rs2, NEW ws2, NEW hit2,
         Reads(k, rs, ws, hit), Grows(rs, rs2, hit, hit2), WavesGrow(ws, ws2)
  PROVE  Reads(k, rs2, ws2, hit2)
<1> DEFINE v == k.cmd.version
<1>1. Good(k.read, ws2)
  BY GoodStays, Zenon DEF Reads
<1>2. v \in Versions /\ rs[v] # None /\ (v \notin hit => Extends(rs[v], k.read))
  BY Zenon DEF Reads, IsCommand, ReadFrom
<1>3. rs2[v] # None /\ (v \notin hit2 => v \notin hit /\ Extends(rs2[v], rs[v]))
  BY <1>2, Zenon DEF Grows
<1>4. v \notin hit2 => Extends(rs2[v], k.read)
  BY <1>2, <1>3, ExtendsOn, Zenon
<1> QED BY <1>1, <1>3, <1>4, Zenon DEF Reads, ReadFrom

LEMMA HeldStays ==
  ASSUME NEW k, NEW rs, NEW ws, NEW hit, NEW rs2, NEW ws2, NEW hit2,
         Held(k, rs, ws, hit), Grows(rs, rs2, hit, hit2), WavesGrow(ws, ws2)
  PROVE  Held(k, rs2, ws2, hit2)
<1>1. Reads(k, rs, ws, hit) => Reads(k, rs2, ws2, hit2)
  BY ReadsStay, Zenon
<1>2. Writes(k, ws) => Writes(k, ws2)
  BY GoodStays, Zenon DEF Writes
<1>3. IsCommand(k.cmd) /\ rs[k.cmd.version] # None => rs2[k.cmd.version] # None
  BY Zenon DEF IsCommand, Grows
<1> QED BY <1>1, <1>2, <1>3, Zenon DEF Held

LEMMA AnsweredStays ==
  ASSUME NEW a, NEW rs, NEW hit, NEW rs2, NEW hit2,
         Answered(a, rs, hit), Grows(rs, rs2, hit, hit2)
  PROVE  Answered(a, rs2, hit2)
<1> DEFINE v == a.cmd.version
<1>1. v \in Versions /\ rs[v] # None /\ (v \notin hit => Evident(rs[v], a))
  BY Zenon DEF Answered, IsCommand
<1>2. rs2[v] # None /\ (v \notin hit2 => v \notin hit /\ Extends(rs2[v], rs[v]))
  BY <1>1, Zenon DEF Grows
<1>3. v \notin hit2 => Evident(rs2[v], a)
  BY <1>1, <1>2, EvidentOn, Zenon
<1> QED BY <1>2, <1>3, Zenon DEF Answered

-----------------------------------------------------------------------------
(* Steps in general.                                                       *)

LEMMA CallsGoOn ==
  ASSUME CallsHold, NEW c \in Clients, NEW k, calls' = [calls EXCEPT ![c] = k],
         k = Idle \/ Held(k, rows', waves', exposed'.evidence),
         Grows(rows, rows', exposed.evidence, exposed'.evidence),
         WavesGrow(waves, waves')
  PROVE  CallsHold'
<1>1. /\ calls' = [b \in Clients |-> calls'[b]] /\ calls'[c] = k
      /\ \A b \in Clients : b # c => calls'[b] = calls[b]
  BY Zenon DEF CallsHold
<1>2. ASSUME NEW b \in Clients
      PROVE  calls'[b] = Idle \/ Held(calls'[b], rows', waves', exposed'.evidence)
  <2>1. CASE b = c
    BY <1>1, <2>1, Zenon
  <2>2. CASE b # c
    <3>1. calls[b] = Idle \/ Held(calls[b], rows, waves, exposed.evidence)
      BY Zenon DEF CallsHold
    <3>2. calls[b] = Idle \/ Held(calls[b], rows', waves', exposed'.evidence)
      BY <3>1, HeldStays, Zenon
    <3> QED BY <1>1, <2>2, <3>2, Zenon
  <2> QED BY <2>1, <2>2, Zenon
<1> QED BY <1>1, <1>2, Zenon DEF CallsHold

LEMMA CallsStay ==
  ASSUME CallsHold, UNCHANGED calls,
         Grows(rows, rows', exposed.evidence, exposed'.evidence),
         WavesGrow(waves, waves')
  PROVE  CallsHold'
<1>1. ASSUME NEW b \in Clients
      PROVE  calls[b] = Idle \/ Held(calls[b], rows', waves', exposed'.evidence)
  BY HeldStays, Zenon DEF CallsHold
<1> QED BY <1>1, Zenon DEF CallsHold

LEMMA AnswersGoOn ==
  ASSUME AnswersHold, Grows(rows, rows', exposed.evidence, exposed'.evidence),
         \A a \in answers' : a \in answers \/ Answered(a, rows', exposed'.evidence)
  PROVE  AnswersHold'
  BY AnsweredStays, Zenon DEF AnswersHold

LEMMA RowsUnmoved ==
  ASSUME UNCHANGED rows, exposed'.evidence = exposed.evidence
  PROVE  Grows(rows, rows', exposed.evidence, exposed'.evidence)
  BY ExtendsItself, Zenon DEF Grows

LEMMA WavesUnmoved ==
  ASSUME UNCHANGED waves PROVE WavesGrow(waves, waves')
  BY Zenon DEF WavesGrow

\* A step that leaves the tables alone.
Quiet == UNCHANGED <<rows, projection, waves, restart, exposed>>

LEMMA QuietKeeps ==
  ASSUME CampaignInv, Quiet, LoadIsKnown', CallsHold', AnswersHold'
  PROVE  CampaignInv'
<1>1. TablesStand'
  BY Zenon DEF CampaignInv, Quiet, TablesStand
<1>2. RestartStands'
  BY Zenon DEF CampaignInv, Quiet, RestartStands
<1>3. ReadModelAgrees'
  BY Zenon DEF CampaignInv, Quiet, ReadModelAgrees
<1> QED BY <1>1, <1>2, <1>3, Zenon DEF CampaignInv

LEMMA ReplyAnswers ==
  ASSUME AnswersHold, Grows(rows, rows', exposed.evidence, exposed'.evidence),
         NEW c, NEW cmd, NEW out, NEW wave, Reply(c, cmd, out, wave),
         out = "OK" => Answered([cmd |-> cmd, wave |-> wave], rows', exposed'.evidence)
  PROVE  AnswersHold'
<1>1. \A a \in answers' : a \in answers \/ (out = "OK" /\ a = [cmd |-> cmd, wave |-> wave])
  BY Zenon DEF Reply, When
<1> QED BY <1>1, AnswersGoOn, Zenon

LEMMA ReplyKeeps ==
  ASSUME CampaignInv, Quiet, LoadIsKnown',
         NEW c \in Clients, NEW cmd, NEW out, NEW wave, Reply(c, cmd, out, wave),
         out = "OK" => Answered([cmd |-> cmd, wave |-> wave], rows, exposed.evidence)
  PROVE  CampaignInv'
<1>1. /\ Grows(rows, rows', exposed.evidence, exposed'.evidence)
      /\ WavesGrow(waves, waves')
  BY RowsUnmoved, WavesUnmoved, Zenon DEF Quiet
<1>2. CallsHold'
  BY <1>1, CallsGoOn, Zenon DEF CampaignInv, Reply
<1>3. out = "OK" => Answered([cmd |-> cmd, wave |-> wave], rows', exposed'.evidence)
  BY Zenon DEF Quiet
<1>4. AnswersHold'
  BY <1>1, <1>3, ReplyAnswers, Zenon DEF CampaignInv
<1> QED BY <1>2, <1>4, QuietKeeps, Zenon

LEMMA ProceedKeeps ==
  ASSUME CampaignInv, Quiet, LoadIsKnown',
         NEW c \in Clients, NEW k, Proceed(c, k), Held(k, rows, waves, exposed.evidence)
  PROVE  CampaignInv'
<1>1. /\ Grows(rows, rows', exposed.evidence, exposed'.evidence)
      /\ WavesGrow(waves, waves')
  BY RowsUnmoved, WavesUnmoved, Zenon DEF Quiet
<1>2. Held(k, rows', waves', exposed'.evidence)
  BY Zenon DEF Quiet
<1>3. CallsHold'
  BY <1>1, <1>2, CallsGoOn, Zenon DEF CampaignInv, Proceed
<1>4. AnswersHold'
  BY <1>1, AnswersGoOn, Zenon DEF CampaignInv, Proceed
<1> QED BY <1>3, <1>4, QuietKeeps, Zenon

\* A command that is sent is one the request models admit, and a row that is
\* there is a good document.
LEMMA Sent ==
  ASSUME WellPosed, CampaignInv, NEW c \in Clients, NEW cmd \in Menu(c), Send(c, cmd)
  PROVE  /\ IsCommand(cmd) /\ LoadIsKnown'
         /\ rows[cmd.version] # None =>
              /\ Good(rows[cmd.version], waves)
              /\ ReadFrom(cmd.version, rows[cmd.version], rows, exposed.evidence)
<1>1. IsCommand(cmd)
  BY Zenon DEF WellPosed, CampaignInv, LoadIsKnown, Menu
<1>2. LoadIsKnown'
  BY Zenon DEF CampaignInv, LoadIsKnown, Send
<1>3. cmd.version \in Versions
  BY <1>1, Zenon DEF IsCommand
<1>4. rows[cmd.version] # None => Good(rows[cmd.version], waves)
  BY <1>3, Zenon DEF CampaignInv, TablesStand
<1>5. rows[cmd.version] # None =>
        ReadFrom(cmd.version, rows[cmd.version], rows, exposed.evidence)
  BY ExtendsItself, Zenon DEF ReadFrom
<1> QED BY <1>1, <1>2, <1>4, <1>5, Zenon

-----------------------------------------------------------------------------
(* The service's steps.                                                    *)

LEMMA KeepsRecordEvidence ==
  ASSUME WellPosed, CampaignInv, NEW c \in Clients, NEW cmd \in Menu(c),
         RecordEvidence(c, cmd)
  PROVE  CampaignInv'
<1> DEFINE read == rows[cmd.version]
           result == Applied(read, cmd)
           call == [step |-> "select", cmd |-> cmd, read |-> read,
                    update |-> result.definition, wave |-> None]
<1>1. Send(c, cmd) /\ Quiet /\ cmd.kind \in EvidenceKinds
  BY Zenon DEF RecordEvidence, Quiet
<1>2. /\ IsCommand(cmd) /\ LoadIsKnown'
      /\ read # None => /\ Good(read, waves)
                        /\ ReadFrom(cmd.version, read, rows, exposed.evidence)
  BY <1>1, Sent, Zenon
<1>3. CASE read = None
  <2>1. Reply(c, cmd, "NOT_FOUND", None)
    BY <1>3, Zenon DEF RecordEvidence
  <2> QED BY <1>1, <1>2, <2>1, ReplyKeeps, Zenon
<1>4. CASE read # None /\ result.refused # None
  <2>1. Reply(c, cmd, result.refused, None)
    BY <1>4, Zenon DEF RecordEvidence
  <2>2. result.refused # "OK"
    BY <1>1, <1>4, ZenonT(30) DEF Applied, EvidenceKinds, Decide, Assign, OpenTask, TransitionTask,
       RecordControl, Recorded, Refuse, Done, TransitionRefusal
  <2> HIDE DEF result
  <2> QED BY <1>1, <1>2, <2>1, <2>2, ReplyKeeps, Zenon
<1>5. CASE read # None /\ result.refused = None
  <2>1. Proceed(c, call)
    BY <1>5, Zenon DEF RecordEvidence
  <2>2. PICK r : r = result
    BY Zenon
  <2>3. None \notin Reasons /\ IsDocument(read) /\ Legal(read) /\ Audited(read, waves)
    BY <1>2, <1>5, Zenon DEF WellPosed, Good
  <2>4. Follows(r.definition, read, cmd)
    BY <1>1, <1>2, <1>5, <2>2, <2>3, AppliedFollows, Zenon
  <2> HIDE DEF result
  <2>5. /\ call.step = "select" /\ call.cmd = cmd /\ call.read = read
        /\ call.update = r.definition /\ call.wave = None
    BY <2>2, ZenonT(30)
  <2> HIDE DEF call
  <2>6. Good(call.update, waves)
    BY <2>3, <2>4, <2>5 DEF Follows, Good, Audited
  <2>7. Reads(call, rows, waves, exposed.evidence) /\ Writes(call, waves)
    BY <1>2, <1>5, <2>4, <2>5, <2>6, Zenon DEF Reads, Writes, Follows
  <2>8. Evident(call.update, [cmd |-> call.cmd, wave |-> call.wave])
    BY <2>4, <2>5, Zenon DEF Follows
  <2>9. Held(call, rows, waves, exposed.evidence)
    BY <1>1, <2>5, <2>7, <2>8, Zenon DEF Held
  <2> QED BY <1>1, <1>2, <2>1, <2>9, ProceedKeeps, Zenon
<1> QED BY <1>3, <1>4, <1>5, Zenon

LEMMA KeepsLaunch ==
  ASSUME WellPosed, CampaignInv, NEW c \in Clients, NEW cmd \in Menu(c), Launch(c, cmd)
  PROVE  CampaignInv'
<1> DEFINE read == rows[cmd.version]
           call == [step |-> "wave", cmd |-> cmd, read |-> read]
<1>1. Send(c, cmd) /\ Quiet /\ cmd.kind = "LAUNCH"
  BY Zenon DEF Launch, Quiet
<1>2. /\ IsCommand(cmd) /\ LoadIsKnown'
      /\ read # None => /\ Good(read, waves)
                        /\ ReadFrom(cmd.version, read, rows, exposed.evidence)
  BY <1>1, Sent, Zenon
<1>3. CASE read = None
  <2>1. Reply(c, cmd, "NOT_FOUND", None)
    BY <1>3, Zenon DEF Launch
  <2> QED BY <1>1, <1>2, <2>1, ReplyKeeps, Zenon
<1>4. CASE read # None /\ ~Ready(read, cmd.date, cmd.by)
  <2>1. Reply(c, cmd, "BLOCKED", None)
    BY <1>4, Zenon DEF Launch
  <2> QED BY <1>1, <1>2, <2>1, ReplyKeeps, Zenon
<1>5. CASE read # None /\ Ready(read, cmd.date, cmd.by)
  <2>1. Proceed(c, call)
    BY <1>5, Zenon DEF Launch
  <2>2. Held(call, rows, waves, exposed.evidence)
    BY <1>1, <1>2, <1>5, Zenon DEF Held, Reads
  <2> QED BY <1>1, <1>2, <2>1, <2>2, ProceedKeeps, Zenon
<1> QED BY <1>3, <1>4, <1>5, Zenon

\* Closing a document loses nothing of it.
LEMMA ClosingKeeps ==
  ASSUME NEW d, NEW ws, Good(d, ws), NEW s, NEW t, NEW e,
         e = [d EXCEPT !.status = s, !.successor = t]
  PROVE  Good(e, ws) /\ Extends(e, d)
<1>1. /\ e.launches = d.launches /\ e.decisions = d.decisions /\ e.actions = d.actions
      /\ e.tasks = d.tasks /\ e.controls = d.controls
      /\ e = [body |-> e.body, status |-> e.status, successor |-> e.successor,
              launches |-> e.launches, decisions |-> e.decisions,
              actions |-> e.actions, tasks |-> e.tasks, controls |-> e.controls]
  BY Zenon DEF Good, IsDocument
<1>2. IsDocument(e)
  BY <1>1, Zenon DEF Good, IsDocument
<1>3. Legal(e)
  BY <1>1, Zenon DEF Good, Legal
<1>4. Audited(e, ws)
  BY <1>1 DEF Good, Audited
<1>5. Extends(e, d)
  BY <1>1, Zenon DEF Extends
<1> QED BY <1>2, <1>3, <1>4, <1>5, Zenon DEF Good

LEMMA RetiringKeeps ==
  ASSUME NEW d, NEW ws, Good(d, ws)
  PROVE  Good(Retired(d), ws) /\ Extends(Retired(d), d)
<1>1. Retired(d) = [d EXCEPT !.status = "RETIRED", !.successor = d.successor]
  BY Zenon DEF Retired, Good, IsDocument
<1> QED BY <1>1, ClosingKeeps, Zenon

LEMMA KeepsRetire ==
  ASSUME WellPosed, CampaignInv, NEW c \in Clients, NEW cmd \in Menu(c), Retire(c, cmd)
  PROVE  CampaignInv'
<1> DEFINE read == rows[cmd.version]
           call == [step |-> "close", cmd |-> cmd, read |-> read, update |-> Retired(read)]
<1>1. Send(c, cmd) /\ Quiet /\ cmd.kind = "RETIRE"
  BY Zenon DEF Retire, Quiet
<1>2. /\ IsCommand(cmd) /\ LoadIsKnown'
      /\ read # None => /\ Good(read, waves)
                        /\ ReadFrom(cmd.version, read, rows, exposed.evidence)
  BY <1>1, Sent, Zenon
<1>3. CASE \/ Reply(c, cmd, "NOT_FOUND", None)
           \/ Reply(c, cmd, "LIFECYCLE_CONFLICT", None)
  BY <1>1, <1>2, <1>3, ReplyKeeps, Zenon
<1>4. CASE read # None /\ Reply(c, cmd, "OK", None)
  <2>1. Answered([cmd |-> cmd, wave |-> None], rows, exposed.evidence)
    BY <1>1, <1>2, <1>4, Zenon DEF Answered, Evident
  <2> QED BY <1>1, <1>2, <1>4, <2>1, ReplyKeeps, Zenon
<1>5. CASE read # None /\ Proceed(c, call)
  <2>1. Good(call.update, waves) /\ Extends(call.update, read)
    BY <1>2, <1>5, RetiringKeeps, Zenon
  <2>2. Held(call, rows, waves, exposed.evidence)
    BY <1>1, <1>2, <1>5, <2>1, Zenon DEF Held, Reads, Writes
  <2> QED BY <1>1, <1>2, <1>5, <2>2, ProceedKeeps, Zenon
<1> QED BY <1>3, <1>4, <1>5, Zenon DEF Retire

LEMMA KeepsSupersede ==
  ASSUME WellPosed, CampaignInv, NEW c \in Clients, NEW cmd \in Menu(c), Supersede(c, cmd)
  PROVE  CampaignInv'
<1> DEFINE read == rows[cmd.version]
           call == [step |-> "replacement", cmd |-> cmd, read |-> read]
<1>1. Send(c, cmd) /\ Quiet /\ cmd.kind = "SUPERSEDE"
  BY Zenon DEF Supersede, Quiet
<1>2. /\ IsCommand(cmd) /\ LoadIsKnown'
      /\ read # None => /\ Good(read, waves)
                        /\ ReadFrom(cmd.version, read, rows, exposed.evidence)
  BY <1>1, Sent, Zenon
<1>3. CASE \/ Reply(c, cmd, "NOT_FOUND", None)
           \/ Reply(c, cmd, "LIFECYCLE_CONFLICT", None)
           \/ Reply(c, cmd, "REPLACEMENT_VERSION_INVALID", None)
  BY <1>1, <1>2, <1>3, ReplyKeeps, Zenon
<1>4. CASE read # None /\ Reply(c, cmd, "OK", None)
  <2>1. Answered([cmd |-> cmd, wave |-> None], rows, exposed.evidence)
    BY <1>1, <1>2, <1>4, Zenon DEF Answered, Evident
  <2> QED BY <1>1, <1>2, <1>4, <2>1, ReplyKeeps, Zenon
<1>5. CASE read # None /\ Proceed(c, call)
  <2>1. Held(call, rows, waves, exposed.evidence)
    BY <1>1, <1>2, <1>5, Zenon DEF Held, Reads
  <2> QED BY <1>1, <1>2, <1>5, <2>1, ProceedKeeps, Zenon
<1> QED BY <1>3, <1>4, <1>5, Zenon DEF Supersede

LEMMA Waiting ==
  ASSUME CampaignInv, NEW c \in Clients, calls[c].step # "idle"
  PROVE  Held(calls[c], rows, waves, exposed.evidence)
  BY DEF CampaignInv, CallsHold, Idle

LEMMA KeepsReadReplacement ==
  ASSUME WellPosed, CampaignInv, NEW c \in Clients, ReadReplacement(c)
  PROVE  CampaignInv'
<1> DEFINE k == calls[c]
           other == rows[k.cmd.replacement]
           closed == Superseded(k.read, k.cmd.replacement, other)
           call == [step |-> "close", cmd |-> k.cmd, read |-> k.read, update |-> closed]
<1>1. Quiet /\ k.step = "replacement" /\ UNCHANGED load
  BY Zenon DEF ReadReplacement, Quiet
<1>2. LoadIsKnown'
  BY <1>1, Zenon DEF CampaignInv, LoadIsKnown
<1>3. Held(k, rows, waves, exposed.evidence)
  BY <1>1, Waiting, Zenon
<1> HIDE DEF k
<1>4. Reads(k, rows, waves, exposed.evidence) /\ k.cmd.kind = "SUPERSEDE"
  BY <1>1, <1>3, Zenon DEF Held
<1>5. CASE \/ Reply(c, k.cmd, "REPLACEMENT_NOT_FOUND", None)
           \/ Reply(c, k.cmd, "REPLACEMENT_NOT_ACTIVE", None)
  BY <1>1, <1>2, <1>5, ReplyKeeps, Zenon
<1>6. CASE Proceed(c, call)
  <2>1. closed = [k.read EXCEPT !.status = "SUPERSEDED",
                                !.successor = [version |-> k.cmd.replacement,
                                               content |-> ContentOf(other)]]
    BY Zenon DEF Superseded
  <2>2. Good(closed, waves) /\ Extends(closed, k.read)
    <3>1. Good(k.read, waves)
      BY <1>4, Zenon DEF Reads
    <3> QED BY <2>1, <3>1, ClosingKeeps, Zenon
  <2> HIDE DEF closed
  <2>3. /\ call.step = "close" /\ call.cmd = k.cmd /\ call.read = k.read
        /\ call.update = closed
        /\ call = [step |-> call.step, cmd |-> call.cmd, read |-> call.read,
                   update |-> call.update]
    BY Zenon
  <2> HIDE DEF call
  <2>4. Reads(call, rows, waves, exposed.evidence) /\ Writes(call, waves)
    BY <1>4, <2>2, <2>3, Zenon DEF Reads, Writes
  <2>5. Held(call, rows, waves, exposed.evidence)
    BY <1>4, <2>3, <2>4, Zenon DEF Held
  <2> QED BY <1>1, <1>2, <1>6, <2>5, ProceedKeeps, Zenon
<1> QED BY <1>5, <1>6, Zenon DEF ReadReplacement, k

-----------------------------------------------------------------------------
(* The repository's steps.                                                 *)

LEMMA KeepsSelectToClose ==
  ASSUME WellPosed, CampaignInv, NEW c \in Clients, SelectToClose(c)
  PROVE  CampaignInv'
<1> DEFINE k == calls[c]
           call == [k EXCEPT !.step = "write"]
<1>1. Quiet /\ k.step = "close" /\ UNCHANGED load
  BY Zenon DEF SelectToClose, Quiet
<1>2. LoadIsKnown'
  BY <1>1, Zenon DEF CampaignInv, LoadIsKnown
<1>3. Held(k, rows, waves, exposed.evidence)
  BY <1>1, Waiting, Zenon
<1> HIDE DEF k
<1>4. /\ Reads(k, rows, waves, exposed.evidence) /\ Writes(k, waves)
      /\ k.cmd.kind \in {"RETIRE", "SUPERSEDE"}
      /\ k = [step |-> k.step, cmd |-> k.cmd, read |-> k.read, update |-> k.update]
  BY <1>1, <1>3, Zenon DEF Held
<1>5. CASE Reply(c, k.cmd, "OK", None)
  <2>1. Answered([cmd |-> k.cmd, wave |-> None], rows, exposed.evidence)
    BY <1>4, Zenon DEF Answered, Evident, Reads, ReadFrom
  <2> QED BY <1>1, <1>2, <1>5, <2>1, ReplyKeeps, Zenon
<1>6. CASE Proceed(c, call)
  <2>1. /\ call.step = "write" /\ call.cmd = k.cmd /\ call.read = k.read
        /\ call.update = k.update
        /\ call = [step |-> call.step, cmd |-> call.cmd, read |-> call.read,
                   update |-> call.update]
    BY <1>4
  <2> HIDE DEF call
  <2>2. Held(call, rows, waves, exposed.evidence)
    BY <1>4, <2>1, Zenon DEF Held, Reads, Writes
  <2> QED BY <1>1, <1>2, <1>6, <2>2, ProceedKeeps, Zenon
<1> QED BY <1>5, <1>6, Zenon DEF SelectToClose, k

\* A document with the content of the one a request read, that passes the
\* fence, has nothing the request would lose.
LEMMA FencedExtends ==
  ASSUME NEW existing, IsDocument(existing), NEW read, IsDocument(read),
         NEW update, IsDocument(update), Extends(update, read), NEW kind,
         ContentOf(existing) = ContentOf(read), AppendFence(existing, update, kind)
  PROVE  Extends(update, existing)
<1>1. /\ existing.decisions = read.decisions /\ existing.actions = read.actions
      /\ existing.tasks = read.tasks /\ existing.controls = read.controls
  <2>1. /\ ContentOf(existing).decisions = existing.decisions
        /\ ContentOf(existing).actions = existing.actions
        /\ ContentOf(existing).tasks = existing.tasks
        /\ ContentOf(existing).controls = existing.controls
    BY Zenon DEF ContentOf, IsDocument
  <2>2. /\ ContentOf(read).decisions = read.decisions
        /\ ContentOf(read).actions = read.actions
        /\ ContentOf(read).tasks = read.tasks
        /\ ContentOf(read).controls = read.controls
    BY Zenon DEF ContentOf, IsDocument
  <2> QED BY <2>1, <2>2, Zenon
<1>2. IsList(existing.launches) /\ IsList(update.launches)
  BY Zenon DEF IsDocument
<1>3. Range(existing.launches) \subseteq Range(update.launches)
  <2>1. CASE kind = "LAUNCH"
    <3> DEFINE n == Len(existing.launches)
               s == update.launches
    <3>1. n \in Nat /\ DOMAIN existing.launches = 1..n /\ DOMAIN s = 1..Len(s)
      BY <1>2, ListShape, Zenon
    <3>2. Len(s) = n + 1 /\ SubSeq(s, 1, n) = existing.launches
      BY <2>1, Zenon DEF AppendFence
    <3>3. PICK S : s \in Seq(S)
      BY <1>2, Zenon DEF IsList
    <3>4. \A i \in 1..n : i \in DOMAIN s /\ existing.launches[i] = s[i]
      BY <3>1, <3>2, <3>3
    <3> QED BY <3>1, <3>4, Zenon DEF Range
  <2>2. CASE kind # "LAUNCH"
    BY <2>2, Zenon DEF AppendFence
  <2> QED BY <2>1, <2>2, Zenon
<1> QED BY <1>1, <1>3 DEF Extends

LEMMA KeepsSelectRow ==
  ASSUME WellPosed, CampaignInv, NEW c \in Clients, SelectRow(c)
  PROVE  CampaignInv'
<1> DEFINE k == calls[c]
           existing == rows[k.cmd.version]
           call == [step |-> "update", cmd |-> k.cmd, read |-> existing,
                    update |-> k.update, wave |-> k.wave]
<1>1. Quiet /\ k.step = "select" /\ UNCHANGED load
  BY Zenon DEF SelectRow, Quiet
<1>2. LoadIsKnown'
  BY <1>1, Zenon DEF CampaignInv, LoadIsKnown
<1>3. Held(k, rows, waves, exposed.evidence)
  BY <1>1, Waiting, Zenon
<1>4. \/ k.update = k.read /\ existing = k.read /\ Reply(c, k.cmd, "OK", k.wave)
      \/ Reply(c, k.cmd, "LIFECYCLE_CONFLICT", None)
      \/ Reply(c, k.cmd, "STALE_WRITE", None)
      \/ /\ ContentOf(existing) = ContentOf(k.read)
         /\ AppendFence(existing, k.update, k.cmd.kind)
         /\ Proceed(c, call)
  BY Zenon DEF SelectRow
<1> HIDE DEF k
<1>5. /\ Reads(k, rows, waves, exposed.evidence) /\ Writes(k, waves)
      /\ k.cmd.kind \in EvidenceKinds \cup {"LAUNCH"}
      /\ Evident(k.update, [cmd |-> k.cmd, wave |-> k.wave])
  BY <1>1, <1>3, Zenon DEF Held
<1>6. IsCommand(k.cmd) /\ k.cmd.version \in Versions /\ existing # None
  BY <1>5, Zenon DEF Reads, ReadFrom, IsCommand
<1>7. CASE \/ Reply(c, k.cmd, "LIFECYCLE_CONFLICT", None)
           \/ Reply(c, k.cmd, "STALE_WRITE", None)
  BY <1>1, <1>2, <1>7, ReplyKeeps, Zenon
<1>8. CASE k.update = k.read /\ existing = k.read /\ Reply(c, k.cmd, "OK", k.wave)
  <2>1. Answered([cmd |-> k.cmd, wave |-> k.wave], rows, exposed.evidence)
    BY <1>5, <1>6, <1>8, Zenon DEF Answered
  <2> QED BY <1>1, <1>2, <1>8, <2>1, ReplyKeeps, Zenon
<1>9. CASE /\ ContentOf(existing) = ContentOf(k.read)
           /\ AppendFence(existing, k.update, k.cmd.kind)
           /\ Proceed(c, call)
  <2>1. Good(existing, waves) /\ Good(k.read, waves) /\ Good(k.update, waves)
    BY <1>5, <1>6, Zenon DEF CampaignInv, TablesStand, Reads, Writes
  <2>2. Extends(k.update, existing)
    BY <1>5, <1>9, <2>1, FencedExtends, Zenon DEF Good, Writes
  <2>3. /\ call.step = "update" /\ call.cmd = k.cmd /\ call.read = existing
        /\ call.update = k.update /\ call.wave = k.wave
    BY Zenon
  <2> HIDE DEF call
  <2>4. Reads(call, rows, waves, exposed.evidence) /\ Writes(call, waves)
    BY <1>6, <2>1, <2>2, <2>3, ExtendsItself, Zenon DEF Reads, Writes, ReadFrom
  <2>5. Held(call, rows, waves, exposed.evidence)
    BY <1>5, <2>3, <2>4, Zenon DEF Held
  <2> QED BY <1>1, <1>2, <1>9, <2>5, ProceedKeeps, Zenon
<1> QED BY <1>4, <1>7, <1>8, <1>9, Zenon

LEMMA KeepsAbandon ==
  ASSUME CampaignInv, NEW c \in Clients, Abandon(c)
  PROVE  CampaignInv'
<1>1. Quiet /\ UNCHANGED answers /\ calls' = [calls EXCEPT ![c] = Idle]
  BY Zenon DEF Abandon, Quiet
<1>2. LoadIsKnown'
  BY Zenon DEF Abandon, CampaignInv, LoadIsKnown
<1>3. /\ Grows(rows, rows', exposed.evidence, exposed'.evidence)
      /\ WavesGrow(waves, waves')
  BY <1>1, RowsUnmoved, WavesUnmoved, Zenon DEF Quiet
<1>4. CallsHold'
  BY <1>1, <1>3, CallsGoOn, Zenon DEF CampaignInv
<1>5. AnswersHold'
  BY <1>1, <1>3, AnswersGoOn, Zenon DEF CampaignInv
<1> QED BY <1>1, <1>2, <1>4, <1>5, QuietKeeps, Zenon

-----------------------------------------------------------------------------
(* The wave of a launch.                                                   *)

LEMMA LaunchedKeeps ==
  ASSUME NEW ws, KeyedWaves(ws), NEW d, Good(d, ws), NEW key,
         NEW wave \in DOMAIN ws, ws[wave].key = key, NEW c,
         NEW e, e = Launched(d, key, wave, c)
  PROVE  /\ Good(e, ws) /\ Extends(e, d)
         /\ \E x \in Range(e.launches) : x.wave = wave
<1>1. CASE \E i \in DOMAIN d.launches : d.launches[i].key = key
  <2>1. e = d
    BY <1>1, Zenon DEF Launched
  <2>2. PICK i \in DOMAIN d.launches : d.launches[i].key = key
    BY <1>1, Zenon
  <2>3. d.launches[i].wave \in DOMAIN ws /\ ws[d.launches[i].wave].key = key
    BY <2>2, Zenon DEF Good, Audited
  <2>4. d.launches[i].wave = wave
    BY <2>3, Zenon DEF KeyedWaves
  <2>5. \E x \in Range(d.launches) : x.wave = wave
    BY <2>4, Zenon DEF Range
  <2> QED BY <2>1, <2>5, ExtendsItself, Zenon
<1>2. CASE ~\E i \in DOMAIN d.launches : d.launches[i].key = key
  <2> DEFINE x == [wave |-> wave, key |-> key, by |-> c.by, date |-> c.date]
             n == Len(d.launches)
  <2>1. /\ e.launches = Append(d.launches, x)
        /\ e.decisions = d.decisions /\ e.actions = d.actions
        /\ e.tasks = d.tasks /\ e.controls = d.controls
        /\ e = [body |-> e.body, status |-> e.status, successor |-> e.successor,
                launches |-> e.launches, decisions |-> e.decisions,
                actions |-> e.actions, tasks |-> e.tasks, controls |-> e.controls]
    BY <1>2, Zenon DEF Launched, Good, IsDocument
  <2>2. x.wave = wave /\ x.key = key
    BY Zenon
  <2> HIDE DEF x
  <2>3. IsList(d.launches)
    BY Zenon DEF Good, IsDocument
  <2>4. /\ n \in Nat /\ DOMAIN d.launches = 1..n /\ IsList(e.launches)
        /\ DOMAIN e.launches = 1..(n + 1)
        /\ \A i \in 1..n : e.launches[i] = d.launches[i]
        /\ e.launches[n + 1] = x
    BY <2>1, <2>3, AppendList, ListShape
  <2>5. Range(d.launches) \subseteq Range(e.launches) /\ x \in Range(e.launches)
    BY <2>1, <2>3, AppendRange, Zenon
  <2> HIDE DEF n
  <2>6. \A i \in 1..(n + 1) : i \in 1..n \/ i = n + 1
    BY <2>4
  <2>7. IsDocument(e)
    BY <2>1, <2>4, Zenon DEF Good, IsDocument
  <2>8. Legal(e)
    BY <2>1, Zenon DEF Good, Legal
  <2>9. \A i \in 1..n : /\ d.launches[i].wave \in DOMAIN ws
                        /\ ws[d.launches[i].wave].key = d.launches[i].key
                        /\ d.launches[i].key # key
                        /\ \A j \in 1..n : d.launches[i].key = d.launches[j].key => i = j
    BY <1>2, <2>4, Zenon DEF Good, Audited
  <2>10. \A i \in 1..(n + 1) : /\ e.launches[i].wave \in DOMAIN ws
                               /\ ws[e.launches[i].wave].key = e.launches[i].key
    BY <2>2, <2>4, <2>6, <2>9
  <2>11. \A i, j \in 1..(n + 1) : e.launches[i].key = e.launches[j].key => i = j
    BY <2>2, <2>4, <2>6, <2>9
  <2>12. Audited(e, ws)
    BY <2>4, <2>10, <2>11, Zenon DEF Audited
  <2>13. Extends(e, d)
    BY <2>1, <2>5, Zenon DEF Extends
  <2> QED BY <2>2, <2>5, <2>7, <2>8, <2>12, <2>13, Zenon DEF Good
<1> QED BY <1>1, <1>2, Zenon

\* A new wave has a key and a correlation that no wave had.
LEMMA NewWaveIsKeyed ==
  ASSUME NEW ws, KeyedWaves(ws), NEW w,
         \A i \in DOMAIN ws : ws[i].key # w.key /\ ws[i].correlation # w.correlation,
         w.correlation = Correlation(w.cmd)
  PROVE  /\ KeyedWaves(Append(ws, w)) /\ WavesGrow(ws, Append(ws, w))
         /\ Len(ws) + 1 \in DOMAIN Append(ws, w) /\ Append(ws, w)[Len(ws) + 1] = w
<1> DEFINE n == Len(ws)
           more == Append(ws, w)
<1>1. /\ n \in Nat /\ DOMAIN ws = 1..n /\ IsList(more) /\ DOMAIN more = 1..(n + 1)
      /\ \A i \in 1..n : more[i] = ws[i]
      /\ more[n + 1] = w
  BY AppendList, ListShape DEF KeyedWaves
<1> HIDE DEF n, more
<1>2. /\ \A i \in 1..(n + 1) : i \in 1..n \/ i = n + 1
      /\ n + 1 \in 1..(n + 1) /\ \A i \in 1..n : i \in 1..(n + 1)
  BY <1>1
<1>3. \A i, j \in 1..n : /\ ws[i].key = ws[j].key => i = j
                         /\ ws[i].correlation = ws[j].correlation => i = j
                         /\ ws[i].correlation = Correlation(ws[i].cmd)
  BY <1>1, Zenon DEF KeyedWaves
<1>4. \A i, j \in 1..(n + 1) : /\ more[i].key = more[j].key => i = j
                               /\ more[i].correlation = more[j].correlation => i = j
                               /\ more[i].correlation = Correlation(more[i].cmd)
  BY <1>1, <1>2, <1>3
<1>5. KeyedWaves(more)
  BY <1>1, <1>4, Zenon DEF KeyedWaves
<1>6. WavesGrow(ws, more)
  BY <1>1, <1>2, Zenon DEF WavesGrow
<1> QED BY <1>1, <1>2, <1>5, <1>6, Zenon DEF n, more

LEMMA KeepsCreateWave ==
  ASSUME WellPosed, CampaignInv, NEW c \in Clients, CreateWave(c)
  PROVE  CampaignInv'
<1> DEFINE k == calls[c]
           key == LaunchKey(k.read, k.cmd)
           fresh == WithKey(key) = {}
           wave == IF fresh THEN Len(waves) + 1 ELSE CHOOSE i \in WithKey(key) : TRUE
           new == [key |-> key, cmd |-> k.cmd, correlation |-> Correlation(k.cmd)]
           update == Launched(k.read, key, wave, k.cmd)
           call == [step |-> "select", cmd |-> k.cmd, read |-> k.read,
                    update |-> update, wave |-> wave]
<1>1. /\ k.step = "wave" /\ UNCHANGED <<rows, projection, restart, load, exposed>>
      /\ \/ Reply(c, k.cmd, "CORRELATION_CONFLICT", None) /\ UNCHANGED waves
         \/ /\ ~(fresh /\ Correlated(Correlation(k.cmd)) # {})
            /\ waves' = IF fresh THEN Append(waves, new) ELSE waves
            /\ \/ update = k.read /\ Reply(c, k.cmd, "OK", wave)
               \/ Proceed(c, call)
  BY Zenon DEF CreateWave
<1>2. LoadIsKnown'
  BY <1>1, Zenon DEF CampaignInv, LoadIsKnown
<1>3. Held(k, rows, waves, exposed.evidence)
  BY <1>1, Waiting, Zenon
<1> HIDE DEF k
<1>4. Reads(k, rows, waves, exposed.evidence) /\ k.cmd.kind = "LAUNCH"
  BY <1>1, <1>3, Zenon DEF Held
<1>5. CASE Reply(c, k.cmd, "CORRELATION_CONFLICT", None) /\ UNCHANGED waves
  <2>1. Quiet
    BY <1>1, <1>5, Zenon DEF Quiet
  <2> QED BY <1>2, <1>5, <2>1, ReplyKeeps, Zenon
<1>6. CASE /\ ~(fresh /\ Correlated(Correlation(k.cmd)) # {})
           /\ waves' = IF fresh THEN Append(waves, new) ELSE waves
           /\ \/ update = k.read /\ Reply(c, k.cmd, "OK", wave)
              \/ Proceed(c, call)
  <2>1. KeyedWaves(waves)
    BY Zenon DEF CampaignInv, TablesStand
  <2>2. /\ KeyedWaves(waves') /\ WavesGrow(waves, waves')
        /\ wave \in DOMAIN waves' /\ waves'[wave].key = key
    <3>1. CASE fresh
      <4>1. \A i \in DOMAIN waves :
              waves[i].key # new.key /\ waves[i].correlation # new.correlation
        BY <1>6, <3>1, Zenon DEF WithKey, Correlated
      <4>2. new.correlation = Correlation(new.cmd) /\ new.key = key
        BY Zenon
      <4>3. wave = Len(waves) + 1 /\ waves' = Append(waves, new)
        BY <1>6, <3>1, Zenon
      <4> HIDE DEF new, wave, key
      <4> QED BY <2>1, <4>1, <4>2, <4>3, NewWaveIsKeyed, Zenon
    <3>2. CASE ~fresh
      <4>1. wave \in WithKey(key) /\ waves' = waves
        BY <1>6, <3>2, Zenon
      <4> HIDE DEF wave, key
      <4> QED BY <2>1, <4>1, WavesUnmoved, Zenon DEF WithKey
    <3> QED BY <3>1, <3>2, Zenon
  <2>3. \/ update = k.read /\ Reply(c, k.cmd, "OK", wave)
        \/ Proceed(c, call)
    BY <1>6, Zenon
  <2>4. update = Launched(k.read, key, wave, k.cmd)
    BY Zenon
  <2>5. /\ call.step = "select" /\ call.cmd = k.cmd /\ call.read = k.read
        /\ call.update = update /\ call.wave = wave
    BY Zenon
  <2> HIDE DEF wave, key, new, update, call
  <2>6. Grows(rows, rows', exposed.evidence, exposed'.evidence)
    BY <1>1, RowsUnmoved, Zenon
  <2>7. Reads(k, rows', waves', exposed'.evidence)
    BY <1>4, <2>2, <2>6, ReadsStay, Zenon
  <2>8. /\ Good(update, waves') /\ Extends(update, k.read)
        /\ \E x \in Range(update.launches) : x.wave = wave
    <3>1. Good(k.read, waves')
      BY <2>7, Zenon DEF Reads
    <3> QED BY <2>2, <2>4, <3>1, LaunchedKeeps
  <2>9. Evident(update, [cmd |-> k.cmd, wave |-> wave])
    BY <1>4, <2>8, Zenon DEF Evident
  <2>10. CallsHold' /\ AnswersHold'
    <3>1. CASE update = k.read /\ Reply(c, k.cmd, "OK", wave)
      <4>1. Answered([cmd |-> k.cmd, wave |-> wave], rows', exposed'.evidence)
        <5>1. \A v : v = k.cmd.version /\ v \notin exposed'.evidence
                => Evident(rows'[v], [cmd |-> k.cmd, wave |-> wave])
          BY <2>7, <2>9, <3>1, EvidentOn DEF Reads, ReadFrom
        <5> QED BY <2>7, <5>1, Zenon DEF Answered, Reads, ReadFrom
      <4>2. calls' = [calls EXCEPT ![c] = Idle]
        BY <3>1, Zenon DEF Reply
      <4> QED BY <2>2, <2>6, <3>1, <4>1, <4>2, CallsGoOn, ReplyAnswers, Zenon DEF CampaignInv
    <3>2. CASE Proceed(c, call)
      <4>1. Reads(call, rows', waves', exposed'.evidence) /\ Writes(call, waves')
        BY <2>5, <2>7, <2>8, Zenon DEF Reads, Writes
      <4>2. Held(call, rows', waves', exposed'.evidence)
        BY <1>4, <2>5, <2>9, <4>1, Zenon DEF Held
      <4>3. calls' = [calls EXCEPT ![c] = call] /\ answers' = answers
        BY <3>2, Zenon DEF Proceed
      <4> QED BY <2>2, <2>6, <4>2, <4>3, CallsGoOn, AnswersGoOn, Zenon DEF CampaignInv
    <3> QED BY <2>3, <3>1, <3>2, Zenon
  <2>11. TablesStand'
    <3>1. \A v \in Versions : rows[v] # None => Good(rows[v], waves')
      BY <2>2, GoodStays, Zenon DEF CampaignInv, TablesStand
    <3> QED BY <1>1, <2>2, <3>1, Zenon DEF CampaignInv, TablesStand
  <2>12. RestartStands' /\ ReadModelAgrees'
    BY <1>1, Zenon DEF CampaignInv, RestartStands, ReadModelAgrees
  <2> QED BY <1>2, <2>10, <2>11, <2>12, Zenon DEF CampaignInv
<1> QED BY <1>1, <1>5, <1>6, Zenon

-----------------------------------------------------------------------------
(* Writes, and the read model.                                             *)

LEMMA SameContent ==
  ASSUME NEW d, IsDocument(d), NEW e, IsDocument(e), ContentOf(d) = ContentOf(e)
  PROVE  /\ d.body = e.body /\ d.status = e.status /\ d.decisions = e.decisions
         /\ d.actions = e.actions /\ d.tasks = e.tasks /\ d.controls = e.controls
<1>1. /\ ContentOf(d).body = d.body /\ ContentOf(d).status = d.status
      /\ ContentOf(d).decisions = d.decisions /\ ContentOf(d).actions = d.actions
      /\ ContentOf(d).tasks = d.tasks /\ ContentOf(d).controls = d.controls
  BY Zenon DEF ContentOf, IsDocument
<1>2. /\ ContentOf(e).body = e.body /\ ContentOf(e).status = e.status
      /\ ContentOf(e).decisions = e.decisions /\ ContentOf(e).actions = e.actions
      /\ ContentOf(e).tasks = e.tasks /\ ContentOf(e).controls = e.controls
  BY Zenon DEF ContentOf, IsDocument
<1> QED BY <1>1, <1>2, Zenon

\* The read model is a function of the content: the launch audit, which the
\* content hash leaves out, does not change it.
LEMMA ProjectionOfContent ==
  ASSUME NEW d, IsDocument(d), NEW e, IsDocument(e), ContentOf(d) = ContentOf(e)
  PROVE  WorkflowProjection(d) = WorkflowProjection(e)
<1>1. /\ d.body = e.body /\ d.status = e.status /\ d.decisions = e.decisions
      /\ d.actions = e.actions /\ d.tasks = e.tasks /\ d.controls = e.controls
  BY SameContent, Zenon
<1>2. Governed(d) = Governed(e) /\ Entitled(d) = Entitled(e) /\ Closed(d) = Closed(e)
  BY <1>1, Zenon DEF Governed, Entitled, Closed
<1>3. ApprovalState(d) = ApprovalState(e)
  BY <1>1, <1>2, Zenon DEF ApprovalState
<1>4. \A day : ExpiryState(d, day) = ExpiryState(e, day)
  BY <1>1, <1>2, Zenon DEF ExpiryState
<1>5. \A actor : EntitlementState(d, actor) = EntitlementState(e, actor)
  BY <1>2, Zenon DEF EntitlementState
<1>6. \A date, actor : ReadinessReasons(d, date, actor) = ReadinessReasons(e, date, actor)
  BY <1>1, <1>3, <1>4, <1>5 DEF ReadinessReasons
<1>7. \A date, actor : QueueStatus(d, date, actor) = QueueStatus(e, date, actor)
  BY <1>2, <1>6, Zenon DEF QueueStatus, Ready
<1>8. \A date, actor, day : InboxStatus(d, date, actor, day) = InboxStatus(e, date, actor, day)
  <2> TAKE date, actor, day
  <2>1. ApprovalState(d) \in {"NOT_SUPPLIED", "APPROVED", "INCOMPLETE"}
    BY Zenon DEF ApprovalState
  <2>2. CASE ApprovalState(d) = "NOT_SUPPLIED"
    BY <1>2, <1>3, <1>4, <1>5, <2>2, Zenon DEF InboxStatus
  <2>3. CASE ApprovalState(d) = "APPROVED"
    BY <1>2, <1>3, <1>4, <1>5, <2>3, Zenon DEF InboxStatus
  <2>4. CASE ApprovalState(d) = "INCOMPLETE"
    BY <1>2, <1>3, <1>4, <1>5, <2>4, Zenon DEF InboxStatus
  <2> QED BY <2>1, <2>2, <2>3, <2>4, Zenon
<1>9. \A date, actor, day : NextAction(d, date, actor, day) = NextAction(e, date, actor, day)
  <2> TAKE date, actor, day
  <2> DEFINE inbox == InboxStatus(e, date, actor, day)
  <2>1. /\ InboxStatus(d, date, actor, day) = inbox
        /\ QueueStatus(d, date, actor) = QueueStatus(e, date, actor)
    BY <1>7, <1>8, Zenon
  <2>2. inbox \in {"CLOSED", "ENTITLEMENT_ATTENTION", "APPROVAL_REQUIRED",
                   "APPROVAL_INCOMPLETE", "EXPIRY_ATTENTION", "APPROVAL_COMPLETE"}
    <3>1. ApprovalState(e) \in {"NOT_SUPPLIED", "APPROVED", "INCOMPLETE"}
      BY Zenon DEF ApprovalState
    <3> QED BY <3>1, Zenon DEF InboxStatus
  <2> HIDE DEF inbox
  <2>3. CASE inbox = "CLOSED"
    BY <2>1, <2>3, Zenon DEF NextAction, inbox
  <2>4. CASE inbox = "ENTITLEMENT_ATTENTION"
    BY <2>1, <2>4, Zenon DEF NextAction, inbox
  <2>5. CASE inbox = "APPROVAL_REQUIRED"
    BY <2>1, <2>5, Zenon DEF NextAction, inbox
  <2>6. CASE inbox = "APPROVAL_INCOMPLETE"
    BY <2>1, <2>6, Zenon DEF NextAction, inbox
  <2>7. CASE inbox = "EXPIRY_ATTENTION"
    BY <2>1, <2>7, Zenon DEF NextAction, inbox
  <2>8. CASE inbox = "APPROVAL_COMPLETE"
    BY <2>1, <2>8, Zenon DEF NextAction, inbox
  <2> QED BY <2>2, <2>3, <2>4, <2>5, <2>6, <2>7, <2>8, Zenon
<1>10. AssignedActors(d, None) = AssignedActors(e, None)
  BY <1>2, Zenon DEF AssignedActors
<1> QED BY <1>1, <1>9, <1>10, ZenonT(30) DEF WorkflowProjection

LEMMA NewDefinitionIsGood ==
  ASSUME NEW body, NEW ws, NEW d, d = NewDefinition(body)
  PROVE  Good(d, ws) /\ ContentOf(d) = d
<1>1. /\ d.launches = <<>> /\ d.decisions = <<>> /\ d.actions = <<>>
      /\ d.tasks = <<>> /\ d.controls = <<>>
      /\ d = [body |-> d.body, status |-> d.status, successor |-> d.successor,
              launches |-> d.launches, decisions |-> d.decisions,
              actions |-> d.actions, tasks |-> d.tasks, controls |-> d.controls]
  BY Zenon DEF NewDefinition
<1>2. DOMAIN <<>> = {}
  OBVIOUS
<1>3. IsDocument(d)
  BY <1>1, <1>2, EmptyList, Zenon DEF IsDocument
<1>4. UniqueRefs(<<>>)
  BY <1>2, Zenon DEF UniqueRefs
<1>5. LegalControls(<<>>)
  <2>1. IsReview(NoReview) /\ NoReview.pending # TRUE
    BY Zenon DEF IsReview, NoReview
  <2> QED BY <1>2, <1>4, <2>1, ReviewEmpty, Zenon DEF LegalControls, ReviewIsKnown
<1>6. Legal(d)
  BY <1>1, <1>2, <1>4, <1>5, Zenon DEF Legal
<1>7. Audited(d, ws)
  BY <1>1, <1>2, Zenon DEF Audited
<1>8. ContentOf(d) = d
  BY <1>1, Zenon DEF ContentOf
<1> QED BY <1>3, <1>6, <1>7, <1>8, Zenon DEF Good

\* A document stored over the one it extends, or with the row marked as hit.
LEMMA StoreKeeps ==
  ASSUME WellPosed, CampaignInv, NEW c \in Clients, NEW cmd, IsCommand(cmd),
         NEW d, Good(d, waves), NEW hit, exposed.evidence \subseteq hit,
         cmd.version \notin hit /\ rows[cmd.version] # None => Extends(d, rows[cmd.version]),
         Store(cmd.version, d),
         NEW stale, exposed.projection \ {cmd.version} \subseteq stale,
         exposed' = [evidence |-> hit, projection |-> stale],
         NEW wave, Reply(c, cmd, "OK", wave), Evident(d, [cmd |-> cmd, wave |-> wave]),
         UNCHANGED <<waves, restart>>, LoadIsKnown'
  PROVE  CampaignInv'
<1> DEFINE v == cmd.version
<1>1. v \in Versions /\ d # None
  BY Zenon DEF IsCommand, WellPosed, Good
<1>2. /\ rows' = [u \in Versions |-> rows'[u]] /\ rows'[v] = d
      /\ \A u \in Versions : u # v => rows'[u] = rows[u]
  BY <1>1, Zenon DEF Store, CampaignInv, TablesStand
<1>3. /\ projection' = [u \in Versions |-> projection'[u]]
      /\ projection'[v] = WorkflowProjection(d)
      /\ \A u \in Versions : u # v => projection'[u] = projection[u]
  BY <1>1, Zenon DEF Store, CampaignInv, TablesStand
<1>4. exposed'.evidence = hit /\ exposed.projection \ {v} \subseteq exposed'.projection
  BY Zenon
<1> HIDE DEF v
<1>5. Grows(rows, rows', exposed.evidence, exposed'.evidence)
  <2> SUFFICES ASSUME NEW u \in Versions, rows[u] # None
               PROVE  /\ rows'[u] # None
                      /\ u \notin hit => u \notin exposed.evidence /\ Extends(rows'[u], rows[u])
    BY <1>4, Zenon DEF Grows
  <2>1. CASE u = v
    BY <1>1, <1>2, <2>1, Zenon DEF v
  <2>2. CASE u # v
    BY <1>2, <2>2, ExtendsItself, Zenon
  <2> QED BY <2>1, <2>2, Zenon
<1>6. WavesGrow(waves, waves')
  BY WavesUnmoved, Zenon
<1>7. TablesStand'
  <2>1. \A u \in Versions : rows'[u] # None => Good(rows'[u], waves)
    BY <1>2, Zenon DEF CampaignInv, TablesStand
  <2>2. exposed' = [evidence |-> exposed'.evidence, projection |-> exposed'.projection]
    BY Zenon
  <2> QED BY <1>2, <1>3, <2>1, <2>2, Zenon DEF CampaignInv, TablesStand
<1>8. CallsHold'
  BY <1>5, <1>6, CallsGoOn, Zenon DEF CampaignInv, Reply
<1>9. AnswersHold'
  <2>1. Answered([cmd |-> cmd, wave |-> wave], rows', exposed'.evidence)
    BY <1>1, <1>2, Zenon DEF Answered, v
  <2> QED BY <1>5, <2>1, ReplyAnswers, Zenon DEF CampaignInv
<1>10. RestartStands'
  BY Zenon DEF CampaignInv, RestartStands
<1>11. ReadModelAgrees'
  <2> SUFFICES ASSUME NEW u \in Versions, rows'[u] # None, u \notin exposed'.projection
               PROVE  projection'[u] = WorkflowProjection(rows'[u])
    BY Zenon DEF ReadModelAgrees
  <2>1. CASE u = v
    BY <1>2, <1>3, <2>1, Zenon
  <2>2. CASE u # v
    BY <1>2, <1>3, <1>4, <2>2, Zenon DEF CampaignInv, ReadModelAgrees
  <2> QED BY <2>1, <2>2, Zenon
<1> QED BY <1>7, <1>8, <1>9, <1>10, <1>11, Zenon DEF CampaignInv

LEMMA KeepsUpdateRow ==
  ASSUME WellPosed, CampaignInv, NEW c \in Clients, UpdateRow(c)
  PROVE  CampaignInv'
<1> DEFINE k == calls[c]
           v == k.cmd.version
<1>1. /\ k.step = "update" /\ UNCHANGED <<waves, restart, load>>
      /\ \/ /\ rows[v] = k.read /\ Store(v, k.update)
            /\ exposed' = [exposed EXCEPT !.projection = @ \ {v}]
            /\ Reply(c, k.cmd, "OK", k.wave)
         \/ /\ Reply(c, k.cmd, "STALE_WRITE", None)
            /\ UNCHANGED <<rows, projection, exposed>>
  BY Zenon DEF UpdateRow
<1>2. LoadIsKnown'
  BY <1>1, Zenon DEF CampaignInv, LoadIsKnown
<1>3. Held(k, rows, waves, exposed.evidence)
  BY <1>1, Waiting, Zenon
<1> HIDE DEF k
<1>4. /\ IsCommand(k.cmd) /\ Good(k.update, waves) /\ Extends(k.update, k.read)
      /\ Evident(k.update, [cmd |-> k.cmd, wave |-> k.wave])
  BY <1>1, <1>3, Zenon DEF Held, Reads, Writes
<1>5. CASE /\ Reply(c, k.cmd, "STALE_WRITE", None)
           /\ UNCHANGED <<rows, projection, exposed>>
  <2>1. Quiet
    BY <1>1, <1>5, Zenon DEF Quiet
  <2> QED BY <1>2, <1>5, <2>1, ReplyKeeps, Zenon
<1>6. CASE /\ rows[v] = k.read /\ Store(v, k.update)
           /\ exposed' = [exposed EXCEPT !.projection = @ \ {v}]
           /\ Reply(c, k.cmd, "OK", k.wave)
  <2>1. exposed' = [evidence |-> exposed.evidence, projection |-> exposed.projection \ {v}]
    BY <1>6, Zenon DEF CampaignInv, TablesStand
  <2>2. exposed.evidence \subseteq exposed.evidence
    BY Zenon
  <2>3. exposed.projection \ {k.cmd.version} \subseteq exposed.projection \ {v}
    BY Zenon
  <2> QED BY <1>1, <1>2, <1>4, <1>6, <2>1, <2>2, <2>3, StoreKeeps, Zenon
<1> QED BY <1>1, <1>5, <1>6, Zenon

LEMMA KeepsCloseRow ==
  ASSUME WellPosed, CampaignInv, NEW c \in Clients, CloseRow(c)
  PROVE  CampaignInv'
<1> DEFINE k == calls[c]
           v == k.cmd.version
           hit == exposed.evidence \cup When(rows[v] # k.read, v)
<1>1. /\ k.step = "write" /\ UNCHANGED <<waves, restart, load>>
      /\ \/ /\ Store(v, k.update)
            /\ exposed' = [evidence |-> hit, projection |-> exposed.projection \ {v}]
            /\ Reply(c, k.cmd, "OK", None)
         \/ /\ Reply(c, k.cmd, "LIFECYCLE_CONFLICT", None)
            /\ UNCHANGED <<rows, projection, exposed>>
  BY Zenon DEF CloseRow
<1>2. LoadIsKnown'
  BY <1>1, Zenon DEF CampaignInv, LoadIsKnown
<1>3. Held(k, rows, waves, exposed.evidence)
  BY <1>1, Waiting, Zenon
<1> HIDE DEF k
<1>4. /\ IsCommand(k.cmd) /\ Good(k.update, waves) /\ Extends(k.update, k.read)
      /\ k.cmd.kind \in {"RETIRE", "SUPERSEDE"}
  BY <1>1, <1>3, Zenon DEF Held, Reads, Writes
<1>5. CASE /\ Reply(c, k.cmd, "LIFECYCLE_CONFLICT", None)
           /\ UNCHANGED <<rows, projection, exposed>>
  <2>1. Quiet
    BY <1>1, <1>5, Zenon DEF Quiet
  <2> QED BY <1>2, <1>5, <2>1, ReplyKeeps, Zenon
<1>6. CASE /\ Store(v, k.update)
           /\ exposed' = [evidence |-> hit, projection |-> exposed.projection \ {v}]
           /\ Reply(c, k.cmd, "OK", None)
  <2>1. Evident(k.update, [cmd |-> k.cmd, wave |-> None])
    BY <1>4, Zenon DEF Evident
  <2>2. exposed.evidence \subseteq hit /\ (v \notin hit => rows[v] = k.read)
    BY Zenon DEF When
  <2>3. exposed.projection \ {k.cmd.version} \subseteq exposed.projection \ {v}
    BY Zenon
  <2> HIDE DEF hit
  <2>4. k.cmd.version \notin hit /\ rows[k.cmd.version] # None =>
          Extends(k.update, rows[k.cmd.version])
    BY <1>4, <2>2, Zenon
  <2> QED BY <1>1, <1>2, <1>4, <1>6, <2>1, <2>2, <2>3, <2>4, StoreKeeps, Zenon
<1> QED BY <1>1, <1>5, <1>6, Zenon

LEMMA KeepsSaveDefinition ==
  ASSUME WellPosed, CampaignInv, NEW c \in Clients, NEW cmd \in Menu(c),
         SaveDefinition(c, cmd)
  PROVE  CampaignInv'
<1> DEFINE v == cmd.version
           definition == NewDefinition(cmd.body)
           call == [step |-> "refresh", cmd |-> cmd, update |-> definition]
<1>1. /\ Send(c, cmd) /\ cmd.kind = "PUT" /\ UNCHANGED <<waves, restart, exposed>>
      /\ \/ rows[v] = None /\ Store(v, definition) /\ Reply(c, cmd, "OK", None)
         \/ /\ Reply(c, cmd, "IMMUTABLE_CONFLICT", None)
            /\ UNCHANGED <<rows, projection>>
         \/ /\ rows[v] # None /\ Proceed(c, call)
            /\ UNCHANGED <<rows, projection>>
  BY Zenon DEF SaveDefinition
<1>2. IsCommand(cmd) /\ LoadIsKnown'
  BY <1>1, Sent, Zenon
<1>3. CASE rows[v] = None /\ Store(v, definition) /\ Reply(c, cmd, "OK", None)
  <2>1. Good(definition, waves)
    BY NewDefinitionIsGood, Zenon
  <2>2. Evident(definition, [cmd |-> cmd, wave |-> None])
    BY <1>1, Zenon DEF Evident
  <2>3. exposed' = [evidence |-> exposed.evidence, projection |-> exposed.projection]
    BY <1>1, Zenon DEF CampaignInv, TablesStand
  <2> HIDE DEF definition
  <2>4. /\ exposed.evidence \subseteq exposed.evidence
        /\ exposed.projection \ {cmd.version} \subseteq exposed.projection
    BY Zenon
  <2> QED BY <1>1, <1>2, <1>3, <2>1, <2>2, <2>3, <2>4, StoreKeeps, Zenon
<1>4. CASE /\ Reply(c, cmd, "IMMUTABLE_CONFLICT", None)
           /\ UNCHANGED <<rows, projection>>
  <2>1. Quiet
    BY <1>1, <1>4, Zenon DEF Quiet
  <2> QED BY <1>2, <1>4, <2>1, ReplyKeeps, Zenon
<1>5. CASE rows[v] # None /\ Proceed(c, call) /\ UNCHANGED <<rows, projection>>
  <2>1. Quiet
    BY <1>1, <1>5, Zenon DEF Quiet
  <2>2. definition = NewDefinition(definition.body)
    BY Zenon DEF NewDefinition
  <2>3. /\ call.step = "refresh" /\ call.cmd = cmd /\ call.update = definition
    BY Zenon
  <2> HIDE DEF definition, call
  <2>4. Held(call, rows, waves, exposed.evidence)
    BY <1>1, <1>2, <1>5, <2>2, <2>3, Zenon DEF Held
  <2> QED BY <1>2, <1>5, <2>1, <2>4, ProceedKeeps, Zenon
<1> QED BY <1>1, <1>3, <1>4, <1>5, Zenon

LEMMA KeepsRefreshProjection ==
  ASSUME WellPosed, CampaignInv, NEW c \in Clients, RefreshProjection(c)
  PROVE  CampaignInv'
<1> DEFINE k == calls[c]
           v == k.cmd.version
<1>1. /\ k.step = "refresh" /\ UNCHANGED <<rows, waves, restart, load>>
      /\ projection' = [projection EXCEPT ![v] = WorkflowProjection(k.update)]
      /\ exposed' = [exposed EXCEPT !.projection =
                       (@ \ {v}) \cup When(ContentOf(rows[v]) # k.update, v)]
      /\ Reply(c, k.cmd, "OK", None)
  BY Zenon DEF RefreshProjection
<1>2. LoadIsKnown'
  BY <1>1, Zenon DEF CampaignInv, LoadIsKnown
<1>3. Held(k, rows, waves, exposed.evidence)
  BY <1>1, Waiting, Zenon
<1> HIDE DEF k
<1>4. /\ IsCommand(k.cmd) /\ k.cmd.kind = "PUT" /\ rows[v] # None /\ v \in Versions
      /\ k.update = NewDefinition(k.update.body)
  BY <1>1, <1>3, Zenon DEF Held, IsCommand
<1>5. /\ exposed' = [evidence |-> exposed'.evidence, projection |-> exposed'.projection]
      /\ exposed'.evidence = exposed.evidence
      /\ exposed'.projection = (exposed.projection \ {v})
                                 \cup When(ContentOf(rows[v]) # k.update, v)
  BY <1>1, Zenon DEF CampaignInv, TablesStand
<1>6. /\ projection' = [u \in Versions |-> projection'[u]]
      /\ projection'[v] = WorkflowProjection(k.update)
      /\ \A u \in Versions : u # v => projection'[u] = projection[u]
  BY <1>1, <1>4, Zenon DEF CampaignInv, TablesStand
<1>7. /\ Grows(rows, rows', exposed.evidence, exposed'.evidence)
      /\ WavesGrow(waves, waves')
  BY <1>1, <1>5, RowsUnmoved, WavesUnmoved, Zenon
<1>8. CallsHold'
  BY <1>1, <1>7, CallsGoOn, Zenon DEF CampaignInv, Reply
<1>9. AnswersHold'
  <2>1. Answered([cmd |-> k.cmd, wave |-> None], rows', exposed'.evidence)
    BY <1>1, <1>4, Zenon DEF Answered, Evident
  <2> QED BY <1>1, <1>7, <2>1, ReplyAnswers, Zenon DEF CampaignInv
<1>10. TablesStand'
  BY <1>1, <1>5, <1>6, Zenon DEF CampaignInv, TablesStand
<1>11. RestartStands'
  BY <1>1, Zenon DEF CampaignInv, RestartStands
<1>12. ReadModelAgrees'
  <2> SUFFICES ASSUME NEW u \in Versions, rows[u] # None, u \notin exposed'.projection
               PROVE  projection'[u] = WorkflowProjection(rows[u])
    BY <1>1, Zenon DEF ReadModelAgrees
  <2>1. CASE u = v
    <3>1. ContentOf(rows[v]) = k.update
      BY <1>5, <2>1, Zenon DEF When
    <3>2. IsDocument(rows[v]) /\ IsDocument(k.update) /\ ContentOf(k.update) = k.update
      BY <1>4, NewDefinitionIsGood, Zenon DEF CampaignInv, TablesStand, Good
    <3>3. WorkflowProjection(rows[v]) = WorkflowProjection(k.update)
      BY <3>1, <3>2, ProjectionOfContent, Zenon
    <3> QED BY <1>6, <2>1, <3>3, Zenon
  <2>2. CASE u # v
    BY <1>5, <1>6, <2>2, Zenon DEF CampaignInv, ReadModelAgrees
  <2> QED BY <2>1, <2>2, Zenon
<1> QED BY <1>2, <1>8, <1>9, <1>10, <1>11, <1>12, Zenon DEF CampaignInv

-----------------------------------------------------------------------------
(* Restarts, and the theorems.                                             *)

LEMMA KeepsRebuildRead ==
  ASSUME WellPosed, CampaignInv, RebuildRead
  PROVE  CampaignInv'
<1>1. /\ UNCHANGED <<rows, projection, waves, calls, answers, exposed>>
      /\ restart' = rows
  BY Zenon DEF RebuildRead
<1>2. LoadIsKnown'
  BY Zenon DEF CampaignInv, LoadIsKnown, RebuildRead
<1>3. RestartStands'
  BY <1>1, Zenon DEF CampaignInv, TablesStand, RestartStands, Good
<1>4. TablesStand' /\ AnswersHold'
  BY <1>1, Zenon DEF CampaignInv, TablesStand, AnswersHold
<1>5. CallsHold'
  BY <1>1, Zenon DEF CampaignInv, CallsHold
<1>6. ReadModelAgrees'
  BY <1>1, Zenon DEF CampaignInv, ReadModelAgrees
<1> QED BY <1>2, <1>3, <1>4, <1>5, <1>6, Zenon DEF CampaignInv

LEMMA KeepsRebuildWrite ==
  ASSUME WellPosed, CampaignInv, RebuildWrite
  PROVE  CampaignInv'
<1>1. /\ UNCHANGED <<rows, waves, calls, load, answers>>
      /\ restart # None /\ restart' = None
      /\ projection' = [v \in Versions |->
                          IF restart[v] = None THEN projection[v]
                          ELSE WorkflowProjection(restart[v])]
      /\ exposed' = [exposed EXCEPT !.projection =
                       {v \in Versions :
                          IF restart[v] = None THEN v \in exposed.projection
                          ELSE ContentOf(restart[v]) # ContentOf(rows[v])}]
  BY Zenon DEF RebuildWrite
<1>2. /\ exposed' = [evidence |-> exposed'.evidence, projection |-> exposed'.projection]
      /\ exposed'.evidence = exposed.evidence
      /\ exposed'.projection = {v \in Versions :
                                  IF restart[v] = None THEN v \in exposed.projection
                                  ELSE ContentOf(restart[v]) # ContentOf(rows[v])}
  BY <1>1, Zenon DEF CampaignInv, TablesStand
<1>3. LoadIsKnown' /\ RestartStands'
  BY <1>1, Zenon DEF CampaignInv, LoadIsKnown, RestartStands
<1>4. TablesStand'
  BY <1>1, <1>2, Zenon DEF CampaignInv, TablesStand
<1>5. CallsHold' /\ AnswersHold'
  <2>1. /\ Grows(rows, rows', exposed.evidence, exposed'.evidence)
        /\ WavesGrow(waves, waves')
    BY <1>1, <1>2, RowsUnmoved, WavesUnmoved, Zenon
  <2> QED BY <1>1, <2>1, CallsStay, AnswersGoOn, Zenon DEF CampaignInv
<1>6. ReadModelAgrees'
  <2> SUFFICES ASSUME NEW u \in Versions, rows[u] # None, u \notin exposed'.projection
               PROVE  projection'[u] = WorkflowProjection(rows[u])
    BY <1>1, Zenon DEF ReadModelAgrees
  <2>1. CASE restart[u] = None
    BY <1>1, <1>2, <2>1, Zenon DEF CampaignInv, ReadModelAgrees
  <2>2. CASE restart[u] # None
    <3>1. ContentOf(restart[u]) = ContentOf(rows[u])
      BY <1>2, <2>2, Zenon
    <3>2. IsDocument(restart[u]) /\ IsDocument(rows[u])
      BY <1>1, <2>2, Zenon DEF CampaignInv, RestartStands, TablesStand, Good
    <3>3. WorkflowProjection(restart[u]) = WorkflowProjection(rows[u])
      BY <3>1, <3>2, ProjectionOfContent, Zenon
    <3> QED BY <1>1, <2>2, <3>3, Zenon
  <2> QED BY <2>1, <2>2, Zenon
<1> QED BY <1>3, <1>4, <1>5, <1>6, Zenon DEF CampaignInv

LEMMA CampaignsStart ==
  ASSUME WellPosed, Init
  PROVE  CampaignInv
<1>1. PICK w \in DOMAIN Workloads :
        load = [name |-> w, requests |-> Workloads[w].requests,
                restarts |-> Workloads[w].restarts, losses |-> Workloads[w].losses]
  BY Zenon DEF Init
<1>2. LoadIsKnown /\ load.name = w
  BY <1>1, Zenon DEF LoadIsKnown
<1>3. /\ rows = [v \in Versions |-> rows[v]]
      /\ \A v \in Versions : rows[v] = None \/ rows[v] = NewDefinition(rows[v].body)
  BY <1>2, Zenon DEF Init, WellPosed
<1>4. \A v \in Versions : rows[v] # None => Good(rows[v], waves)
  BY <1>3, NewDefinitionIsGood, Zenon
<1>5. KeyedWaves(waves)
  <2>1. DOMAIN <<>> = {}
    OBVIOUS
  <2> QED BY <2>1, EmptyList, Zenon DEF Init, KeyedWaves
<1>6. TablesStand
  BY <1>3, <1>4, <1>5, Zenon DEF Init, TablesStand
<1>7. CallsHold
  BY Zenon DEF Init, CallsHold
<1>8. RestartStands /\ AnswersHold
  BY Zenon DEF Init, RestartStands, AnswersHold
<1>9. ReadModelAgrees
  BY Zenon DEF Init, ReadModelAgrees
<1> QED BY <1>2, <1>6, <1>7, <1>8, <1>9, Zenon DEF CampaignInv

LEMMA CampaignsStep ==
  ASSUME WellPosed, CampaignInv, [Next]_vars
  PROVE  CampaignInv'
<1>1. CASE UNCHANGED vars
  <2>1. Quiet /\ UNCHANGED <<calls, load, answers>>
    BY <1>1, Zenon DEF vars, Quiet
  <2>2. LoadIsKnown' /\ CallsHold' /\ AnswersHold'
    BY <2>1, Zenon DEF Quiet, CampaignInv, LoadIsKnown, CallsHold, AnswersHold
  <2> QED BY <2>1, <2>2, QuietKeeps, Zenon
<1>2. CASE Next
  <2>1. ASSUME NEW c \in Clients, NEW cmd \in Menu(c),
               \/ RecordEvidence(c, cmd) \/ Launch(c, cmd) \/ Retire(c, cmd)
               \/ Supersede(c, cmd) \/ SaveDefinition(c, cmd)
        PROVE  CampaignInv'
    BY <2>1, KeepsRecordEvidence, KeepsLaunch, KeepsRetire, KeepsSupersede,
       KeepsSaveDefinition, Zenon
  <2>2. ASSUME NEW c \in Clients,
               \/ CreateWave(c) \/ ReadReplacement(c) \/ SelectRow(c) \/ UpdateRow(c)
               \/ SelectToClose(c) \/ CloseRow(c) \/ RefreshProjection(c) \/ Abandon(c)
        PROVE  CampaignInv'
    BY <2>2, KeepsCreateWave, KeepsReadReplacement, KeepsSelectRow, KeepsUpdateRow,
       KeepsSelectToClose, KeepsCloseRow, KeepsRefreshProjection, KeepsAbandon, Zenon
  <2>3. CASE RebuildRead \/ RebuildWrite
    BY <2>3, KeepsRebuildRead, KeepsRebuildWrite, Zenon
  <2> QED BY <1>2, <2>1, <2>2, <2>3, Zenon DEF Next
<1> QED BY <1>1, <1>2, Zenon

LEMMA CampaignsStand ==
  ASSUME WellPosed
  PROVE  Spec => []CampaignInv
<1>1. Init => CampaignInv
  BY CampaignsStart, Zenon
<1>2. CampaignInv /\ [Next]_vars => CampaignInv'
  BY CampaignsStep, Zenon
<1> QED BY <1>1, <1>2, PTL DEF Spec

\* Evidence that a request was told is recorded stays in the definition, for
\* every number of clients, versions, requests, restarts and lost connections;
\* only the retirement or supersession that is conditional on the status alone
\* can drop it (campaign_definitions.py, UPDATE ... WHERE of each repository
\* method).
THEOREM AcknowledgedStays ==
  ASSUME WellPosed
  PROVE  Spec => []AcknowledgedIsKept
<1>1. CampaignInv => AcknowledgedIsKept
  BY ZenonT(30) DEF CampaignInv, AnswersHold, Answered, AcknowledgedIsKept
<1> QED BY <1>1, CampaignsStand, PTL

\* The launch audit names, for every launch, the one wave its key created, and
\* a launch that is sent again never creates a second wave
\* (launch_campaign_definition).
THEOREM LaunchesStayAudited ==
  ASSUME WellPosed
  PROVE  Spec => []LaunchesAreAudited
<1>1. CampaignInv => LaunchesAreAudited
  <2> SUFFICES ASSUME CampaignInv PROVE LaunchesAreAudited
    BY Zenon
  <2>1. ASSUME NEW v \in Versions, rows[v] # None, NEW i \in DOMAIN rows[v].launches,
               NEW j \in DOMAIN rows[v].launches
        PROVE  /\ rows[v].launches[i].wave \in DOMAIN waves
               /\ waves[rows[v].launches[i].wave].key = rows[v].launches[i].key
               /\ i # j => /\ rows[v].launches[j].key # rows[v].launches[i].key
                           /\ rows[v].launches[j].wave # rows[v].launches[i].wave
    <3>1. Audited(rows[v], waves)
      BY <2>1, Zenon DEF CampaignInv, TablesStand, Good
    <3> QED BY <3>1 DEF Audited
  <2>2. \A i, j \in DOMAIN waves : waves[i].cmd = waves[j].cmd => i = j
    BY DEF CampaignInv, TablesStand, KeyedWaves
  <2> QED BY <2>1, <2>2 DEF LaunchesAreAudited
<1> QED BY <1>1, CampaignsStand, PTL

\* The ledgers of every definition read as if one clerk had kept them,
\* whatever requests overlap (campaign_maker_checker_controls.py,
\* campaign_assignment_tasks.py).
THEOREM LedgersStayLegal ==
  ASSUME WellPosed
  PROVE  Spec => []LedgersAreLegal
<1>1. CampaignInv => LedgersAreLegal
  <2> SUFFICES ASSUME CampaignInv, NEW v \in Versions, rows[v] # None
               PROVE  LET d == rows[v] IN
                      /\ \A list \in {"decisions", "actions", "tasks", "controls"} :
                           \A i, j \in DOMAIN d[list] : d[list][i].ref = d[list][j].ref => i = j
                      /\ \A j \in DOMAIN d.controls :
                           d.controls[j].action = "REVIEW_COMPLETED"
                             => ReviewIsSeparated(d.controls, j)
                      /\ \A t \in Range(d.tasks) : TaskStoryHolds(t)
    BY Zenon DEF LedgersAreLegal
  <2>1. Legal(rows[v])
    BY Zenon DEF CampaignInv, TablesStand, Good
  <2>2. \A list \in {"decisions", "actions", "tasks", "controls"} : UniqueRefs(rows[v][list])
    BY <2>1, Zenon DEF Legal, LegalControls
  <2>3. \A j \in DOMAIN rows[v].controls :
          rows[v].controls[j].action = "REVIEW_COMPLETED"
            => ReviewIsSeparated(rows[v].controls, j)
    BY <2>1, Zenon DEF Legal, LegalControls
  <2>4. \A t \in Range(rows[v].tasks) : TaskStoryHolds(t)
    BY <2>1, Zenon DEF Legal, Range
  <2> QED BY <2>2, <2>3, <2>4, Zenon DEF UniqueRefs
<1> QED BY <1>1, CampaignsStand, PTL

\* The stored read model is the one the stored document has, unless a rebuild
\* at start-up or a replayed save projected a document that another request
\* had replaced (postgres_campaign_definitions.py).
THEOREM ReadModelStays ==
  ASSUME WellPosed
  PROVE  Spec => []ReadModelAgrees
<1>1. CampaignInv => ReadModelAgrees
  BY Zenon DEF CampaignInv
<1> QED BY <1>1, CampaignsStand, PTL

=============================================================================
