------------------------- MODULE InstructionPackages -------------------------
(***************************************************************************)
(* Release of approved instruction packages to execution adapters.  A      *)
(* release looks its identity up, loads the wave item, the mandate and the *)
(* run, checks supersession and the approval, and inserts an immutable     *)
(* package; nothing locks across those reads.  Adapters list packages in   *)
(* pages and acknowledge them.                                             *)
(*                                                                         *)
(* One tenant: every key and every query is fenced by tenant_id.  The      *)
(* mappings, source revisions, funding evidence, policy revision and       *)
(* account of a command are one value, its material.  A hash is the        *)
(* record of what it covers.                                               *)
(***************************************************************************)
EXTENDS Integers, Sequences, FiniteSets

CONSTANTS
  Ids,         \* package identities (id and version), in the order of the listing
  Items,       \* wave items
  Mandates,    \* the revisions a mandate goes through: [version, content]
  Materials,
  Releasable,  \* materials that cover and fund the intents of the READY run
  Operators,   \* released_by
  Correlations,
  Workloads,   \* who is active, and the batches (sequences of commands) they send
  Callers, Consumers, Evidences, Readers,
  PageLimit,
  MaxTime,     \* bound: the latest instant a clock shows
  NoPackage, NoReceipt, None

Versions == {m.version : m \in Mandates}

\* What _approved_material_hash covers (the identity through the instruction ids):
\* neither the superseded package nor the correlation.
ApprovedMaterial ==
  [id: Ids, item: Items, mandate: Mandates, material: Materials]

Command ==
  [id: Ids, item: Items, version: Versions, material: Materials,
   approval: ApprovedMaterial, supersedes: Ids \cup {None},
   correlation: Correlations, by: Operators]

Package ==
  [id: Ids, item: Items, mandate: Mandates, material: Materials,
   approval: ApprovedMaterial, supersedes: Ids \cup {None},
   correlation: Correlations, by: Operators, created: 0..MaxTime]

ASSUME PackageConstants ==
  /\ Ids \subseteq Nat
  /\ IsFiniteSet(Ids)
  /\ Releasable \subseteq Materials
  /\ PageLimit \in Nat \ {0}
  /\ MaxTime \in Nat
  /\ None \notin Ids
  /\ NoPackage \notin Package
  /\ NoReceipt \notin Evidences
  \* Identities of a batch are distinct.
  /\ \A l \in Workloads :
       /\ l.readers \subseteq Readers /\ l.consumers \subseteq Consumers
       /\ l.mandates \subseteq Mandates /\ l.mandates # {}
       /\ \A b \in l.batches :
            /\ b \in Seq(Command) /\ b # <<>>
            /\ \A m, n \in DOMAIN b : b[m].id = b[n].id => m = n

VARIABLES
  packages,  \* dpm_approved_instruction_packages
  receipts,  \* dpm_approved_instruction_package_receipts
  ready,     \* items that are HANDOFF_READY with a READY proof pack
  mandate,   \* the latest mandate of the portfolio
  callers,
  readers,
  load       \* the workload, chosen once

vars == <<packages, receipts, ready, mandate, callers, readers, load>>
sources == <<ready, mandate, load>>

Idle == [pc |-> "idle"]

Stored == {packages[i] : i \in Ids} \ {NoPackage}

\* What datetime.now may show: every process reads a clock of its own, and no
\* reading of one bounds a reading of another.
Instants == 0..MaxTime

-----------------------------------------------------------------------------
Cmd(c) == Head(callers[c].todo)

\* _matches_immutable_replay: caller material against the stored package.  Who
\* releases it, and when, is not compared.
Matches(p, cmd) ==
  /\ p.item = cmd.item /\ p.mandate.version = cmd.version
  /\ p.material = cmd.material
  /\ p.approval = cmd.approval /\ p.supersedes = cmd.supersedes
  /\ p.correlation = cmd.correlation

MaterialHash(cmd, m) ==
  [id |-> cmd.id, item |-> cmd.item, mandate |-> m, material |-> cmd.material]

Build(cmd, m, at) ==
  [id |-> cmd.id, item |-> cmd.item, mandate |-> m, material |-> cmd.material,
   approval |-> cmd.approval, supersedes |-> cmd.supersedes,
   correlation |-> cmd.correlation, by |-> cmd.by, created |-> at]

\* A caller turns to the first of its commands.  known is a history variable:
\* the stored package of which the command is an exact retry.
Begin(todo) ==
  LET cmd == Head(todo)
      p == packages[cmd.id]
  IN [pc |-> "lookup", todo |-> todo,
      known |-> IF p # NoPackage /\ Matches(p, cmd) THEN p ELSE NoPackage]

Go(c, pc) ==
  callers' = [callers EXCEPT ![c] = [pc |-> pc, todo |-> @.todo, known |-> @.known]]

\* The command of a caller is answered.
Settle(c, outcome, p) ==
  callers' = [callers EXCEPT ![c] =
    [pc |-> "done", todo |-> @.todo, known |-> @.known,
     outcome |-> outcome, package |-> p]]

Refuse(c) == Settle(c, "refused", NoPackage)

Start(c) ==
  /\ callers[c] = Idle
  /\ \E b \in load.batches : callers' = [callers EXCEPT ![c] = Begin(b)]
  /\ UNCHANGED <<packages, receipts, sources, readers>>

\* _immutable_release_winner finds the identity taken.
Winner(c) ==
  LET p == packages[Cmd(c).id]
  IN /\ p # NoPackage
     /\ IF Matches(p, Cmd(c)) THEN Settle(c, "replayed", p)
        ELSE Settle(c, "conflict", NoPackage)

NoWinner(c) == packages[Cmd(c).id] = NoPackage

\* Mutant: a retry is checked like a first release.
NoLookup(c) ==
  /\ callers[c].pc = "lookup"
  /\ Go(c, "item")
  /\ UNCHANGED <<packages, receipts, sources, readers>>

Lookup(c) ==
  /\ callers[c].pc = "lookup"
  /\ Winner(c) \/ (NoWinner(c) /\ Go(c, "item"))
  /\ UNCHANGED <<packages, receipts, sources, readers>>

\* _load_releaseable_wave_item and _load_releaseable_proof_pack.
LoadItem(c) ==
  /\ callers[c].pc = "item"
  /\ IF Cmd(c).item \in ready THEN Go(c, "mandate") ELSE Refuse(c)
  /\ UNCHANGED <<packages, receipts, sources, readers>>

\* The intents of the run are all mapped, in the account of the command.
RunReleases(cmd) == cmd.material \in Releasable

\* _load_current_mandate, then the checks on the immutable run.
LoadMandate(c) ==
  /\ callers[c].pc = "mandate"
  /\ IF mandate.version = Cmd(c).version /\ RunReleases(Cmd(c))
       THEN callers' = [callers EXCEPT ![c] =
              [pc |-> "supersession", todo |-> @.todo, known |-> @.known,
               read |-> mandate]]
       ELSE Refuse(c)
  /\ UNCHANGED <<packages, receipts, sources, readers>>

Prior(item) == {p \in Stored : p.item = item}

\* Mutant: the superseded package may be any identity.
SupersedesAny(cmd) == cmd.supersedes # None \/ Prior(cmd.item) = {}

SupersessionHolds(cmd) ==
  IF cmd.supersedes = None THEN Prior(cmd.item) = {}
  ELSE \E p \in Prior(cmd.item) : p.id = cmd.supersedes

\* Mutant: the approval is not compared with the material read now.
ApprovesAny(cmd, m) == TRUE

Approves(cmd, m) == cmd.approval = MaterialHash(cmd, m)

\* _validate_supersession, then the package is built and the approval compared.
ValidateSupersession(c) ==
  /\ callers[c].pc = "supersession"
  /\ LET cmd == Cmd(c)
         m == callers[c].read
     IN \/ /\ SupersessionHolds(cmd) /\ Approves(cmd, m)
           /\ \E at \in Instants : callers' = [callers EXCEPT ![c] =
                [pc |-> "save", todo |-> @.todo, known |-> @.known,
                 package |-> Build(cmd, m, at)]]
        \/ /\ SupersessionHolds(cmd) /\ ~Approves(cmd, m)
           /\ Refuse(c)
        \/ /\ ~SupersessionHolds(cmd) /\ cmd.supersedes # None
           /\ Refuse(c)
        \/ /\ ~SupersessionHolds(cmd) /\ cmd.supersedes = None
           /\ Go(c, "recheck")
  /\ UNCHANGED <<packages, receipts, sources, readers>>

\* INSTRUCTION_PACKAGE_SUPERSESSION_REQUIRED: an identical release may have
\* been committed since the lookup.
Recheck(c) ==
  /\ callers[c].pc = "recheck"
  /\ Winner(c) \/ (NoWinner(c) /\ Refuse(c))
  /\ UNCHANGED <<packages, receipts, sources, readers>>

\* save_package: the insert wins, or finds the identity taken.  Equal content
\* is replayed; other content is compared with the command once more.
SavePackage(c) ==
  /\ callers[c].pc = "save"
  /\ LET p == callers[c].package
     IN \/ /\ NoWinner(c)
           /\ packages' = [packages EXCEPT ![p.id] = p]
           /\ Settle(c, "created", p)
        \/ /\ packages[p.id] = p
           /\ Settle(c, "replayed", p)
           /\ UNCHANGED packages
        \/ /\ packages[p.id] # p
           /\ Winner(c)
           /\ UNCHANGED packages
  /\ UNCHANGED <<receipts, sources, readers>>

\* release_batch goes on after a refusal; a conflict ends the request.
Respond(c) ==
  /\ callers[c].pc = "done"
  /\ LET rest == Tail(callers[c].todo)
     IN callers' = [callers EXCEPT ![c] =
          IF callers[c].outcome = "conflict" \/ rest = <<>> THEN Idle
          ELSE Begin(rest)]
  /\ UNCHANGED <<packages, receipts, sources, readers>>

\* The request is lost: the caller may send it again.
Lose(c) ==
  /\ callers[c] # Idle
  /\ callers' = [callers EXCEPT ![c] = Idle]
  /\ UNCHANGED <<packages, receipts, sources, readers>>

-----------------------------------------------------------------------------
FirstReceipt(i, k) == receipts[<<i, k>>] = NoReceipt

\* acknowledge_receipt: the first receipt of a consumer stays; a second one is
\* replayed or refused by its evidence.
AcknowledgeReceipt(k, i, e) ==
  /\ k \in load.consumers
  /\ packages[i] # NoPackage
  /\ FirstReceipt(i, k)
  /\ receipts' = [receipts EXCEPT ![<<i, k>>] = e]
  /\ UNCHANGED <<packages, sources, callers, readers>>

\* ORDER BY created_at DESC, package_id DESC, package_version DESC.
Newer(p, q) == p.created > q.created \/ (p.created = q.created /\ p.id > q.id)

Listed(snapshot) == {p \in Stored : p.created <= snapshot}

\* The rows of one page: LIMIT and OFFSET count in the order of the listing.
Page(r) ==
  LET rows == Listed(r.snapshot)
      position(p) == Cardinality({q \in rows : Newer(q, p)})
  IN {p \in rows : position(p) \in r.offset..(r.offset + PageLimit - 1)}

\* The first page fixes the snapshot, by the clock of the process that serves it.
\* at is a history variable: the packages dated up to the snapshot that had been
\* released before the listing began.
OpenList(r) ==
  /\ r \in load.readers
  /\ readers[r].pc \in {"idle", "done"}
  /\ \E at \in Instants : readers' = [readers EXCEPT ![r] =
       [pc |-> "rows", snapshot |-> at, offset |-> 0, got |-> {}, at |-> Listed(at)]]
  /\ UNCHANGED <<packages, receipts, sources, callers>>

ReadRows(r) ==
  /\ readers[r].pc = "rows"
  /\ LET k == readers[r]
         page == Page(k)
     IN readers' = [readers EXCEPT ![r] =
          [k EXCEPT !.pc = "count", !.offset = k.offset + Cardinality(page),
                    !.got = k.got \cup page]]
  /\ UNCHANGED <<packages, receipts, sources, callers>>

MorePages(r) == r.offset < Cardinality(Listed(r.snapshot))

\* The count is a second statement; it decides whether there is a next page.
ReadCount(r) ==
  /\ readers[r].pc = "count"
  /\ readers' = [readers EXCEPT ![r].pc =
                   IF MorePages(readers[r]) THEN "rows" ELSE "done"]
  /\ UNCHANGED <<packages, receipts, sources, callers>>

-----------------------------------------------------------------------------
\* The wave hands an item off; no command takes it back.
HandOff(i) ==
  /\ i \notin ready
  /\ ready' = ready \cup {i}
  /\ UNCHANGED <<packages, receipts, mandate, callers, readers, load>>

\* A mandate snapshot is written: a new version, or new content under one.
MandateChanges ==
  /\ mandate' \in load.mandates \ {mandate}
  /\ UNCHANGED <<packages, receipts, ready, callers, readers, load>>

Init ==
  /\ packages = [i \in Ids |-> NoPackage]
  /\ receipts = [x \in Ids \X Consumers |-> NoReceipt]
  /\ ready = {}
  /\ load \in Workloads
  /\ mandate \in load.mandates
  /\ callers = [c \in Callers |-> Idle]
  /\ readers = [r \in Readers |-> Idle]

CallerStep(c) ==
  \/ Start(c) \/ Lookup(c) \/ LoadItem(c) \/ LoadMandate(c)
  \/ ValidateSupersession(c) \/ Recheck(c) \/ SavePackage(c)
  \/ Respond(c) \/ Lose(c)

Next ==
  \/ \E c \in Callers : CallerStep(c)
  \/ \E k \in Consumers, i \in Ids, e \in Evidences : AcknowledgeReceipt(k, i, e)
  \/ \E r \in Readers : OpenList(r) \/ ReadRows(r) \/ ReadCount(r)
  \/ \E i \in Items : HandOff(i)
  \/ MandateChanges

Spec == Init /\ [][Next]_vars

-----------------------------------------------------------------------------
Known == Package \cup {NoPackage}

Looking ==
  [pc: {"lookup", "item", "mandate", "recheck"}, todo: Seq(Command), known: Known]

Checking == [pc: {"supersession"}, todo: Seq(Command), known: Known, read: Mandates]

Saving == [pc: {"save"}, todo: Seq(Command), known: Known, package: Package]

Answered ==
  [pc: {"done"}, todo: Seq(Command), known: Known,
   outcome: {"created", "replayed", "refused", "conflict"},
   package: Package \cup {NoPackage}]

Caller == {Idle} \cup Looking \cup Checking \cup Saving \cup Answered

Reader ==
  {Idle}
  \cup [pc: {"rows", "count", "done"}, snapshot: 0..MaxTime, offset: Nat,
        got: SUBSET Package, at: SUBSET Package]

TypeOK ==
  /\ packages \in [Ids -> Package \cup {NoPackage}]
  /\ receipts \in [Ids \X Consumers -> Evidences \cup {NoReceipt}]
  /\ ready \subseteq Items
  /\ mandate \in Mandates
  /\ callers \in [Callers -> Caller]
  /\ readers \in [Readers -> Reader]
  /\ load \in Workloads

\* One package per identity, whoever asks.  A caller that is answered with a
\* package, however its release raced others, has been given the stored one,
\* and that one carries the material and the approval of its own command.
AnswersAgree ==
  \A c \in Callers :
    /\ callers[c].pc = "done"
    /\ callers[c].outcome \in {"created", "replayed"}
    => /\ callers[c].package = packages[Cmd(c).id]
       /\ Matches(callers[c].package, Cmd(c))

\* A lost response can be recovered: a release that was stored when an exact
\* retry began is what the retry gets, although the mandate, the item or other
\* packages have changed since.
RetryRecovers ==
  \A c \in Callers :
    callers[c].pc = "done" /\ callers[c].known # NoPackage
      => callers[c].outcome = "replayed" /\ callers[c].package = callers[c].known

\* An exact rival is no conflict: a caller that is told its identity is taken
\* sent other material, or another correlation, than the package that took it.
ConflictsAreReal ==
  \A c \in Callers :
    callers[c].pc = "done" /\ callers[c].outcome = "conflict"
      => packages[Cmd(c).id] # NoPackage /\ ~Matches(packages[Cmd(c).id], Cmd(c))

\* Every package was approved as it stands: the hash the approver signed covers
\* the mandate content the package was built from, and its item was handed off.
ReleasedAsApproved ==
  \A p \in Stored :
    /\ p.approval = [id |-> p.id, item |-> p.item, mandate |-> p.mandate,
                     material |-> p.material]
    /\ p.item \in ready

\* Supersession leads back to a first release: a package supersedes a stored
\* package of its own item, and no chain of supersessions closes on itself.
SupersessionIsGrounded ==
  /\ \A p \in Stored : p.supersedes # None =>
       \E q \in Stored : q.id = p.supersedes /\ q.item = p.item
  /\ \A S \in SUBSET Stored : S # {} =>
       \E p \in S : p.supersedes \notin {q.id : q \in S}

\* What has been released or acknowledged stays as it is.
RecordStep ==
  /\ \A i \in Ids : packages[i] # NoPackage => packages'[i] = packages[i]
  /\ \A x \in Ids \X Consumers :
       receipts[x] # NoReceipt => receipts'[x] = receipts[x]

\* Packages and receipts are immutable.
RecordsAreImmutable == [][RecordStep]_vars

\* Paging misses nothing that had been released when it began and is dated up to
\* its snapshot, although rows that are committed late shift the offsets of the
\* pages that follow.
PagesCoverStart ==
  \A r \in Readers : readers[r].pc = "done" => readers[r].at \subseteq readers[r].got

\* A wave item has one current package: no two that nothing supersedes.
OneCurrentSet ==
  \A p, q \in Stored :
    /\ p.item = q.item
    /\ \A x \in Stored : x.supersedes \notin {p.id, q.id}
    => p = q
=============================================================================
