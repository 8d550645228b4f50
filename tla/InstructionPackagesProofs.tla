---------------------- MODULE InstructionPackagesProofs ----------------------
(***************************************************************************)
(* Proofs about InstructionPackages, for any identities, items, mandates,  *)
(* workloads, callers, adapters and page size.                             *)
(*                                                                         *)
(* The inductive invariant ReleaseInv ties each caller in flight to the    *)
(* store.  Its heart is that a stored package never changes and an item    *)
(* never stops being handed off, so that what a release has read of them   *)
(* still holds when it inserts.  Nothing of the kind holds of the mandate: *)
(* the package carries the content that was read, and the approval is      *)
(* compared with that.                                                     *)
(***************************************************************************)
EXTENDS InstructionPackages, FiniteSetTheorems, SequenceTheorems, TLAPS

\* What holds of the package stored, or about to be stored, under i.
Sound(i, p) ==
  /\ p \in Package
  /\ p.id = i
  /\ p.approval = [id |-> i, item |-> p.item, mandate |-> p.mandate,
                   material |-> p.material]
  /\ p.item \in ready
  /\ p.supersedes # None =>
       packages[p.supersedes] # NoPackage /\ packages[p.supersedes].item = p.item

StoreInv == \A i \in Ids : packages[i] # NoPackage => Sound(i, packages[i])

\* The identity of cmd is taken by an exact match.
Exact(cmd) == packages[cmd.id] # NoPackage /\ Matches(packages[cmd.id], cmd)

\* What a caller in flight knows.
CallerKnows(k) ==
  k # Idle =>
    LET cmd == Head(k.todo)
    IN /\ k.todo # <<>>
       /\ k.known # NoPackage =>
            /\ k.pc \in {"lookup", "done"}
            /\ Exact(cmd) /\ k.known = packages[cmd.id]
       /\ k.pc \in {"mandate", "supersession"} => cmd.item \in ready
       /\ k.pc = "supersession" => k.read.version = cmd.version
       /\ k.pc = "save" => Sound(cmd.id, k.package) /\ Matches(k.package, cmd)
       /\ k.pc = "done" =>
            /\ k.outcome \in {"created", "replayed"} =>
                 Exact(cmd) /\ k.package = packages[cmd.id]
            /\ k.outcome = "conflict" => packages[cmd.id] # NoPackage /\ ~Exact(cmd)
            /\ k.known # NoPackage => k.outcome = "replayed"

CallersInv == \A c \in Callers : CallerKnows(callers[c])

\* The types of everything but the adapters' pages.
ReleaseTyped ==
  /\ packages \in [Ids -> Package \cup {NoPackage}]
  /\ receipts \in [Ids \X Consumers -> Evidences \cup {NoReceipt}]
  /\ ready \subseteq Items
  /\ mandate \in Mandates
  /\ callers \in [Callers -> Caller]
  /\ load \in Workloads

ReleaseInv == ReleaseTyped /\ StoreInv /\ CallersInv

-----------------------------------------------------------------------------
\* The shapes of a caller, by where it is.
LEMMA CallerShape ==
  ASSUME NEW k \in Caller
  PROVE  /\ k.pc \in {"idle", "lookup", "item", "mandate", "recheck",
                      "supersession", "save", "done"}
         /\ k.pc = "idle" <=> k = Idle
         /\ k # Idle => k.todo \in Seq(Command) /\ k.known \in Known
         /\ k.pc = "supersession" => k.read \in Mandates
         /\ k.pc = "save" => k.package \in Package
BY DEF Caller, Idle, Looking, Checking, Saving, Answered

\* The command of a caller in flight is a command.
LEMMA CommandShape ==
  ASSUME NEW cmd \in Command
  PROVE  /\ cmd.id \in Ids /\ cmd.item \in Items /\ cmd.version \in Versions
         /\ cmd.material \in Materials /\ cmd.approval \in ApprovedMaterial
         /\ cmd.supersedes \in Ids \cup {None} /\ cmd.by \in Operators
         /\ cmd.correlation \in Correlations
BY DEF Command

\* Batches are sequences of commands.
LEMMA BatchShape ==
  ASSUME NEW l \in Workloads, NEW b \in l.batches
  PROVE  b \in Seq(Command) /\ b # <<>>
BY PackageConstants

LEMMA CallerCommand ==
  ASSUME NEW k \in Caller, k # Idle, CallerKnows(k)
  PROVE  Head(k.todo) \in Command
<1>1. k.todo \in Seq(Command) /\ k.todo # <<>>
  BY CallerShape DEF CallerKnows
<1> QED
  BY <1>1, HeadTailProperties

-----------------------------------------------------------------------------
\* What every step leaves in place: stored packages, handed off items.
Keeps ==
  /\ \A i \in Ids : packages[i] # NoPackage => packages'[i] = packages[i]
  /\ ready \subseteq ready'

\* What is sound stays sound.
LEMMA SoundStays ==
  ASSUME NEW i, NEW p, Sound(i, p), Keeps
  PROVE  Sound(i, p)'
<1>1. p.created \in Nat
  BY DEF Sound, Package
<1>2. p.supersedes \in Ids \cup {None}
  BY DEF Sound, Package
<1> QED
  BY <1>1, <1>2 DEF Sound, Keeps

\* What a caller knows stays true while others act.
LEMMA KnowledgeStays ==
  ASSUME NEW k \in Caller, CallerKnows(k), Keeps
  PROVE  CallerKnows(k)'
<1> SUFFICES ASSUME k # Idle PROVE CallerKnows(k)'
  BY DEF CallerKnows
<1> DEFINE cmd == Head(k.todo)
<1>1. cmd \in Command /\ cmd.id \in Ids
  BY CallerCommand, CommandShape
<1>2. packages[cmd.id] # NoPackage => packages'[cmd.id] = packages[cmd.id]
  BY <1>1 DEF Keeps
<1>3. Exact(cmd) => Exact(cmd)'
  BY <1>2 DEF Exact, Matches
<1>4. packages[cmd.id] # NoPackage /\ ~Exact(cmd) =>
        packages'[cmd.id] # NoPackage /\ ~Exact(cmd)'
  BY <1>2 DEF Exact, Matches
<1>5. Sound(cmd.id, k.package) => Sound(cmd.id, k.package)'
  BY SoundStays
<1>6. Matches(k.package, cmd) => Matches(k.package, cmd)'
  BY DEF Matches
<1>7. cmd.item \in ready => cmd.item \in ready'
  BY DEF Keeps
<1> HIDE DEF cmd
<1> QED
  BY <1>2, <1>3, <1>4, <1>5, <1>6, <1>7 DEF CallerKnows, cmd, Exact

\* A step that leaves packages and items alone keeps them.
LEMMA QuietKeeps ==
  ASSUME UNCHANGED <<packages, ready>>
  PROVE  Keeps
BY DEF Keeps

\* A step that inserts no package keeps the store sound.
LEMMA StoreStays ==
  ASSUME StoreInv, Keeps, packages' = packages
  PROVE  StoreInv'
<1> SUFFICES ASSUME NEW i \in Ids, packages'[i] # NoPackage
             PROVE  Sound(i, packages[i])'
  BY DEF StoreInv
<1>1. PICK p : p = packages[i]
  OBVIOUS
<1>2. Sound(i, p)
  BY <1>1 DEF StoreInv
<1>3. Sound(i, p)'
  BY <1>2, SoundStays
<1>4. p = packages'[i]
  BY <1>1
<1> QED
  BY <1>3, <1>4 DEF Sound

\* A step in which one caller moves to k.
LEMMA CallerMoves ==
  ASSUME ReleaseTyped, CallersInv, Keeps,
         NEW c \in Callers, NEW k \in Caller,
         callers' = [callers EXCEPT ![c] = k], CallerKnows(k)'
  PROVE  callers' \in [Callers -> Caller] /\ CallersInv'
<1>1. callers' \in [Callers -> Caller]
  BY DEF ReleaseTyped
<1>2. ASSUME NEW d \in Callers PROVE CallerKnows(callers[d])'
  <2>1. PICK j : j = callers'[d]
    OBVIOUS
  <2>2. CallerKnows(j)'
    <3>1. CASE d = c
      BY <2>1, <3>1 DEF ReleaseTyped
    <3>2. CASE d # c
      <4>1. j = callers[d] /\ j \in Caller
        BY <2>1, <3>2 DEF ReleaseTyped
      <4>2. CallerKnows(j)
        BY <4>1 DEF CallersInv
      <4> QED
        BY <4>1, <4>2, KnowledgeStays
    <3> QED
      BY <3>1, <3>2
  <2> QED
    BY <2>1, <2>2 DEF CallerKnows
<1> QED
  BY <1>1, <1>2 DEF CallersInv

\* A step in which no caller moves.
LEMMA CallersStay ==
  ASSUME ReleaseTyped, CallersInv, Keeps,
         UNCHANGED callers
  PROVE  CallersInv'
<1> SUFFICES ASSUME NEW d \in Callers PROVE CallerKnows(callers[d])'
  BY DEF CallersInv
<1>1. PICK j : j = callers[d]
  OBVIOUS
<1>2. j \in Caller /\ CallerKnows(j)
  BY <1>1 DEF ReleaseTyped, CallersInv
<1>3. CallerKnows(j)'
  BY <1>2, KnowledgeStays
<1>4. j = callers'[d]
  BY <1>1
<1> QED
  BY <1>3, <1>4 DEF CallerKnows

\* A caller that goes on with its command has found no exact match of it.
LEMMA GoMoves ==
  ASSUME ReleaseTyped, CallersInv, Keeps,
         NEW c \in Callers, callers[c] # Idle, callers[c].known = NoPackage,
         NEW pc \in {"item", "mandate", "recheck"}, Go(c, pc),
         pc = "mandate" => Cmd(c).item \in ready
  PROVE  callers' \in [Callers -> Caller] /\ CallersInv'
<1>1. callers[c] \in Caller /\ CallerKnows(callers[c])
  BY DEF ReleaseTyped, CallersInv
<1>2. callers[c].todo \in Seq(Command) /\ callers[c].todo # <<>>
  BY <1>1, CallerShape DEF CallerKnows
<1>3. PICK k : k = [pc |-> pc, todo |-> callers[c].todo, known |-> callers[c].known]
  BY Zenon
<1>4. k \in Caller /\ k # Idle
  <2>1. k \in Looking
    BY <1>2, <1>3 DEF Looking, Known
  <2>2. k.pc # Idle.pc
    BY <1>3 DEF Idle
  <2> QED
    BY <2>1, <2>2 DEF Caller
<1>5. CallerKnows(k)'
  BY <1>2, <1>3 DEF CallerKnows, Cmd, Keeps
<1>6. callers' = [callers EXCEPT ![c] = k]
  BY <1>3 DEF Go
<1> QED
  BY <1>4, <1>5, <1>6, CallerMoves, Zenon

\* A caller whose command is answered, and what the answer has to satisfy.
LEMMA SettleMoves ==
  ASSUME ReleaseTyped, CallersInv, Keeps,
         NEW c \in Callers, callers[c] # Idle,
         NEW cmd, cmd = Head(callers[c].todo),
         NEW outcome \in {"created", "replayed", "refused", "conflict"},
         NEW p \in Package \cup {NoPackage},
         Settle(c, outcome, p),
         outcome \in {"created", "replayed"} => Exact(cmd)' /\ p = packages'[cmd.id],
         outcome = "conflict" => packages'[cmd.id] # NoPackage /\ ~Exact(cmd)',
         callers[c].known # NoPackage => outcome = "replayed"
  PROVE  callers' \in [Callers -> Caller] /\ CallersInv'
<1>1. callers[c] \in Caller /\ CallerKnows(callers[c])
  BY DEF ReleaseTyped, CallersInv
<1>2. /\ callers[c].todo \in Seq(Command) /\ callers[c].todo # <<>>
      /\ callers[c].known \in Known
  BY <1>1, CallerShape DEF CallerKnows
<1>3. PICK k : k = [pc |-> "done", todo |-> callers[c].todo, known |-> callers[c].known,
                    outcome |-> outcome, package |-> p]
  BY Zenon
<1>4. k \in Caller /\ k # Idle
  <2>1. k \in Answered
    BY <1>2, <1>3 DEF Answered
  <2>2. k.pc # Idle.pc
    BY <1>3 DEF Idle
  <2> QED
    BY <2>1, <2>2 DEF Caller
<1>5. cmd.id \in Ids
  BY <1>1, CallerCommand, CommandShape
<1>6. callers[c].known # NoPackage => Exact(cmd)' /\ callers[c].known = packages'[cmd.id]
  BY <1>1, <1>5, Zenon DEF CallerKnows, Exact, Matches, Keeps
<1>7. CallerKnows(k)'
  BY <1>2, <1>3, <1>6 DEF CallerKnows
<1>8. callers' = [callers EXCEPT ![c] = k]
  BY <1>3 DEF Settle
<1> QED
  BY <1>4, <1>7, <1>8, CallerMoves, Zenon

-----------------------------------------------------------------------------
\* The parts of the state that no caller writes.
LEMMA RestTyped ==
  ASSUME ReleaseTyped, UNCHANGED <<receipts, sources>>,
         packages' \in [Ids -> Package \cup {NoPackage}],
         callers' \in [Callers -> Caller]
  PROVE  ReleaseTyped'
BY DEF ReleaseTyped, sources

\* A caller turns to a command, and remembers an exact match of it.
LEMMA BeginMoves ==
  ASSUME ReleaseInv, Keeps, NEW c \in Callers,
         NEW b \in Seq(Command), b # <<>>, callers' = [callers EXCEPT ![c] = Begin(b)]
  PROVE  callers' \in [Callers -> Caller] /\ CallersInv'
<1>1. Head(b) \in Command
  BY HeadTailProperties
<1>2. PICK k : k = Begin(b)
  OBVIOUS
<1>3. k \in Looking /\ k.pc = "lookup" /\ k.todo = b
  BY <1>1, <1>2, CommandShape DEF Begin, Looking, Known, ReleaseInv, ReleaseTyped
<1>4. k.known # NoPackage => Exact(Head(b)) /\ k.known = packages[Head(b).id]
  BY <1>2 DEF Begin, Exact
<1>5. CallerKnows(k)
  BY <1>3, <1>4 DEF CallerKnows
<1>6. CallerKnows(k)'
  BY <1>3, <1>5, KnowledgeStays DEF Caller
<1> QED
  BY <1>2, <1>3, <1>6, CallerMoves, Zenon DEF ReleaseInv, Caller

\* An identity that is taken answers the caller, exactly or as a conflict.
LEMMA WinnerMoves ==
  ASSUME ReleaseInv, Keeps, packages' = packages,
         NEW c \in Callers, callers[c] # Idle, Winner(c)
  PROVE  callers' \in [Callers -> Caller] /\ CallersInv'
<1>1. PICK cmd : cmd = Head(callers[c].todo)
  OBVIOUS
<1>2. PICK p : p = packages[cmd.id]
  OBVIOUS
<1>3. callers[c] \in Caller /\ CallerKnows(callers[c])
  BY DEF ReleaseInv, ReleaseTyped, CallersInv
<1>4. cmd \in Command /\ cmd.id \in Ids
  BY <1>1, <1>3, CallerCommand, CommandShape
<1>5. p \in Package /\ p # NoPackage
  BY <1>1, <1>2, <1>4 DEF Winner, Cmd, ReleaseInv, ReleaseTyped
<1>6. p = packages'[cmd.id]
  BY <1>2
<1>7. CASE Matches(p, cmd)
  <2>1. Settle(c, "replayed", p)
    BY <1>1, <1>2, <1>7 DEF Winner, Cmd
  <2>2. Exact(cmd)'
    BY <1>5, <1>6, <1>7 DEF Exact, Matches
  <2> QED
    BY <1>1, <1>5, <1>6, <2>1, <2>2, SettleMoves DEF ReleaseInv
<1>8. CASE ~Matches(p, cmd)
  <2>1. Settle(c, "conflict", NoPackage)
    BY <1>1, <1>2, <1>8 DEF Winner, Cmd
  <2>2. ~Exact(cmd)'
    BY <1>6, <1>8 DEF Exact, Matches
  <2>3. callers[c].known = NoPackage
    BY <1>1, <1>2, <1>3, <1>8 DEF CallerKnows, Exact
  <2> QED
    BY <1>1, <1>5, <1>6, <2>1, <2>2, <2>3, SettleMoves DEF ReleaseInv
<1> QED
  BY <1>7, <1>8

\* A refusal answers a caller that found no exact match.
LEMMA RefuseMoves ==
  ASSUME ReleaseInv, Keeps,
         NEW c \in Callers, callers[c] # Idle, callers[c].known = NoPackage, Refuse(c)
  PROVE  callers' \in [Callers -> Caller] /\ CallersInv'
<1>1. PICK cmd : cmd = Head(callers[c].todo)
  OBVIOUS
<1> QED
  BY <1>1, SettleMoves DEF Refuse, ReleaseInv

\* The steps of a caller that read: what they leave alone, and where they go.
LEMMA ReadingInv ==
  ASSUME ReleaseInv, UNCHANGED <<packages, receipts, sources>>,
         NEW c \in Callers,
         callers' \in [Callers -> Caller] /\ CallersInv'
  PROVE  ReleaseInv'
<1>1. Keeps
  BY QuietKeeps DEF ReleaseInv, sources
<1>2. StoreInv'
  BY <1>1, StoreStays DEF ReleaseInv
<1>3. ReleaseTyped'
  BY RestTyped DEF ReleaseInv, ReleaseTyped
<1> QED
  BY <1>2, <1>3 DEF ReleaseInv

LEMMA StartInv ==
  ASSUME ReleaseInv, NEW c \in Callers, Start(c)
  PROVE  ReleaseInv'
<1>1. PICK b \in load.batches : callers' = [callers EXCEPT ![c] = Begin(b)]
  BY Zenon DEF Start
<1>2. b \in Seq(Command) /\ b # <<>>
  BY BatchShape DEF ReleaseInv, ReleaseTyped
<1>3. Keeps
  BY QuietKeeps DEF ReleaseInv, Start, sources
<1>4. callers' \in [Callers -> Caller] /\ CallersInv'
  BY <1>1, <1>2, <1>3, BeginMoves, Zenon
<1> QED
  BY <1>4, ReadingInv DEF Start

\* The caller is done with a command, or with its request.
LEMMA RespondInv ==
  ASSUME ReleaseInv, NEW c \in Callers, Respond(c) \/ Lose(c)
  PROVE  ReleaseInv'
<1>1. UNCHANGED <<packages, receipts, sources>>
  BY DEF Respond, Lose
<1>2. Keeps
  BY <1>1, QuietKeeps DEF ReleaseInv, sources
<1>3. callers[c] # Idle
  BY DEF Respond, Lose, Idle
<1>4. callers[c].todo \in Seq(Command) /\ callers[c].todo # <<>>
  BY <1>3, CallerShape DEF ReleaseInv, ReleaseTyped, CallersInv, CallerKnows
<1>5. callers' \in [Callers -> Caller] /\ CallersInv'
  <2>1. CASE callers' = [callers EXCEPT ![c] = Idle]
    <3>1. Idle \in Caller /\ CallerKnows(Idle)'
      BY DEF Caller, CallerKnows
    <3> QED
      BY <1>2, <2>1, <3>1, CallerMoves, Zenon DEF ReleaseInv
  <2>2. CASE /\ callers' = [callers EXCEPT ![c] = Begin(Tail(callers[c].todo))]
             /\ Tail(callers[c].todo) # <<>>
    <3>1. Tail(callers[c].todo) \in Seq(Command)
      BY <1>4, HeadTailProperties
    <3> QED
      BY <1>2, <2>2, <3>1, BeginMoves, Zenon
  <2> QED
    BY <2>1, <2>2 DEF Respond, Lose
<1> QED
  BY <1>1, <1>5, ReadingInv

LEMMA LookupInv ==
  ASSUME ReleaseInv, NEW c \in Callers,
         Lookup(c) \/ LoadItem(c) \/ Recheck(c)
  PROVE  ReleaseInv'
<1>1. UNCHANGED <<packages, receipts, sources>>
  BY DEF Lookup, LoadItem, Recheck
<1>2. Keeps /\ packages' = packages
  BY <1>1, QuietKeeps DEF ReleaseInv, sources
<1>3. callers[c] # Idle
  BY DEF Lookup, LoadItem, Recheck, Idle
<1>4. CallerKnows(callers[c])
  BY DEF ReleaseInv, CallersInv
<1>5. callers' \in [Callers -> Caller] /\ CallersInv'
  <2>1. CASE Winner(c)
    BY <1>2, <1>3, <2>1, WinnerMoves
  <2>2. CASE Lookup(c) /\ NoWinner(c) /\ Go(c, "item")
    <3>1. callers[c].known = NoPackage
      BY <1>3, <1>4, <2>2 DEF CallerKnows, NoWinner, Cmd, Exact
    <3> QED
      BY <1>2, <1>3, <2>2, <3>1, GoMoves DEF ReleaseInv
  <2>3. CASE LoadItem(c)
    <3>1. callers[c].known = NoPackage
      BY <1>3, <1>4, <2>3 DEF CallerKnows, LoadItem
    <3>2. CASE Cmd(c).item \in ready /\ Go(c, "mandate")
      BY <1>2, <1>3, <3>1, <3>2, GoMoves DEF ReleaseInv
    <3>3. CASE Refuse(c)
      BY <1>2, <1>3, <3>1, <3>3, RefuseMoves
    <3> QED
      BY <2>3, <3>2, <3>3 DEF LoadItem
  <2>4. CASE Recheck(c) /\ Refuse(c)
    <3>1. callers[c].known = NoPackage
      BY <1>3, <1>4, <2>4 DEF CallerKnows, Recheck
    <3> QED
      BY <1>2, <1>3, <2>4, <3>1, RefuseMoves
  <2> QED
    BY <2>1, <2>2, <2>3, <2>4 DEF Lookup, Recheck
<1> QED
  BY <1>1, <1>5, ReadingInv

LEMMA LoadMandateInv ==
  ASSUME ReleaseInv, NEW c \in Callers, LoadMandate(c)
  PROVE  ReleaseInv'
<1>1. UNCHANGED <<packages, receipts, sources>>
  BY DEF LoadMandate
<1>2. Keeps
  BY <1>1, QuietKeeps DEF ReleaseInv, sources
<1>3. callers[c] # Idle /\ callers[c] \in Caller /\ CallerKnows(callers[c])
  BY DEF LoadMandate, Idle, ReleaseInv, ReleaseTyped, CallersInv
<1>4. /\ callers[c].known = NoPackage
      /\ callers[c].todo \in Seq(Command) /\ callers[c].todo # <<>>
      /\ Cmd(c).item \in ready
  BY <1>3, CallerShape DEF CallerKnows, LoadMandate, Cmd
<1>5. callers' \in [Callers -> Caller] /\ CallersInv'
  <2>1. CASE Refuse(c)
    BY <1>2, <1>3, <1>4, <2>1, RefuseMoves
  <2>2. CASE /\ mandate.version = Cmd(c).version
             /\ callers' = [callers EXCEPT ![c] =
                  [pc |-> "supersession", todo |-> callers[c].todo,
                   known |-> callers[c].known, read |-> mandate]]
    <3>1. PICK k : k = [pc |-> "supersession", todo |-> callers[c].todo,
                        known |-> callers[c].known, read |-> mandate]
      BY Zenon
    <3>2. k \in Checking
      BY <1>4, <3>1 DEF Checking, Known, ReleaseInv, ReleaseTyped
    <3>3. CallerKnows(k)
      BY <1>4, <2>2, <3>1 DEF CallerKnows, Cmd
    <3>4. CallerKnows(k)'
      BY <1>2, <3>2, <3>3, KnowledgeStays DEF Caller
    <3> QED
      BY <1>2, <2>2, <3>1, <3>2, <3>4, CallerMoves, Zenon DEF ReleaseInv, Caller
  <2> QED
    BY <2>1, <2>2 DEF LoadMandate
<1> QED
  BY <1>1, <1>5, ReadingInv

LEMMA ValidateSupersessionInv ==
  ASSUME ReleaseInv, NEW c \in Callers, ValidateSupersession(c)
  PROVE  ReleaseInv'
<1>1. UNCHANGED <<packages, receipts, sources>>
  BY DEF ValidateSupersession
<1>2. Keeps
  BY <1>1, QuietKeeps DEF ReleaseInv, sources
<1>3. callers[c] # Idle /\ callers[c] \in Caller /\ CallerKnows(callers[c])
  BY DEF ValidateSupersession, Idle, ReleaseInv, ReleaseTyped, CallersInv
<1>4. PICK cmd, m : cmd = Cmd(c) /\ m = callers[c].read
  OBVIOUS
<1>5. /\ callers[c].known = NoPackage
      /\ callers[c].todo \in Seq(Command) /\ callers[c].todo # <<>>
      /\ cmd.item \in ready
      /\ m \in Mandates /\ m.version = cmd.version
      /\ cmd \in Command
  BY <1>3, <1>4, CallerShape, CallerCommand DEF CallerKnows, ValidateSupersession, Cmd
<1>6. callers' \in [Callers -> Caller] /\ CallersInv'
  <2>1. CASE Refuse(c)
    BY <1>2, <1>3, <1>5, <2>1, RefuseMoves
  <2>2. CASE Go(c, "recheck")
    BY <1>2, <1>3, <1>5, <2>2, GoMoves DEF ReleaseInv
  <2>3. ASSUME SupersessionHolds(cmd) /\ Approves(cmd, m), NEW at \in Instants,
               callers' = [callers EXCEPT ![c] =
                  [pc |-> "save", todo |-> callers[c].todo,
                   known |-> callers[c].known, package |-> Build(cmd, m, at)]]
        PROVE  callers' \in [Callers -> Caller] /\ CallersInv'
    <3>1. PICK p : p = Build(cmd, m, at)
      OBVIOUS
    <3>2. p \in Package
      BY <1>5, <3>1, CommandShape DEF Build, Package, Instants
    <3>3. p.supersedes # None =>
            packages[p.supersedes] # NoPackage /\ packages[p.supersedes].item = p.item
      <4> SUFFICES ASSUME p.supersedes # None
                   PROVE  /\ packages[p.supersedes] # NoPackage
                          /\ packages[p.supersedes].item = p.item
        OBVIOUS
      <4>1. p.supersedes = cmd.supersedes /\ p.item = cmd.item
        BY <3>1 DEF Build
      <4>2. PICK q \in Prior(cmd.item) : q.id = cmd.supersedes
        BY <2>3, <4>1 DEF SupersessionHolds
      <4>3. PICK i \in Ids : q = packages[i] /\ q # NoPackage /\ q.item = cmd.item
        BY <4>2 DEF Prior, Stored
      <4>4. q.id = i
        BY <4>3, Zenon DEF ReleaseInv, StoreInv, Sound
      <4> QED
        BY <4>1, <4>2, <4>3, <4>4
    <3>4. Sound(cmd.id, p)
      BY <1>2, <1>5, <2>3, <3>1, <3>2, <3>3 DEF Sound, Build, Approves, MaterialHash
    <3>5. Matches(p, cmd)
      BY <1>5, <3>1 DEF Matches, Build
    <3>6. PICK k : k = [pc |-> "save", todo |-> callers[c].todo,
                        known |-> callers[c].known, package |-> p]
      BY Zenon
    <3>7. k \in Saving
      BY <1>5, <3>2, <3>6 DEF Saving, Known
    <3>8. CallerKnows(k)
      BY <1>4, <1>5, <3>4, <3>5, <3>6 DEF CallerKnows, Cmd
    <3>9. CallerKnows(k)'
      BY <1>2, <3>7, <3>8, KnowledgeStays DEF Caller
    <3> QED
      BY <1>2, <2>3, <3>1, <3>6, <3>7, <3>9, CallerMoves, Zenon DEF ReleaseInv, Caller
  <2> QED
    BY <1>4, <2>1, <2>2, <2>3 DEF ValidateSupersession
<1> QED
  BY <1>1, <1>6, ReadingInv

LEMMA SavePackageInv ==
  ASSUME ReleaseInv, NEW c \in Callers, SavePackage(c)
  PROVE  ReleaseInv'
<1>1. callers[c] # Idle /\ callers[c] \in Caller /\ CallerKnows(callers[c])
  BY DEF SavePackage, Idle, ReleaseInv, ReleaseTyped, CallersInv
<1>2. PICK cmd, p : cmd = Head(callers[c].todo) /\ p = callers[c].package
  OBVIOUS
<1>3. /\ callers[c].known = NoPackage /\ cmd.id \in Ids
      /\ Sound(cmd.id, p) /\ Matches(p, cmd) /\ p \in Package /\ p.id = cmd.id
  BY <1>1, <1>2, CallerCommand, CommandShape, Zenon DEF CallerKnows, SavePackage, Sound
<1>4. ready' = ready
  BY DEF SavePackage, sources
<1>5. p # NoPackage
  BY <1>3, PackageConstants
<1>6. CASE /\ packages[cmd.id] = NoPackage
           /\ packages' = [packages EXCEPT ![p.id] = p]
           /\ Settle(c, "created", p)
  <2>1. packages'[cmd.id] = p /\ \A i \in Ids : i # cmd.id => packages'[i] = packages[i]
    BY <1>3, <1>6 DEF ReleaseInv, ReleaseTyped
  <2>2. Keeps
    BY <1>4, <1>6, <2>1 DEF Keeps
  <2>3. Exact(cmd)'
    BY <1>3, <1>5, <2>1 DEF Exact, Matches
  <2>4. callers' \in [Callers -> Caller] /\ CallersInv'
    BY <1>1, <1>2, <1>3, <1>4, <1>6, <2>1, <2>2, <2>3, SettleMoves, Zenon DEF ReleaseInv
  <2>5. StoreInv'
    <3> SUFFICES ASSUME NEW i \in Ids, packages'[i] # NoPackage
                 PROVE  Sound(i, packages[i])'
      BY DEF StoreInv
    <3>1. PICK q : q = packages'[i]
      OBVIOUS
    <3>2. Sound(i, q)
      BY <1>3, <2>1, <3>1 DEF ReleaseInv, StoreInv
    <3>3. Sound(i, q)'
      BY <1>4, <2>2, <3>2, SoundStays
    <3> QED
      BY <3>1, <3>3 DEF Sound
  <2>6. packages' \in [Ids -> Package \cup {NoPackage}]
    BY <1>3, <1>6 DEF ReleaseInv, ReleaseTyped
  <2> QED
    BY <2>4, <2>5, <2>6, RestTyped DEF ReleaseInv, SavePackage
<1>7. CASE UNCHANGED packages
  <2>1. Keeps
    BY <1>4, <1>7 DEF Keeps
  <2>2. callers' \in [Callers -> Caller] /\ CallersInv'
    <3>1. CASE packages[p.id] = p /\ Settle(c, "replayed", p)
      <4>1. Exact(cmd)' /\ p = packages'[cmd.id]
        BY <1>3, <1>5, <1>7, <3>1 DEF Exact, Matches
      <4> QED
        BY <1>1, <1>2, <1>3, <1>4, <2>1, <3>1, <4>1, SettleMoves, Zenon DEF ReleaseInv
    <3>2. CASE Winner(c)
      BY <1>1, <1>4, <1>7, <2>1, <3>2, WinnerMoves
    <3>3. CASE packages[cmd.id] = NoPackage /\ packages' = [packages EXCEPT ![p.id] = p]
      BY <1>3, <1>5, <1>7, <3>3 DEF ReleaseInv, ReleaseTyped
    <3> QED
      BY <1>2, <3>1, <3>2, <3>3 DEF SavePackage, NoWinner, Cmd
  <2> QED
    BY <1>7, <2>2, ReadingInv DEF SavePackage
<1> QED
  BY <1>2, <1>6, <1>7 DEF SavePackage, NoWinner, Cmd

\* The steps of adapters and of the systems around: no caller moves, and what
\* callers have read of packages and items stays true.
LEMMA SourcesInv ==
  ASSUME ReleaseInv, UNCHANGED <<packages, callers, load>>,
         receipts' \in [Ids \X Consumers -> Evidences \cup {NoReceipt}],
         ready \subseteq ready', ready' \subseteq Items,
         mandate' \in Mandates
  PROVE  ReleaseInv'
<1>1. ReleaseTyped'
  BY DEF ReleaseInv, ReleaseTyped
<1>2. Keeps
  BY DEF Keeps
<1> QED
  BY <1>1, <1>2, StoreStays, CallersStay DEF ReleaseInv

LEMMA EnvironmentInv ==
  ASSUME ReleaseInv,
         \/ \E k \in Consumers, i \in Ids, e \in Evidences : AcknowledgeReceipt(k, i, e)
         \/ \E r \in Readers : OpenList(r) \/ ReadRows(r) \/ ReadCount(r)
         \/ \E i \in Items : HandOff(i)
         \/ MandateChanges \/ UNCHANGED vars
  PROVE  ReleaseInv'
<1>1. mandate \in Mandates /\ ready \subseteq Items
  BY DEF ReleaseInv, ReleaseTyped
<1>2. receipts \in [Ids \X Consumers -> Evidences \cup {NoReceipt}]
  BY DEF ReleaseInv, ReleaseTyped
<1>3. ASSUME NEW k \in Consumers, NEW i \in Ids, NEW e \in Evidences,
             AcknowledgeReceipt(k, i, e)
      PROVE  ReleaseInv'
  BY <1>1, <1>2, <1>3, SourcesInv DEF AcknowledgeReceipt, sources
<1>4. ASSUME NEW r \in Readers, OpenList(r) \/ ReadRows(r) \/ ReadCount(r)
      PROVE  ReleaseInv'
  <2>1. UNCHANGED <<packages, receipts, sources, callers>>
    BY <1>4, Zenon DEF OpenList, ReadRows, ReadCount
  <2> QED
    BY <1>1, <1>2, <2>1, SourcesInv DEF sources
<1>5. ASSUME NEW i \in Items, HandOff(i) PROVE ReleaseInv'
  BY <1>1, <1>2, <1>5, SourcesInv DEF HandOff
<1>6. CASE MandateChanges
  <2>1. load.mandates \subseteq Mandates
    BY PackageConstants DEF ReleaseInv, ReleaseTyped
  <2> QED
    BY <1>1, <1>2, <1>6, <2>1, SourcesInv DEF MandateChanges
<1>7. CASE UNCHANGED vars
  BY <1>1, <1>2, <1>7, SourcesInv DEF vars
<1> QED
  BY <1>3, <1>4, <1>5, <1>6, <1>7

\* Every step keeps the invariant.
LEMMA StepInv ==
  ASSUME ReleaseInv, [Next]_vars
  PROVE  ReleaseInv'
<1>1. ASSUME NEW c \in Callers, CallerStep(c) PROVE ReleaseInv'
  BY <1>1, StartInv, LookupInv, LoadMandateInv, ValidateSupersessionInv,
     SavePackageInv, RespondInv DEF CallerStep
<1> QED
  BY <1>1, EnvironmentInv DEF Next

LEMMA InitInv ==
  ASSUME Init
  PROVE  ReleaseInv
<1>1. ReleaseTyped
  BY PackageConstants DEF Init, ReleaseTyped, Caller
<1>2. StoreInv
  BY DEF Init, StoreInv
<1>3. CallersInv
  BY DEF Init, CallersInv, CallerKnows
<1> QED
  BY <1>1, <1>2, <1>3 DEF ReleaseInv

\* What callers in flight have read stays true until they insert.
THEOREM ReleaseInvariant == Spec => []ReleaseInv
BY InitInv, StepInv, PTL DEF Spec

-----------------------------------------------------------------------------
\* A caller that is answered is in flight.
LEMMA AnsweredCaller ==
  ASSUME ReleaseInv, NEW c \in Callers, callers[c].pc = "done"
  PROVE  callers[c] # Idle /\ CallerKnows(callers[c])
BY DEF ReleaseInv, CallersInv, Idle

\* However releases of one identity race, whoever is answered with a package
\* has the stored one, with the material of its own command.
THEOREM AnswersAlwaysAgree == Spec => []AnswersAgree
<1>1. ReleaseInv => AnswersAgree
  <2> SUFFICES ASSUME ReleaseInv, NEW c \in Callers, callers[c].pc = "done",
                      callers[c].outcome \in {"created", "replayed"}
               PROVE  /\ callers[c].package = packages[Cmd(c).id]
                      /\ Matches(callers[c].package, Cmd(c))
    BY DEF AnswersAgree
  <2> QED
    BY AnsweredCaller DEF CallerKnows, Exact, Cmd
<1> QED
  BY <1>1, ReleaseInvariant, PTL

\* An exact retry of a stored release recovers it, whatever has changed since.
THEOREM RetriesRecover == Spec => []RetryRecovers
<1>1. ReleaseInv => RetryRecovers
  <2> SUFFICES ASSUME ReleaseInv, NEW c \in Callers, callers[c].pc = "done",
                      callers[c].known # NoPackage
               PROVE  /\ callers[c].outcome = "replayed"
                      /\ callers[c].package = callers[c].known
    BY DEF RetryRecovers
  <2> QED
    BY AnsweredCaller DEF CallerKnows
<1> QED
  BY <1>1, ReleaseInvariant, PTL

\* Only other material is refused as a conflict.
THEOREM ConflictsHold == Spec => []ConflictsAreReal
<1>1. ReleaseInv => ConflictsAreReal
  <2> SUFFICES ASSUME ReleaseInv, NEW c \in Callers, callers[c].pc = "done",
                      callers[c].outcome = "conflict"
               PROVE  /\ packages[Cmd(c).id] # NoPackage
                      /\ ~Matches(packages[Cmd(c).id], Cmd(c))
    BY DEF ConflictsAreReal
  <2> QED
    BY AnsweredCaller DEF CallerKnows, Exact, Cmd
<1> QED
  BY <1>1, ReleaseInvariant, PTL

\* A stored package is sound, and is stored under its identity.
LEMMA StoredSound ==
  ASSUME StoreInv, NEW p \in Stored
  PROVE  p.id \in Ids /\ packages[p.id] = p /\ p # NoPackage /\ Sound(p.id, p)
<1>1. PICK i \in Ids : p = packages[i] /\ p # NoPackage
  BY DEF Stored
<1>2. Sound(i, p)
  BY <1>1 DEF StoreInv
<1>3. p.id = i
  BY <1>2 DEF Sound
<1> QED
  BY <1>1, <1>2, <1>3

\* A package is released as its approver signed it, for an item handed off.
THEOREM PackagesAreApproved == Spec => []ReleasedAsApproved
<1>1. ReleaseInv => ReleasedAsApproved
  BY StoredSound, Zenon DEF ReleaseInv, ReleasedAsApproved, Sound
<1> QED
  BY <1>1, ReleaseInvariant, PTL

\* A step stores at most one package more, under an identity that was free.
LEMMA OneInsert ==
  ASSUME ReleaseInv, [Next]_vars
  PROVE  \/ packages' = packages
         \/ \E p \in Package :
              /\ p.id \in Ids /\ packages[p.id] = NoPackage /\ Sound(p.id, p)
              /\ packages' = [packages EXCEPT ![p.id] = p]
<1>1. ASSUME NEW c \in Callers, SavePackage(c), packages' # packages
      PROVE  \E p \in Package :
              /\ p.id \in Ids /\ packages[p.id] = NoPackage /\ Sound(p.id, p)
              /\ packages' = [packages EXCEPT ![p.id] = p]
  <2>1. callers[c] # Idle /\ callers[c] \in Caller /\ CallerKnows(callers[c])
    BY <1>1 DEF SavePackage, Idle, ReleaseInv, ReleaseTyped, CallersInv
  <2>2. PICK p : p = callers[c].package
    OBVIOUS
  <2>3. Cmd(c).id \in Ids /\ Sound(Cmd(c).id, p)
    BY <1>1, <2>1, <2>2, CallerCommand, CommandShape DEF CallerKnows, SavePackage, Cmd
  <2>4. p \in Package /\ p.id = Cmd(c).id
    BY <2>3 DEF Sound
  <2>5. packages[Cmd(c).id] = NoPackage /\ packages' = [packages EXCEPT ![p.id] = p]
    BY <1>1, <2>2 DEF SavePackage, NoWinner
  <2> QED
    BY <2>3, <2>4, <2>5, Zenon
<1>2. ASSUME NEW c \in Callers, CallerStep(c), ~SavePackage(c) PROVE packages' = packages
  BY <1>2 DEF CallerStep, Start, Lookup, LoadItem, LoadMandate, ValidateSupersession,
     Recheck, Respond, Lose
<1>3. ASSUME NEW k \in Consumers, NEW i \in Ids, NEW e \in Evidences,
             AcknowledgeReceipt(k, i, e)
      PROVE  packages' = packages
  BY <1>3 DEF AcknowledgeReceipt
<1>4. ASSUME NEW r \in Readers, OpenList(r) \/ ReadRows(r) \/ ReadCount(r)
      PROVE  packages' = packages
  BY <1>4 DEF OpenList, ReadRows, ReadCount
<1>5. CASE \/ \E i \in Items : HandOff(i)
           \/ MandateChanges \/ UNCHANGED vars
  BY <1>5 DEF HandOff, MandateChanges, vars
<1> QED
  BY <1>1, <1>2, <1>3, <1>4, <1>5 DEF Next

\* No chain of supersessions closes on itself.
Acyclic ==
  \A S \in SUBSET Stored : S # {} =>
    \E p \in S : p.supersedes \notin {q.id : q \in S}

\* A new package cannot close a chain: nothing stored supersedes an identity
\* that was free.
LEMMA AcyclicStep ==
  ASSUME ReleaseInv, Acyclic, [Next]_vars
  PROVE  Acyclic'
<1>1. CASE packages' = packages
  BY <1>1, Zenon DEF Acyclic, Stored
<1>2. ASSUME NEW p \in Package, p.id \in Ids, packages[p.id] = NoPackage,
             Sound(p.id, p), packages' = [packages EXCEPT ![p.id] = p]
      PROVE  Acyclic'
  <2>1. Stored' \subseteq Stored \cup {p}
    BY <1>2 DEF Stored, ReleaseInv, ReleaseTyped
  <2>2. p.supersedes # p.id
    BY <1>2, PackageConstants, Zenon DEF Sound
  <2>3. ASSUME NEW q \in Stored PROVE q.supersedes # p.id
    <3>1. Sound(q.id, q)
      BY <2>3, StoredSound DEF ReleaseInv
    <3>2. q.supersedes = None \/ packages[q.supersedes] # NoPackage
      BY <3>1 DEF Sound
    <3> QED
      BY <1>2, <3>2, PackageConstants
  <2>4. ASSUME NEW S \in SUBSET (Stored'), S # {}
        PROVE  \E x \in S : x.supersedes \notin {q.id : q \in S}
    <3>1. CASE S \ {p} = {}
      BY <2>2, <2>4, <3>1
    <3>2. CASE S \ {p} # {}
      <4>1. S \ {p} \in SUBSET Stored
        BY <2>1, <2>4
      <4>2. PICK x \in S \ {p} : x.supersedes \notin {q.id : q \in S \ {p}}
        BY <3>2, <4>1, Zenon DEF Acyclic
      <4>3. x.supersedes # p.id
        BY <2>3, <4>1, <4>2
      <4> QED
        BY <4>2, <4>3
    <3> QED
      BY <3>1, <3>2
  <2> QED
    BY <2>4 DEF Acyclic
<1> QED
  BY <1>1, <1>2, OneInsert

\* Every supersession leads back to a first release of the item.
THEOREM SupersessionGrounded == Spec => []SupersessionIsGrounded
<1>1. Init => Acyclic
  BY DEF Init, Acyclic, Stored
<1>2. ReleaseInv /\ Acyclic => SupersessionIsGrounded
  <2> SUFFICES ASSUME ReleaseInv, NEW p \in Stored, p.supersedes # None
               PROVE  \E q \in Stored : q.id = p.supersedes /\ q.item = p.item
    BY DEF Acyclic, SupersessionIsGrounded
  <2>1. /\ p.supersedes \in Ids /\ packages[p.supersedes] # NoPackage
        /\ packages[p.supersedes].item = p.item
    BY StoredSound, Zenon DEF ReleaseInv, Sound, Package
  <2>2. packages[p.supersedes].id = p.supersedes
    BY <2>1, Zenon DEF ReleaseInv, StoreInv, Sound
  <2> QED
    BY <2>1, <2>2 DEF Stored
<1> QED
  BY <1>1, <1>2, ReleaseInvariant, AcyclicStep, PTL DEF Spec

\* What has been released or acknowledged is never written again.
THEOREM RecordsStayImmutable == Spec => RecordsAreImmutable
<1>1. ASSUME ReleaseInv, [Next]_vars PROVE RecordStep \/ UNCHANGED vars
  <2>1. \A i \in Ids : packages[i] # NoPackage => packages'[i] = packages[i]
    BY <1>1, OneInsert DEF ReleaseInv, ReleaseTyped
  <2>2. ASSUME NEW k \in Consumers, NEW i \in Ids, NEW e \in Evidences,
               AcknowledgeReceipt(k, i, e), NEW x \in Ids \X Consumers,
               receipts[x] # NoReceipt
        PROVE  receipts'[x] = receipts[x]
    BY <1>1, <2>2 DEF AcknowledgeReceipt, FirstReceipt, ReleaseInv, ReleaseTyped
  <2>3. ASSUME ~\E k \in Consumers, i \in Ids, e \in Evidences :
                   AcknowledgeReceipt(k, i, e)
        PROVE  receipts' = receipts
    <3>1. ASSUME NEW c \in Callers, CallerStep(c) PROVE receipts' = receipts
      BY <3>1 DEF CallerStep, Start, Lookup, LoadItem, LoadMandate,
         ValidateSupersession, Recheck, SavePackage, Respond, Lose
    <3>2. ASSUME NEW r \in Readers, OpenList(r) \/ ReadRows(r) \/ ReadCount(r)
          PROVE  receipts' = receipts
      BY <3>2 DEF OpenList, ReadRows, ReadCount
    <3> QED
      BY <1>1, <2>3, <3>1, <3>2, Zenon DEF Next, HandOff, MandateChanges, vars
  <2> QED
    BY <2>1, <2>2, <2>3 DEF RecordStep
<1> QED
  BY <1>1, ReleaseInvariant, PTL DEF Spec, RecordsAreImmutable

-----------------------------------------------------------------------------
\* The listing.  A row's place in it is the number of newer rows.
Position(rows, p) == Cardinality({q \in rows : Newer(q, p)})

\* Rows of a listing: packages told apart by their identities.
Rows(rows) ==
  /\ IsFiniteSet(rows) /\ rows \subseteq Package
  /\ \A p, q \in rows : p.id = q.id => p = q

LEMMA PackageNumbers ==
  ASSUME NEW p \in Package
  PROVE  p.id \in Nat /\ p.created \in Nat
<1>1. p.id \in Ids /\ p.created \in 0..MaxTime
  BY DEF Package
<1>2. Ids \subseteq Nat
  BY PackageConstants
<1>3. \A t \in 0..MaxTime : t \in Nat
  OBVIOUS
<1> QED
  BY <1>1, <1>2, <1>3, Zenon

LEMMA PositionType ==
  ASSUME NEW rows, Rows(rows), NEW p
  PROVE  Position(rows, p) \in Nat
<1>1. IsFiniteSet({q \in rows : Newer(q, p)})
  BY FS_Subset DEF Rows
<1> QED
  BY <1>1, FS_CardinalityType DEF Position

\* A newer row has a smaller position.
LEMMA PositionOrder ==
  ASSUME NEW rows, Rows(rows), NEW p \in rows, NEW q \in rows, Newer(p, q)
  PROVE  Position(rows, p) < Position(rows, q)
<1>1. PICK P : P = {x \in rows : Newer(x, p)}
  BY Zenon
<1>2. PICK Q : Q = {x \in rows : Newer(x, q)}
  BY Zenon
<1>3. P \subseteq Q
  BY <1>1, <1>2, PackageNumbers DEF Newer, Rows
<1>4. p \in Q /\ p \notin P
  BY <1>1, <1>2, PackageNumbers DEF Newer, Rows
<1>5. IsFiniteSet(Q) /\ IsFiniteSet(P)
  BY <1>1, <1>2, FS_Subset DEF Rows
<1>6. Cardinality(P) \in Nat /\ Cardinality(Q) \in Nat
  BY <1>5, FS_CardinalityType
<1>7. Cardinality(P) <= Cardinality(Q) /\ Cardinality(P) # Cardinality(Q)
  BY <1>3, <1>4, <1>5, FS_Subset
<1> QED
  BY <1>1, <1>2, <1>6, <1>7 DEF Position

\* Rows that are committed late push a row back, never forward.
LEMMA PositionGrows ==
  ASSUME NEW rows, NEW more, Rows(more), rows \subseteq more, NEW p
  PROVE  Position(rows, p) <= Position(more, p)
<1>1. PICK P : P = {x \in rows : Newer(x, p)}
  BY Zenon
<1>2. PICK Q : Q = {x \in more : Newer(x, p)}
  BY Zenon
<1>3. P \subseteq Q /\ IsFiniteSet(Q)
  BY <1>1, <1>2, FS_Subset DEF Rows
<1> QED
  BY <1>1, <1>2, <1>3, FS_Subset DEF Position

\* Every row has its place among the rows.
LEMMA PositionBound ==
  ASSUME NEW rows, Rows(rows), NEW p \in rows
  PROVE  Position(rows, p) < Cardinality(rows)
<1>1. PICK P : P = {x \in rows : Newer(x, p)}
  BY Zenon
<1>2. p \notin P /\ P \subseteq rows
  BY <1>1, PackageNumbers DEF Newer, Rows
<1>3. IsFiniteSet(rows) /\ IsFiniteSet(P)
  BY <1>2, FS_Subset DEF Rows
<1>4. Cardinality(P) \in Nat /\ Cardinality(rows) \in Nat
  BY <1>3, FS_CardinalityType
<1>5. Cardinality(P) <= Cardinality(rows) /\ Cardinality(P) # Cardinality(rows)
  BY <1>2, <1>3, FS_Subset
<1> QED
  BY <1>1, <1>4, <1>5 DEF Position

\* A page is no longer than its limit.
LEMMA PageBound ==
  ASSUME NEW rows, Rows(rows), NEW offset \in Nat, NEW page,
         page = {p \in rows : Position(rows, p) \in offset..(offset + PageLimit - 1)}
  PROVE  IsFiniteSet(page) /\ Cardinality(page) \in Nat /\ Cardinality(page) <= PageLimit
<1>1. PICK T : T = offset..(offset + PageLimit - 1)
  OBVIOUS
<1>2. PICK f : f = [p \in page |-> Position(rows, p)]
  BY Zenon
<1>3. f \in [page -> T]
  BY <1>1, <1>2
<1>4. ASSUME NEW p \in page, NEW q \in page, f[p] = f[q] PROVE p = q
  <2>1. p \in rows /\ q \in rows /\ Position(rows, p) = Position(rows, q)
    BY <1>2, <1>4
  <2>2. ~Newer(p, q) /\ ~Newer(q, p)
    BY <2>1, PositionOrder, PositionType
  <2>3. p.id \in Nat /\ q.id \in Nat /\ p.created \in Nat /\ q.created \in Nat
    BY <2>1, PackageNumbers DEF Rows
  <2>4. p.id = q.id
    BY <2>2, <2>3 DEF Newer
  <2> QED
    BY <2>1, <2>4 DEF Rows
<1>5. f \in Injection(page, T)
  BY <1>3, <1>4 DEF Injection, IsInjective
<1>6. IsFiniteSet(T) /\ Cardinality(T) = PageLimit
  BY <1>1, FS_Interval, PackageConstants
<1>7. IsFiniteSet(page) /\ Cardinality(page) <= PageLimit
  BY <1>5, <1>6, FS_Injection
<1> QED
  BY <1>7, FS_CardinalityType

\* What is stored, and any part of it, is rows.
LEMMA StoredRows ==
  ASSUME StoreInv, NEW rows \in SUBSET Stored
  PROVE  Rows(rows)
<1>1. PICK f : f = [p \in rows |-> p.id]
  BY Zenon
<1>2. \A p \in rows : p.id \in Ids /\ packages[p.id] = p /\ p \in Package
  BY StoredSound, Zenon DEF Sound
<1>3. f \in Injection(rows, Ids)
  BY <1>1, <1>2 DEF Injection, IsInjective
<1>4. IsFiniteSet(rows)
  BY <1>3, FS_Injection, PackageConstants
<1> QED
  BY <1>2, <1>4 DEF Rows

\* What a listing has not read yet of the packages it began with lies at its
\* offset or behind.
PageInv(k) ==
  k # Idle =>
    LET rows == Listed(k.snapshot)
    IN /\ k.at \subseteq rows
       /\ \A p \in k.at \ k.got : k.offset <= Position(rows, p)
       /\ k.pc = "done" => k.at \subseteq k.got

ReadersInv == readers \in [Readers -> Reader] /\ \A r \in Readers : PageInv(readers[r])

LEMMA ReaderShape ==
  ASSUME NEW k \in Reader
  PROVE  /\ k.pc = "idle" <=> k = Idle
         /\ k # Idle => /\ k.pc \in {"rows", "count", "done"}
                        /\ k.snapshot \in 0..MaxTime /\ k.offset \in Nat
                        /\ k.got \in SUBSET Package /\ k.at \in SUBSET Package
BY DEF Reader, Idle

\* A listing keeps its place when packages are committed.
LEMMA PageStays ==
  ASSUME ReleaseInv, ReleaseInv', NEW k \in Reader, PageInv(k), Stored \subseteq Stored'
  PROVE  PageInv(k)'
<1> SUFFICES ASSUME k # Idle PROVE PageInv(k)'
  BY DEF PageInv
<1>1. PICK rows : rows = Listed(k.snapshot)
  OBVIOUS
<1>2. PICK more : more = Listed(k.snapshot)'
  OBVIOUS
<1>3. rows \subseteq more
  BY <1>1, <1>2 DEF Listed
<1>4. Rows(rows)
  BY <1>1, StoredRows DEF Listed, ReleaseInv
<1>5. Rows(more)
  <2>1. more \in SUBSET Stored'
    BY <1>2 DEF Listed
  <2>2. StoreInv'
    BY DEF ReleaseInv
  <2>3. \A p \in Stored' :
          p.id \in Ids /\ packages'[p.id] = p /\ p \in Package
    <3> SUFFICES ASSUME NEW i \in Ids, packages'[i] # NoPackage
                 PROVE  packages'[i].id = i /\ packages'[i] \in Package
      BY DEF Stored
    <3> QED
      BY <2>2, Zenon DEF StoreInv, Sound
  <2>4. PICK f : f = [p \in more |-> p.id]
    BY Zenon
  <2>5. f \in Injection(more, Ids)
    BY <2>1, <2>3, <2>4 DEF Injection, IsInjective
  <2>6. IsFiniteSet(more)
    BY <2>5, FS_Injection, PackageConstants
  <2> QED
    BY <2>1, <2>3, <2>6 DEF Rows
<1>6. ASSUME NEW p \in k.at \ k.got PROVE k.offset <= Position(more, p)
  <2>1. k.offset <= Position(rows, p)
    BY <1>1, <1>6 DEF PageInv
  <2>2. Position(rows, p) <= Position(more, p)
    BY <1>3, <1>5, PositionGrows
  <2>3. k.offset \in Nat /\ Position(rows, p) \in Nat /\ Position(more, p) \in Nat
    BY <1>4, <1>5, PositionType, ReaderShape
  <2> QED
    BY <2>1, <2>2, <2>3
<1>7. k.at \subseteq more /\ (k.pc = "done" => k.at \subseteq k.got)
  BY <1>1, <1>3 DEF PageInv
<1> QED
  BY <1>2, <1>6, <1>7 DEF PageInv, Position, Newer

\* A page is read: what it leaves of the packages lies behind the new offset.
LEMMA ReadRowsKeeps ==
  ASSUME ReleaseInv, ReadersInv, NEW r \in Readers, ReadRows(r)
  PROVE  readers' \in [Readers -> Reader] /\ PageInv(readers'[r])
<1>1. PICK k : k = readers[r]
  OBVIOUS
<1>2. k \in Reader /\ k # Idle /\ k.pc = "rows" /\ PageInv(k)
  BY <1>1 DEF ReadersInv, ReadRows, Idle
<1>3. PICK rows : rows = Listed(k.snapshot)
  OBVIOUS
<1>4. Rows(rows) /\ rows \subseteq Package
  BY <1>3, StoredRows DEF Listed, ReleaseInv, Rows
<1>5. k.offset \in Nat /\ k.snapshot \in 0..MaxTime
      /\ k.got \in SUBSET Package /\ k.at \in SUBSET Package
  BY <1>2, ReaderShape
<1>6. PICK page : page = Page(k)
  OBVIOUS
<1>7. page = {p \in rows : Position(rows, p) \in k.offset..(k.offset + PageLimit - 1)}
  BY <1>3, <1>6 DEF Page, Position
<1>8. Cardinality(page) \in Nat /\ Cardinality(page) <= PageLimit
  BY <1>4, <1>5, <1>7, PageBound
<1>9. PICK j : j = [k EXCEPT !.pc = "count", !.offset = k.offset + Cardinality(page),
                            !.got = k.got \cup page]
  OBVIOUS
<1>10. k \in [pc: {"rows", "count", "done"}, snapshot: 0..MaxTime, offset: Nat,
               got: SUBSET Package, at: SUBSET Package]
  BY <1>2 DEF Reader
<1>11. /\ j.pc = "count" /\ j.snapshot = k.snapshot /\ j.at = k.at
       /\ j.offset = k.offset + Cardinality(page) /\ j.got = k.got \cup page
       /\ j \in [pc: {"rows", "count", "done"}, snapshot: 0..MaxTime, offset: Nat,
                 got: SUBSET Package, at: SUBSET Package]
  <2>1. PICK n, g : n = k.offset + Cardinality(page) /\ g = k.got \cup page
    BY Zenon
  <2>2. n \in Nat /\ g \in SUBSET Package
    BY <1>4, <1>5, <1>7, <1>8, <2>1
  <2>3. j = [k EXCEPT !.pc = "count", !.offset = n, !.got = g]
    BY <1>9, <2>1
  <2> QED
    BY <1>10, <2>1, <2>2, <2>3, Zenon
<1>12. ASSUME NEW p \in j.at \ j.got PROVE j.offset <= Position(rows, p)
  <2>1. p \in k.at \ k.got /\ p \notin page /\ p \in rows
    BY <1>2, <1>3, <1>11, <1>12 DEF PageInv
  <2>2. k.offset <= Position(rows, p) /\ Position(rows, p) \in Nat
    BY <1>2, <1>3, <1>4, <2>1, PositionType DEF PageInv
  <2>3. ~(Position(rows, p) <= k.offset + PageLimit - 1)
    BY <1>5, <1>7, <2>1, <2>2, PackageConstants
  <2> QED
    BY <1>5, <1>8, <1>11, <2>2, <2>3, PackageConstants
<1>13. j \in Reader
  BY <1>11 DEF Reader
<1>14. PageInv(j)
  BY <1>2, <1>3, <1>11, <1>12 DEF PageInv
<1>15. readers' = [readers EXCEPT ![r] = j]
  BY <1>1, <1>6, <1>9 DEF ReadRows
<1> QED
  BY <1>13, <1>14, <1>15 DEF ReadersInv

\* The count ends a listing only when nothing is left at its offset.
LEMMA ReadCountKeeps ==
  ASSUME ReleaseInv, ReadersInv, NEW r \in Readers, ReadCount(r)
  PROVE  readers' \in [Readers -> Reader] /\ PageInv(readers'[r])
<1>1. PICK k : k = readers[r]
  OBVIOUS
<1>2. k \in Reader /\ k # Idle /\ PageInv(k)
  BY <1>1 DEF ReadersInv, ReadCount, Idle
<1>3. PICK rows : rows = Listed(k.snapshot)
  OBVIOUS
<1>4. Rows(rows)
  BY <1>3, StoredRows DEF Listed, ReleaseInv
<1>5. k \in [pc: {"rows", "count", "done"}, snapshot: 0..MaxTime, offset: Nat,
              got: SUBSET Package, at: SUBSET Package]
  BY <1>2 DEF Reader
<1>6. PICK pc \in {"rows", "done"} :
        /\ readers' = [readers EXCEPT ![r].pc = pc]
        /\ pc = "done" => ~MorePages(k)
  BY <1>1, Zenon DEF ReadCount
<1>7. PICK j : j = [k EXCEPT !.pc = pc]
  BY Zenon
<1>8. /\ j.pc = pc /\ j.snapshot = k.snapshot /\ j.at = k.at
      /\ j.offset = k.offset /\ j.got = k.got
      /\ j \in [pc: {"rows", "count", "done"}, snapshot: 0..MaxTime, offset: Nat,
                got: SUBSET Package, at: SUBSET Package]
  BY <1>5, <1>7
<1>9. ASSUME pc = "done", NEW p \in k.at \ k.got PROVE FALSE
  <2>1. k.offset <= Position(rows, p) /\ p \in rows
    BY <1>2, <1>3, <1>9 DEF PageInv
  <2>2. Position(rows, p) < Cardinality(rows) /\ Position(rows, p) \in Nat
    BY <1>4, <2>1, PositionBound, PositionType
  <2>3. Cardinality(rows) \in Nat
    BY <1>4, FS_CardinalityType DEF Rows
  <2>4. ~(k.offset < Cardinality(rows))
    BY <1>3, <1>6, <1>9 DEF MorePages
  <2> QED
    BY <1>5, <2>1, <2>2, <2>3, <2>4
<1>10. PageInv(j)
  BY <1>2, <1>8, <1>9 DEF PageInv
<1>11. j \in Reader /\ readers' = [readers EXCEPT ![r] = j]
  BY <1>1, <1>6, <1>7, <1>8 DEF Reader, ReadersInv
<1> QED
  BY <1>10, <1>11 DEF ReadersInv

\* A listing begins with the packages stored that are dated up to its snapshot.
LEMMA OpenListKeeps ==
  ASSUME ReleaseInv, ReadersInv, NEW r \in Readers, OpenList(r)
  PROVE  readers' \in [Readers -> Reader] /\ PageInv(readers'[r])
<1>1. PICK at \in Instants : readers' = [readers EXCEPT ![r] =
        [pc |-> "rows", snapshot |-> at, offset |-> 0, got |-> {}, at |-> Listed(at)]]
  BY Zenon DEF OpenList
<1>2. PICK rows : rows = Listed(at)
  OBVIOUS
<1>3. PICK j : j = [pc |-> "rows", snapshot |-> at, offset |-> 0, got |-> {}, at |-> rows]
  BY Zenon
<1>4. rows \subseteq Stored
  BY <1>2 DEF Listed
<1>5. \A p \in Stored : p \in Package
  BY StoredSound, Zenon DEF ReleaseInv, Sound
<1>6. j \in Reader
  BY <1>3, <1>4, <1>5 DEF Reader, Instants
<1>7. \A p : Position(rows, p) \in Nat
  BY <1>4, StoredRows, PositionType DEF ReleaseInv
<1>8. PageInv(j)
  BY <1>2, <1>3, <1>7 DEF PageInv
<1>9. readers' = [readers EXCEPT ![r] = j]
  BY <1>1, <1>2, <1>3
<1> QED
  BY <1>6, <1>8, <1>9 DEF ReadersInv

\* Every step keeps every listing in its place.
LEMMA ReadersStep ==
  ASSUME ReleaseInv, ReadersInv, [Next]_vars
  PROVE  ReadersInv'
<1>1. ReleaseInv'
  BY StepInv
<1>2. Stored \subseteq Stored'
  BY OneInsert DEF Stored, ReleaseInv, ReleaseTyped
<1>3. ASSUME NEW r \in Readers, OpenList(r) \/ ReadRows(r) \/ ReadCount(r)
      PROVE  ReadersInv'
  <2>1. readers' \in [Readers -> Reader] /\ PageInv(readers'[r])
    BY <1>3, OpenListKeeps, ReadRowsKeeps, ReadCountKeeps
  <2>2. ASSUME NEW x \in Readers PROVE PageInv(readers'[x])
    BY <1>3, <2>1 DEF OpenList, ReadRows, ReadCount, ReadersInv
  <2>3. ASSUME NEW x \in Readers PROVE PageInv(readers[x])'
    <3>1. PICK k : k = readers'[x]
      OBVIOUS
    <3>2. k \in Reader /\ PageInv(k)
      BY <2>1, <2>2, <3>1
    <3>3. PageInv(k)'
      BY <1>1, <1>2, <3>2, PageStays
    <3> QED
      BY <3>1, <3>3 DEF PageInv
  <2> QED
    BY <2>1, <2>3 DEF ReadersInv
<1>4. ASSUME UNCHANGED readers PROVE ReadersInv'
  <2>1. ASSUME NEW r \in Readers PROVE PageInv(readers[r])'
    <3>1. PICK k : k = readers[r]
      OBVIOUS
    <3>2. k \in Reader /\ PageInv(k)
      BY <3>1 DEF ReadersInv
    <3>3. PageInv(k)'
      BY <1>1, <1>2, <3>2, PageStays
    <3>4. k = readers'[r]
      BY <1>4, <3>1
    <3> QED
      BY <3>3, <3>4 DEF PageInv
  <2> QED
    BY <1>4, <2>1 DEF ReadersInv
<1>5. ASSUME NEW c \in Callers, CallerStep(c) PROVE UNCHANGED readers
  BY <1>5, Zenon DEF CallerStep, Start, Lookup, LoadItem, LoadMandate, ValidateSupersession,
     Recheck, SavePackage, Respond, Lose
<1>6. ASSUME NEW k \in Consumers, NEW i \in Ids, NEW e \in Evidences,
             AcknowledgeReceipt(k, i, e)
      PROVE  UNCHANGED readers
  BY <1>6 DEF AcknowledgeReceipt
<1>7. CASE \/ \E i \in Items : HandOff(i)
           \/ MandateChanges \/ UNCHANGED vars
  BY <1>4, <1>7 DEF HandOff, MandateChanges, vars
<1> QED
  BY <1>3, <1>4, <1>5, <1>6, <1>7 DEF Next

\* What a listing has left to read stays at its offset or behind.
THEOREM ReadersInvariant == Spec => []ReadersInv
<1>1. Init => ReadersInv
  BY Zenon DEF Init, ReadersInv, Reader, PageInv
<1> QED
  BY <1>1, ReleaseInvariant, ReadersStep, PTL DEF Spec

\* Offset paging misses nothing that was there when it began, dated up to its
\* snapshot: a package that is committed late only pushes unread rows back.
THEOREM PagesAlwaysCover == Spec => []PagesCoverStart
<1>1. ReadersInv => PagesCoverStart
  BY DEF ReadersInv, PagesCoverStart, PageInv, Idle
<1> QED
  BY <1>1, ReadersInvariant, PTL

\* Every value stays in its type.
THEOREM TypeCorrect == Spec => []TypeOK
<1>1. ReleaseInv /\ ReadersInv => TypeOK
  BY DEF ReleaseInv, ReleaseTyped, ReadersInv, TypeOK
<1> QED
  BY <1>1, ReleaseInvariant, ReadersInvariant, PTL
=============================================================================
