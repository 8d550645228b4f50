---------------------- MODULE CompositePublicationProofs ---------------------
(***************************************************************************)
(* Proofs about the publication feed of a composite, for any clients,      *)
(* commands, clock readings, page limit and number of lost answers: the    *)
(* tables only grow, a consumer of the feed misses nothing, a stored       *)
(* revision is published exactly once and every answer is a stored record. *)
(*                                                                         *)
(* The argument rests on the lock: the holder took its sequence number     *)
(* after every number that is published, nobody else can change            *)
(* definitions, revisions or publications before it is done, and so what   *)
(* it decided when it took the lock still holds when it commits.           *)
(***************************************************************************)
EXTENDS CompositePublication, FiniteSetTheorems, TLAPS

CONSTANT Commands    \* the commands that clients may send

\* What the proofs ask of the constants: None is no client and no record, the
\* workloads are sequences of commands, and commands name revisions of Revs.
WellPosed ==
    /\ None \notin Clients
    /\ \A body, t : Built(body, t) # None
    /\ Workloads \subseteq [Clients -> Seq(Commands)]
    /\ \A cmd \in Commands : cmd.kind \in {"REVISE", "ATTEST"} => cmd.rev \in Revs
    /\ PageLimit \in Nat

-----------------------------------------------------------------------------
(* The inductive invariant.                                                *)

Types ==
    /\ nextSequence \in Nat \ {0}
    /\ DOMAIN publications \subseteq 1..(nextSequence - 1)
    /\ DOMAIN revisions = Revs /\ DOMAIN universes = Revs /\ DOMAIN client = Clients
    /\ \A c \in Clients : client[c].queue \in Seq(Commands) /\ client[c].taken \in Nat

Locking == \A c \in Clients : client[c].pc = "saving" <=> lock = c

Saves == {"DEFINE", "REVISE", "ATTEST"}

\* What the holder of the lock found when it took it is still so.
Admitted(record, taken) ==
    IF record.body.kind = "DEFINE" THEN definition = None \/ definition = record
    ELSE /\ definition # None
         /\ IF revisions[record.body.rev] = None
            THEN taken # 0 /\ taken < nextSequence /\ \A n \in DOMAIN publications : n < taken
            ELSE revisions[record.body.rev] = record /\ taken = 0

\* A command in progress works on the record it built.
InProgress(s) ==
    /\ s.queue # <<>> /\ s.record # None /\ s.record.body = Head(s.queue)
    /\ s.pc = "saving" => s.record.body.kind \in {"DEFINE", "REVISE"}
    /\ s.pc = "saving" /\ s.outcome = "OK" => Admitted(s.record, s.taken)
    /\ s.pc = "saving" /\ s.outcome = "CONFLICT" => Stored(s.record.body) # None
    /\ s.pc \in {"saved", "conflict"} =>
          s.record.body.kind \in Saves /\ Stored(s.record.body) # None
    /\ s.pc = "saved" => Stored(s.record.body) = s.record

Sessions == \A c \in Clients : client[c].pc # "idle" => InProgress(client[c])

Publishing ==
    /\ \A r \in Revs : revisions[r] # None => definition # None /\ Published(r)
    /\ \A n \in DOMAIN publications : publications[n] \in Revs /\ revisions[publications[n]] # None
    /\ \A m, n \in DOMAIN publications : publications[m] = publications[n] => m = n

Reading ==
    /\ consumer.cursor \in DOMAIN publications \cup {0}
    /\ consumer.watermark \in DOMAIN publications \cup {0, None}
    /\ FeedMissesNothing

\* An answer that will stay true.
Kept(a) ==
    IF a.command.kind = "RECEIPT"
    THEN \E n \in DOMAIN receipts : receipts[n] = a.record /\ publications[n] = a.command.rev
    ELSE /\ a.command \in Commands /\ a.command.kind \in Saves
         /\ a.record # None /\ Stored(a.command) = a.record

Answering ==
    /\ DOMAIN receipts \subseteq DOMAIN publications
    /\ \A a \in answers : Kept(a)

FeedInv == Types /\ Locking /\ Sessions /\ Publishing /\ Reading /\ Answering

-----------------------------------------------------------------------------
(* The tables only grow.                                                   *)

\* A stored definition, revision, attestation, publication or receipt is never
\* changed or removed (the immutable-conflict checks of the composite store).
Grows ==
    /\ definition # None => definition' = definition
    /\ \A r \in Revs : revisions[r] # None => revisions'[r] = revisions[r]
    /\ \A r \in Revs : universes[r] # None => universes'[r] = universes[r]
    /\ DOMAIN publications \subseteq DOMAIN publications'
    /\ \A n \in DOMAIN publications : publications'[n] = publications[n]
    /\ DOMAIN receipts \subseteq DOMAIN receipts'
    /\ \A n \in DOMAIN receipts : receipts'[n] = receipts[n]

\* The table that a command reads and writes.
LEMMA StoredOf ==
    ASSUME NEW cmd
    PROVE  /\ cmd.kind = "DEFINE" => Stored(cmd) = definition /\ Stored(cmd)' = definition'
           /\ cmd.kind = "REVISE" => /\ Stored(cmd) = revisions[cmd.rev]
                                     /\ Stored(cmd)' = revisions'[cmd.rev]
           /\ cmd.kind = "ATTEST" => /\ Stored(cmd) = universes[cmd.rev]
                                     /\ Stored(cmd)' = universes'[cmd.rev]
    BY DEF Stored

\* A record that is stored stays stored.
LEMMA StoredStays ==
    ASSUME Grows, NEW cmd, cmd.kind \in Saves, cmd.kind \in {"REVISE", "ATTEST"} => cmd.rev \in Revs,
           Stored(cmd) # None
    PROVE  Stored(cmd)' = Stored(cmd)
<1>1. CASE cmd.kind = "DEFINE"
    BY <1>1 DEF Stored, Grows
<1>2. CASE cmd.kind = "REVISE"
    BY <1>2 DEF Stored, Grows
<1>3. CASE cmd.kind = "ATTEST"
    BY <1>3 DEF Stored, Grows
<1> QED
    BY <1>1, <1>2, <1>3 DEF Saves


\* A command in progress names a revision of Revs.
LEMMA RecordNamesRevision ==
    ASSUME WellPosed, FeedInv, NEW d \in Clients, client[d].pc # "idle"
    PROVE  /\ InProgress(client[d])
           /\ client[d].record.body \in Commands
           /\ client[d].record.body.kind \in {"REVISE", "ATTEST"} => client[d].record.body.rev \in Revs
<1>1. InProgress(client[d])
    BY DEF FeedInv, Sessions
<1>2. client[d].record.body \in Commands
    BY <1>1 DEF FeedInv, Types, InProgress
<1> QED
    BY <1>1, <1>2 DEF WellPosed

\* A command in progress is not disturbed by a step of somebody else.
LEMMA SessionKept ==
    ASSUME WellPosed, FeedInv, Grows, NEW d \in Clients, client'[d] = client[d],
           client[d].pc # "idle", nextSequence' \in Nat, nextSequence <= nextSequence',
           client[d].pc = "saving" => UNCHANGED <<definition, revisions, publications>>
    PROVE  InProgress(client[d])'
<1> DEFINE s == client[d]
<1>1. /\ InProgress(s)
      /\ s.record.body.kind \in {"REVISE", "ATTEST"} => s.record.body.rev \in Revs
    BY RecordNamesRevision
<1>2. s.record.body.kind \in Saves /\ Stored(s.record.body) # None
          => Stored(s.record.body)' = Stored(s.record.body)
    BY <1>1 DEF Stored, Grows, Saves
<1>3. s.pc = "saving" /\ s.outcome = "OK" => Admitted(s.record, s.taken)'
    <2> SUFFICES ASSUME s.pc = "saving", s.outcome = "OK"
                 PROVE  Admitted(s.record, s.taken)'
        OBVIOUS
    <2>1. Admitted(s.record, s.taken)
        BY <1>1 DEF InProgress
    <2>2. s.taken \in Nat /\ nextSequence \in Nat
        BY DEF FeedInv, Types
    <2> QED
        BY <2>1, <2>2 DEF Admitted
<1>4. s.pc = "saving" /\ s.outcome = "CONFLICT" => Stored(s.record.body)' # None
    BY <1>1, <1>2 DEF InProgress, Saves
<1> QED
    BY <1>1, <1>2, <1>3, <1>4 DEF InProgress

\* What was answered stays answered.
LEMMA AnswerKept ==
    ASSUME WellPosed, FeedInv, Grows, NEW a \in answers
    PROVE  Kept(a)'
<1>1. Kept(a)
    BY DEF FeedInv, Answering
<1>2. CASE a.command.kind = "RECEIPT"
    <2>1. PICK n \in DOMAIN receipts : receipts[n] = a.record /\ publications[n] = a.command.rev
        BY <1>1, <1>2 DEF Kept
    <2>2. n \in DOMAIN publications
        BY DEF FeedInv, Answering
    <2> QED
        BY <2>1, <2>2, <1>2 DEF Kept, Grows
<1>3. CASE a.command.kind # "RECEIPT"
    <2>1. /\ a.command \in Commands /\ a.command.kind \in Saves
          /\ a.record # None /\ Stored(a.command) = a.record
        BY <1>1, <1>3 DEF Kept
    <2>2. a.command.kind \in {"REVISE", "ATTEST"} => a.command.rev \in Revs
        BY <2>1 DEF WellPosed
    <2>3. Stored(a.command)' = Stored(a.command)
        BY <2>1, <2>2, StoredStays
    <2> QED
        BY <1>3, <2>1, <2>3 DEF Kept
<1> QED
    BY <1>2, <1>3

\* A consumer is not disturbed by numbers beyond all that are published.
LEMMA ReadingKept ==
    ASSUME FeedInv, Grows, UNCHANGED consumer,
           \A n \in DOMAIN publications' : n \in DOMAIN publications
               \/ (n \in Nat /\ n > 0 /\ \A m \in DOMAIN publications : m < n)
    PROVE  Reading'
<1>1. /\ consumer.cursor \in DOMAIN publications \cup {0}
      /\ consumer.watermark \in DOMAIN publications \cup {0, None}
      /\ FeedMissesNothing
      /\ DOMAIN publications \subseteq Nat
    BY DEF FeedInv, Reading, Types
<1>2. FeedMissesNothing'
    <2> SUFFICES ASSUME NEW n \in DOMAIN publications', n <= consumer.cursor
                 PROVE  publications'[n] \in consumer.seen
        BY DEF FeedMissesNothing
    <2>1. n \in DOMAIN publications
        BY <1>1
    <2> QED
        BY <1>1, <2>1 DEF Grows, FeedMissesNothing
<1> QED
    BY <1>1, <1>2 DEF Reading, Grows

-----------------------------------------------------------------------------
(* What the steps have in common.                                          *)

\* A step of client c: its own session is in order, the others are kept, and the
\* tables that the lock protects change only for its holder.
LEMMA ClientStep ==
    ASSUME WellPosed, FeedInv, Grows, NEW c \in Clients,
           DOMAIN client' = Clients, \A d \in Clients : d # c => client'[d] = client[d],
           client'[c].queue \in Seq(Commands), client'[c].taken \in Nat,
           client'[c].pc # "idle" => InProgress(client[c])',
           lock' = IF client'[c].pc = "saving" THEN c ELSE IF lock = c THEN None ELSE lock,
           client'[c].pc = "saving" => lock = None \/ lock = c,
           nextSequence' \in Nat, nextSequence <= nextSequence',
           DOMAIN publications' \subseteq 1..(nextSequence' - 1),
           DOMAIN revisions' = Revs, DOMAIN universes' = Revs,
           UNCHANGED <<definition, revisions, publications>> \/ lock = c
    PROVE  Types' /\ Locking' /\ Sessions'
<1>1. /\ nextSequence \in Nat \ {0}
      /\ \A d \in Clients : client[d].queue \in Seq(Commands) /\ client[d].taken \in Nat
      /\ \A d \in Clients : client[d].pc = "saving" <=> lock = d
    BY DEF FeedInv, Types, Locking
<1>2. Types'
    BY <1>1 DEF Types
<1>3. Locking'
    <2> SUFFICES ASSUME NEW d \in Clients
                 PROVE  client'[d].pc = "saving" <=> lock' = d
        BY DEF Locking
    <2>1. None # d /\ None # c
        BY DEF WellPosed
    <2>2. CASE d = c
        BY <2>1, <2>2, <1>1
    <2>3. CASE d # c
        BY <2>1, <2>3, <1>1
    <2> QED
        BY <2>2, <2>3
<1>4. Sessions'
    <2> SUFFICES ASSUME NEW d \in Clients, client'[d].pc # "idle"
                 PROVE  InProgress(client[d])'
        BY DEF Sessions
    <2>1. CASE d = c
        BY <2>1
    <2>2. CASE d # c
        <3>1. client'[d] = client[d] /\ client[d].pc # "idle"
            BY <2>2
        <3>2. client[d].pc = "saving" => UNCHANGED <<definition, revisions, publications>>
            BY <1>1, <2>2
        <3> QED
            BY <3>1, <3>2, SessionKept
    <2> QED
        BY <2>1, <2>2
<1> QED
    BY <1>2, <1>3, <1>4

\* Answers are kept, and a new one has to be kept from now on.
LEMMA AnswerStep ==
    ASSUME WellPosed, FeedInv, Grows, DOMAIN receipts' \subseteq DOMAIN publications',
           \A a \in answers' : a \in answers \/ Kept(a)'
    PROVE  Answering'
<1> SUFFICES ASSUME NEW a \in answers'
             PROVE  Kept(a)'
    BY DEF Answering
<1>1. CASE a \in answers
    BY <1>1, AnswerKept
<1>2. CASE a \notin answers
    BY <1>2
<1> QED
    BY <1>1, <1>2

\* A step that leaves the tables alone.
LEMMA TablesKept ==
    ASSUME FeedInv, UNCHANGED tables
    PROVE  /\ Grows /\ Publishing'
           /\ UNCHANGED <<definition, revisions, publications, universes, receipts>>
           /\ DOMAIN receipts' \subseteq DOMAIN publications'
           /\ DOMAIN revisions' = Revs /\ DOMAIN universes' = Revs
           /\ DOMAIN publications' \subseteq 1..(nextSequence - 1)
<1>1. UNCHANGED <<definition, revisions, publications, universes, receipts>>
    BY DEF tables
<1>2. Grows
    BY <1>1 DEF Grows
<1>3. Publishing'
    BY <1>1 DEF FeedInv, Publishing, Published
<1> QED
    BY <1>1, <1>2, <1>3 DEF FeedInv, Types, Answering

\* A client turns to its next command, or to the same one again.
LEMMA TurnStep ==
    ASSUME WellPosed, FeedInv, NEW c \in Clients, NEW q \in Seq(Commands), Turn(c, q),
           UNCHANGED tables, lock' = IF lock = c THEN None ELSE lock, UNCHANGED nextSequence
    PROVE  Types' /\ Locking' /\ Sessions'
<1>1. /\ DOMAIN client' = Clients /\ \A d \in Clients : d # c => client'[d] = client[d]
      /\ client'[c].queue = q /\ client'[c].pc = "idle" /\ client'[c].taken = 0
    BY DEF FeedInv, Types, Turn, Session
<1>2. nextSequence' \in Nat /\ nextSequence <= nextSequence' /\ nextSequence' = nextSequence
    BY DEF FeedInv, Types
<1> QED
    BY <1>1, <1>2, TablesKept, ClientStep

\* A step that leaves the tables and the consumer alone.
LEMMA QuietStep ==
    ASSUME WellPosed, FeedInv, UNCHANGED <<tables, consumer>>, Types', Locking', Sessions',
           \A a \in answers' : a \in answers \/ Kept(a)'
    PROVE  Grows /\ FeedInv'
<1>1. /\ Grows /\ Publishing' /\ DOMAIN receipts' \subseteq DOMAIN publications'
      /\ UNCHANGED publications
    BY TablesKept
<1>2. Reading'
    BY <1>1, ReadingKept
<1>3. Answering'
    BY <1>1, AnswerStep
<1> QED
    BY <1>1, <1>2, <1>3 DEF FeedInv

-----------------------------------------------------------------------------
(* The initial states, and one lemma per action.                           *)

LEMMA InitFeed == ASSUME WellPosed, Init PROVE FeedInv
<1>1. Types
    BY DEF WellPosed, Init, Types, Session
<1>2. Locking /\ Sessions
    BY DEF WellPosed, Init, Locking, Sessions, Session
<1>3. DOMAIN publications = {} /\ DOMAIN receipts = {}
    BY DEF Init
<1> QED
    BY <1>1, <1>2, <1>3
    DEF Init, FeedInv, Publishing, Published, Reading, FeedMissesNothing, Answering

\* The command of a client that turns away from it leaves everything in order.
LEMMA RefuseFeed ==
    ASSUME WellPosed, FeedInv, NEW c \in Clients, client[c].queue # <<>>, Refuse(c),
           UNCHANGED <<tables, nextSequence, consumer>>, lock' = IF lock = c THEN None ELSE lock
    PROVE  Grows /\ FeedInv'
<1>1. Tail(client[c].queue) \in Seq(Commands)
    BY DEF FeedInv, Types
<1>2. Types' /\ Locking' /\ Sessions'
    BY <1>1, TurnStep, Zenon DEF Refuse
<1> QED
    BY <1>2, QuietStep DEF Refuse

\* A client gets an answer that is stored.
LEMMA GiveFeed ==
    ASSUME WellPosed, FeedInv, NEW c \in Clients, client[c].queue # <<>>,
           NEW record, Give(c, record), record # None,
           Command(c).kind \in Saves, Stored(Command(c)) = record,
           UNCHANGED <<tables, nextSequence, lock, consumer>>, lock # c
    PROVE  Grows /\ FeedInv'
<1>1. Tail(client[c].queue) \in Seq(Commands) /\ Command(c) \in Commands
    BY DEF FeedInv, Types, Command
<1>2. Types' /\ Locking' /\ Sessions'
    BY <1>1, TurnStep, Zenon DEF Give
<1>3. ASSUME NEW a \in answers', a \notin answers
      PROVE  Kept(a)'
    <2>1. a.command = Command(c) /\ a.record = record
        BY <1>3 DEF Give
    <2>2. Stored(a.command)' = Stored(a.command)
        BY DEF Stored, tables
    <2> QED
        BY <1>1, <2>1, <2>2 DEF Kept, Saves
<1> QED
    BY <1>2, <1>3, QuietStep

\* The fields of a session after a step that continues it.
LEMMA ContinueFields ==
    ASSUME FeedInv, NEW c \in Clients, NEW pc, NEW record, NEW outcome, NEW taken,
           Continue(c, pc, record, outcome, taken)
    PROVE  /\ DOMAIN client' = Clients /\ \A d \in Clients : d # c => client'[d] = client[d]
           /\ client'[c].queue = client[c].queue /\ client'[c].queue \in Seq(Commands)
           /\ client'[c].pc = pc /\ client'[c].record = record
           /\ client'[c].outcome = outcome /\ client'[c].taken = taken
    BY DEF FeedInv, Types, Continue, Session

\* A step that continues a command without the lock and leaves the tables alone.
LEMMA ContinueFeed ==
    ASSUME WellPosed, FeedInv, NEW c \in Clients, NEW pc, NEW record, NEW outcome,
           Continue(c, pc, record, outcome, 0), pc # "saving", InProgress(client[c])',
           lock' = IF lock = c THEN None ELSE lock,
           UNCHANGED <<tables, nextSequence, answers, consumer>>
    PROVE  Grows /\ FeedInv'
<1>1. /\ DOMAIN client' = Clients /\ \A d \in Clients : d # c => client'[d] = client[d]
      /\ client'[c].queue \in Seq(Commands) /\ client'[c].pc = pc /\ client'[c].taken = 0
    BY ContinueFields
<1>2. nextSequence' \in Nat /\ nextSequence <= nextSequence' /\ nextSequence' = nextSequence
    BY DEF FeedInv, Types
<1>3. Types' /\ Locking' /\ Sessions'
    BY <1>1, <1>2, TablesKept, ClientStep
<1> QED
    BY <1>3, QuietStep

LEMMA BuildFeed == ASSUME WellPosed, FeedInv, NEW c \in Clients, Build(c) PROVE Grows /\ FeedInv'
<1>1. lock # c /\ client[c].queue # <<>>
    BY DEF Build, FeedInv, Locking
<1>2. CASE PrepareRefuses(Command(c))
    BY <1>1, <1>2, RefuseFeed DEF Build
<1>3. CASE ~PrepareRefuses(Command(c))
    <2>1. PICK t \in Instants : Continue(c, "built", Built(Command(c), t), None, 0)
        BY <1>3 DEF Build
    <2>2. /\ client'[c].queue = client[c].queue /\ client'[c].pc = "built"
          /\ client'[c].record = Built(Command(c), t)
        BY <2>1, ContinueFields
    <2>3. InProgress(client[c])'
        BY <1>1, <2>2 DEF WellPosed, InProgress, Built, Command
    <2> QED
        BY <1>1, <1>3, <2>1, <2>3, ContinueFeed DEF Build
<1> QED
    BY <1>2, <1>3

\* What a client finds when it takes the lock.
LEMMA OutcomeIsGrounded ==
    ASSUME WellPosed, FeedInv, NEW record, record.body.kind \in {"DEFINE", "REVISE"},
           record.body.kind = "REVISE" => record.body.rev \in Revs, NEW outcome,
           outcome = IF record.body.kind = "DEFINE" THEN InsertOrCompare(definition, record)
                     ELSE StoreRevision(record)
    PROVE  /\ outcome = "CONFLICT" => Stored(record.body) # None
           /\ outcome = "OK" /\ record.body.kind = "DEFINE" =>
                 definition = None \/ definition = record
           /\ outcome = "OK" /\ record.body.kind = "REVISE" =>
                 /\ definition # None
                 /\ revisions[record.body.rev] = None \/ revisions[record.body.rev] = record
<1>1. CASE record.body.kind = "DEFINE"
    BY <1>1 DEF InsertOrCompare, Stored
<1>2. CASE record.body.kind = "REVISE"
    BY <1>2 DEF InsertOrCompare, StoreRevision, Stored
<1> QED
    BY <1>1, <1>2

LEMMA BeginSaveFeed ==
    ASSUME WellPosed, FeedInv, NEW c \in Clients, BeginSave(c) PROVE Grows /\ FeedInv'
<1>0. PICK record : record = client[c].record
    OBVIOUS
<1>a. PICK outcome, taken :
        /\ outcome = IF record.body.kind = "DEFINE" THEN InsertOrCompare(definition, record)
                     ELSE StoreRevision(record)
        /\ taken = NumbersTaken(record, outcome)
    OBVIOUS
<1>1. /\ client[c].pc = "built" /\ record.body.kind \in {"DEFINE", "REVISE"} /\ lock = None
      /\ lock' = c /\ UNCHANGED <<tables, answers, consumer>>
    BY <1>0 DEF BeginSave, MayLock
<1>b. /\ nextSequence' = nextSequence + taken
      /\ Continue(c, "saving", record, outcome, IF taken = 2 THEN nextSequence ELSE 0)
    BY <1>0, <1>a DEF BeginSave
<1>2. /\ InProgress(client[c])
      /\ record.body.kind \in {"REVISE", "ATTEST"} => record.body.rev \in Revs
    BY <1>0, <1>1, RecordNamesRevision
<1>3. /\ taken \in 0..2 /\ nextSequence \in Nat \ {0}
      /\ DOMAIN publications \subseteq 1..(nextSequence - 1)
    BY <1>a DEF NumbersTaken, FeedInv, Types
<1>4. /\ DOMAIN client' = Clients /\ \A d \in Clients : d # c => client'[d] = client[d]
      /\ client'[c].queue = client[c].queue /\ client'[c].queue \in Seq(Commands)
      /\ client'[c].pc = "saving" /\ client'[c].record = record /\ client'[c].outcome = outcome
      /\ taken = 2 => client'[c].taken = nextSequence
      /\ taken # 2 => client'[c].taken = 0
    BY <1>b, ContinueFields
<1>5. UNCHANGED <<definition, revisions, publications, universes>>
    BY <1>1 DEF tables
<1>6. /\ outcome = "CONFLICT" => Stored(record.body) # None
      /\ outcome = "OK" /\ record.body.kind = "DEFINE" =>
            definition = None \/ definition = record
      /\ outcome = "OK" /\ record.body.kind = "REVISE" =>
            /\ definition # None
            /\ revisions[record.body.rev] = None \/ revisions[record.body.rev] = record
    BY <1>a, <1>1, <1>2, OutcomeIsGrounded
<1>7. client'[c].outcome = "OK" => Admitted(client[c].record, client[c].taken)'
    <2> SUFFICES ASSUME outcome = "OK"
                 PROVE  Admitted(client[c].record, client[c].taken)'
        BY <1>4
    <2>1. CASE record.body.kind = "DEFINE"
        BY <1>4, <1>5, <1>6, <2>1 DEF Admitted
    <2>2. CASE record.body.kind = "REVISE"
        <3>1. taken = IF revisions[record.body.rev] = None THEN 2 ELSE 1
            BY <1>a, <2>2 DEF NumbersTaken
        <3>2. revisions[record.body.rev] = None =>
                /\ client'[c].taken = nextSequence /\ nextSequence' = nextSequence + 2
                /\ \A n \in DOMAIN publications : n < nextSequence
            BY <1>b, <1>3, <1>4, <3>1
        <3>3. revisions[record.body.rev] # None => client'[c].taken = 0
            BY <1>4, <3>1
        <3> QED
            BY <1>3, <1>4, <1>5, <1>6, <2>2, <3>2, <3>3 DEF Admitted
    <2> QED
        BY <1>1, <2>1, <2>2
<1>8. Stored(client[c].record.body)' = Stored(record.body)
    BY <1>1, <1>4, <1>5, StoredOf
<1>9. InProgress(client[c])'
    <2>1. /\ client'[c].queue # <<>> /\ client'[c].record # None
          /\ client'[c].record.body = Head(client'[c].queue)
          /\ client'[c].record.body.kind \in {"DEFINE", "REVISE"}
        BY <1>0, <1>1, <1>2, <1>4 DEF InProgress
    <2>2. client'[c].outcome = "CONFLICT" => Stored(client[c].record.body)' # None
        BY <1>4, <1>6, <1>8
    <2>3. client'[c].pc = "saving"
        BY <1>4
    <2> QED
        BY <1>7, <2>1, <2>2, <2>3 DEF InProgress
<1>10. Types' /\ Locking' /\ Sessions'
    <2>1. /\ Grows /\ DOMAIN revisions' = Revs /\ DOMAIN universes' = Revs
          /\ DOMAIN publications' \subseteq 1..(nextSequence - 1)
        BY <1>1, TablesKept
    <2>2. /\ nextSequence' \in Nat /\ nextSequence <= nextSequence'
          /\ DOMAIN publications' \subseteq 1..(nextSequence' - 1)
        BY <1>b, <1>3, <2>1
    <2>3. /\ client'[c].queue \in Seq(Commands) /\ client'[c].taken \in Nat
          /\ client'[c].pc = "saving"
        BY <1>3, <1>4
    <2>4. DOMAIN client' = Clients /\ \A d \in Clients : d # c => client'[d] = client[d]
        BY <1>4
    <2> QED
        BY <1>1, <1>5, <1>9, <2>1, <2>2, <2>3, <2>4, ClientStep
<1> QED
    BY <1>1, <1>10, QuietStep

\* What the holder of the lock commits: a definition, a new revision together with
\* its publication, or the same revision again.
LEMMA CommitTables ==
    ASSUME WellPosed, FeedInv, NEW c \in Clients, Commit(c)
    PROVE  /\ Grows /\ Publishing' /\ DOMAIN revisions' = Revs
           /\ DOMAIN publications' \subseteq 1..(nextSequence - 1)
           /\ \A n \in DOMAIN publications' : n \in DOMAIN publications
                  \/ (n \in Nat /\ n > 0 /\ \A m \in DOMAIN publications : m < n)
           /\ Stored(client[c].record.body)' = client[c].record
<1>0. PICK record, r, taken :
        record = client[c].record /\ r = record.body.rev /\ taken = client[c].taken
    OBVIOUS
<1>1. /\ client[c].pc = "saving" /\ client[c].outcome = "OK"
      /\ client'[c].record = record
    BY <1>0 DEF Commit, FeedInv, Types, Continue, Session
<1>2. /\ InProgress(client[c])
      /\ record.body.kind \in {"REVISE", "ATTEST"} => r \in Revs
    BY <1>0, <1>1, RecordNamesRevision
<1>3. record # None /\ record.body.kind \in {"DEFINE", "REVISE"} /\ Admitted(record, taken)
    BY <1>0, <1>1, <1>2 DEF InProgress
<1>4. /\ nextSequence \in Nat \ {0} /\ DOMAIN publications \subseteq 1..(nextSequence - 1)
      /\ DOMAIN revisions = Revs /\ taken \in Nat
    BY <1>0 DEF FeedInv, Types
<1>5. CASE record.body.kind = "DEFINE"
    <2>1. definition' = record /\ UNCHANGED <<revisions, publications, universes, receipts>>
        BY <1>0, <1>5 DEF Commit
    <2>2. Grows
        BY <1>3, <1>5, <2>1 DEF Admitted, Grows
    <2>3. Publishing'
        BY <1>3, <2>1 DEF FeedInv, Publishing, Published
    <2> QED
        BY <1>0, <1>1, <1>4, <1>5, <2>1, <2>2, <2>3, StoredOf
<1>6. CASE record.body.kind = "REVISE"
    <2>1. /\ revisions' = [revisions EXCEPT ![r] = record] /\ r \in Revs
          /\ publications' = IF taken = 0 THEN publications ELSE With(publications, taken, r)
          /\ UNCHANGED <<definition, universes, receipts>>
        BY <1>0, <1>2, <1>6 DEF Commit, PublishRevision
    <2>2. /\ definition # None
          /\ revisions[r] = None => taken # 0 /\ taken < nextSequence
          /\ revisions[r] = None => \A n \in DOMAIN publications : n < taken
          /\ revisions[r] # None => revisions[r] = record /\ taken = 0
        BY <1>0, <1>3, <1>6 DEF Admitted
    <2>3. /\ DOMAIN revisions' = Revs /\ revisions'[r] = record
          /\ \A q \in Revs : q # r => revisions'[q] = revisions[q]
        BY <1>4, <2>1
    <2>4. Stored(client[c].record.body)' = record
        BY <1>0, <1>1, <1>6, <2>3, StoredOf
    <2>5. CASE revisions[r] # None
        <3>1. UNCHANGED publications /\ \A q \in Revs : revisions'[q] = revisions[q]
            BY <2>1, <2>2, <2>3, <2>5
        <3>2. Grows
            BY <2>1, <3>1 DEF Grows
        <3>3. Publishing'
            <4>1. \A q \in Revs : revisions'[q] # None => definition' # None /\ Published(q)'
                BY <2>1, <3>1 DEF FeedInv, Publishing, Published
            <4>2. \A n \in DOMAIN publications' :
                      publications'[n] \in Revs /\ revisions'[publications'[n]] # None
                BY <3>1 DEF FeedInv, Publishing
            <4>3. \A m, n \in DOMAIN publications' : publications'[m] = publications'[n] => m = n
                BY <3>1 DEF FeedInv, Publishing
            <4> QED
                BY <4>1, <4>2, <4>3 DEF Publishing
        <3> QED
            BY <1>0, <1>4, <2>3, <2>4, <3>1, <3>2, <3>3
    <2>6. CASE revisions[r] = None
        <3>1. /\ DOMAIN publications' = DOMAIN publications \cup {taken} /\ publications'[taken] = r
              /\ taken \notin DOMAIN publications
              /\ \A n \in DOMAIN publications : publications'[n] = publications[n]
            BY <1>4, <2>1, <2>2, <2>6 DEF With
        <3>2. Grows
            BY <2>1, <2>3, <2>6, <3>1, Zenon DEF Grows
        <3>3. Publishing'
            <4>1. \A q \in Revs : revisions'[q] # None => definition' # None /\ Published(q)'
                <5> SUFFICES ASSUME NEW q \in Revs, revisions'[q] # None
                             PROVE  \E n \in DOMAIN publications' : publications'[n] = q
                    BY <2>1, <2>2 DEF Published
                <5>1. CASE q = r
                    BY <3>1, <5>1
                <5>2. CASE q # r
                    <6>1. PICK n \in DOMAIN publications : publications[n] = q
                        BY <2>3, <5>2 DEF FeedInv, Publishing, Published
                    <6> QED
                        BY <3>1, <6>1
                <5> QED
                    BY <5>1, <5>2
            <4>2. \A n \in DOMAIN publications' :
                      publications'[n] \in Revs /\ revisions'[publications'[n]] # None
                BY <1>3, <2>1, <2>3, <3>1 DEF FeedInv, Publishing
            <4>3. \A n \in DOMAIN publications : publications[n] # r
                BY <2>6 DEF FeedInv, Publishing
            <4>4. \A m, n \in DOMAIN publications' : publications'[m] = publications'[n] => m = n
                BY <3>1, <4>3 DEF FeedInv, Publishing
            <4> QED
                BY <4>1, <4>2, <4>4 DEF Publishing
        <3>4. DOMAIN publications' \subseteq 1..(nextSequence - 1)
            BY <1>4, <2>2, <2>6, <3>1
        <3>5. \A n \in DOMAIN publications' : n \in DOMAIN publications
                  \/ (n \in Nat /\ n > 0 /\ \A m \in DOMAIN publications : m < n)
            BY <1>4, <2>2, <2>6, <3>1
        <3> QED
            BY <1>0, <2>3, <2>4, <3>2, <3>3, <3>4, <3>5
    <2> QED
        BY <2>5, <2>6
<1> QED
    BY <1>3, <1>5, <1>6

LEMMA CommitFeed ==
    ASSUME WellPosed, FeedInv, NEW c \in Clients, Commit(c) PROVE Grows /\ FeedInv'
<1>1. /\ client[c].pc = "saving" /\ client[c].outcome = "OK" /\ lock' = None
      /\ Continue(c, "saved", client[c].record, "OK", 0)
      /\ UNCHANGED <<universes, receipts, nextSequence, answers, consumer>>
    BY DEF Commit
<1>2. InProgress(client[c])
    BY <1>1, RecordNamesRevision
<1>3. /\ lock = c /\ nextSequence \in Nat /\ DOMAIN universes = Revs
      /\ DOMAIN receipts \subseteq DOMAIN publications
    BY <1>1 DEF FeedInv, Locking, Types, Answering
<1>4. /\ DOMAIN client' = Clients /\ \A d \in Clients : d # c => client'[d] = client[d]
      /\ client'[c].queue = client[c].queue /\ client'[c].queue \in Seq(Commands)
      /\ client'[c].pc = "saved" /\ client'[c].record = client[c].record /\ client'[c].taken = 0
    BY <1>1, ContinueFields
<1>5. InProgress(client[c])'
    <2>1. Stored(client[c].record.body)' = client'[c].record
        BY <1>4, CommitTables
    <2> QED
        BY <1>1, <1>2, <1>4, <2>1 DEF InProgress, Saves
<1>6. Types' /\ Locking' /\ Sessions'
    BY <1>1, <1>3, <1>4, <1>5, CommitTables, ClientStep
<1>7. Reading'
    BY <1>1, CommitTables, ReadingKept
<1>8. DOMAIN receipts' \subseteq DOMAIN publications'
    BY <1>1, <1>3, CommitTables DEF Grows
<1>9. Answering'
    BY <1>1, <1>8, CommitTables, AnswerStep
<1> QED
    BY <1>6, <1>7, <1>9, CommitTables DEF FeedInv

LEMMA RollbackFeed ==
    ASSUME WellPosed, FeedInv, NEW c \in Clients, Rollback(c) PROVE Grows /\ FeedInv'
<1>1. /\ client[c].pc = "saving" /\ client[c].outcome # "OK" /\ lock' = None /\ lock = c
      /\ UNCHANGED <<tables, nextSequence, consumer>>
    BY DEF Rollback, FeedInv, Locking
<1>2. InProgress(client[c])
    BY <1>1, RecordNamesRevision
<1>3. CASE client[c].outcome = "CONFLICT"
    <2>1. Continue(c, "conflict", client[c].record, "CONFLICT", 0) /\ UNCHANGED answers
        BY <1>3 DEF Rollback
    <2>2. /\ client'[c].queue = client[c].queue /\ client'[c].pc = "conflict"
          /\ client'[c].record = client[c].record
        BY <2>1, ContinueFields
    <2>3. Stored(client[c].record.body)' = Stored(client[c].record.body)
        BY <1>1, <2>2 DEF Stored, tables
    <2>4. InProgress(client[c])'
        BY <1>1, <1>2, <1>3, <2>2, <2>3, Zenon DEF InProgress, Saves
    <2> QED
        BY <1>1, <2>1, <2>4, ContinueFeed
<1>4. CASE client[c].outcome # "CONFLICT"
    BY <1>1, <1>2, <1>4, RefuseFeed, Zenon DEF Rollback, InProgress
<1> QED
    BY <1>3, <1>4

LEMMA SaveAttestationFeed ==
    ASSUME WellPosed, FeedInv, NEW c \in Clients, SaveAttestation(c) PROVE Grows /\ FeedInv'
<1>0. PICK record, r : record = client[c].record /\ r = record.body.rev
    OBVIOUS
<1>a. PICK outcome : outcome = InsertOrCompare(universes[r], record)
    OBVIOUS
<1>1. /\ client[c].pc = "built" /\ record.body.kind = "ATTEST"
      /\ UNCHANGED <<definition, revisions, publications, receipts, nextSequence, lock,
                     answers, consumer>>
    BY <1>0 DEF SaveAttestation
<1>b. universes' = IF universes[r] = None THEN [universes EXCEPT ![r] = record] ELSE universes
    BY <1>0, Zenon DEF SaveAttestation
<1>c. Continue(c, IF outcome = "OK" THEN "saved" ELSE "conflict", record, outcome, 0)
    BY <1>0, <1>a, Zenon DEF SaveAttestation
<1>d. lock # c
    BY <1>1 DEF FeedInv, Locking
<1>2. InProgress(client[c]) /\ r \in Revs
    BY <1>0, <1>1, RecordNamesRevision
<1>3. /\ nextSequence \in Nat /\ DOMAIN universes = Revs /\ DOMAIN revisions = Revs
      /\ DOMAIN publications \subseteq 1..(nextSequence - 1)
      /\ DOMAIN receipts \subseteq DOMAIN publications
    BY DEF FeedInv, Types, Answering
<1>4. /\ DOMAIN client' = Clients /\ \A d \in Clients : d # c => client'[d] = client[d]
      /\ client'[c].queue = client[c].queue /\ client'[c].queue \in Seq(Commands)
      /\ client'[c].pc \in {"saved", "conflict"} /\ (client'[c].pc = "saved" => outcome = "OK")
      /\ client'[c].record = record /\ client'[c].taken = 0
    BY <1>c, ContinueFields
<1>5. /\ DOMAIN universes' = Revs
      /\ \A q \in Revs : universes[q] # None => universes'[q] = universes[q]
      /\ universes[r] = None => universes'[r] = record
    BY <1>b, <1>2, <1>3
<1>6. Grows
    BY <1>1, <1>5 DEF Grows
<1>7. InProgress(client[c])'
    <2>1. record # None
        BY <1>0, <1>2 DEF InProgress
    <2>2. universes'[r] # None /\ (outcome = "OK" => universes'[r] = record)
        BY <1>a, <1>2, <1>5, <2>1 DEF InsertOrCompare
    <2>3. Stored(client[c].record.body)' = universes'[r]
        BY <1>0, <1>1, <1>4, StoredOf
    <2> QED
        BY <1>0, <1>1, <1>2, <1>4, <2>2, <2>3, Zenon DEF InProgress, Saves
<1>8. Types' /\ Locking' /\ Sessions'
    <2>1. client'[c].pc # "saving"
        BY <1>4
    <2>2. /\ lock' = IF client'[c].pc = "saving" THEN c ELSE IF lock = c THEN None ELSE lock
          /\ nextSequence' \in Nat /\ nextSequence <= nextSequence'
          /\ DOMAIN publications' \subseteq 1..(nextSequence' - 1) /\ DOMAIN revisions' = Revs
          /\ UNCHANGED <<definition, revisions, publications>>
        BY <1>1, <1>d, <1>3, <2>1
    <2>3. /\ DOMAIN client' = Clients /\ \A d \in Clients : d # c => client'[d] = client[d]
          /\ client'[c].queue \in Seq(Commands) /\ client'[c].taken \in Nat
        BY <1>4
    <2> QED
        BY <1>5, <1>6, <1>7, <2>1, <2>2, <2>3, ClientStep
<1>9. Publishing'
    BY <1>1 DEF FeedInv, Publishing, Published
<1>10. Reading'
    BY <1>1, <1>6, ReadingKept
<1>11. Answering'
    BY <1>1, <1>3, <1>6, AnswerStep
<1> QED
    BY <1>6, <1>8, <1>9, <1>10, <1>11 DEF FeedInv

LEMMA AnswerFeed == ASSUME WellPosed, FeedInv, NEW c \in Clients, Answer(c) PROVE Grows /\ FeedInv'
<1>1. InProgress(client[c]) /\ client[c].pc = "saved" /\ lock # c
    BY RecordNamesRevision DEF Answer, FeedInv, Locking
<1>2. /\ Command(c).kind \in Saves /\ Stored(Command(c)) = client[c].record
      /\ client[c].record # None /\ client[c].queue # <<>>
    BY <1>1 DEF InProgress, Command
<1> QED
    BY <1>1, <1>2, GiveFeed DEF Answer

LEMMA RereadFeed == ASSUME WellPosed, FeedInv, NEW c \in Clients, Reread(c) PROVE Grows /\ FeedInv'
<1>1. InProgress(client[c]) /\ client[c].pc = "conflict" /\ lock # c
    BY RecordNamesRevision DEF Reread, FeedInv, Locking
<1>2. /\ Command(c).kind \in Saves /\ Stored(Command(c)) # None
      /\ Command(c) = client[c].record.body /\ client[c].queue # <<>>
    BY <1>1 DEF InProgress, Command
<1>3. Give(c, Stored(Command(c))) \/ Refuse(c)
    BY <1>2, Zenon DEF Reread, OriginalAnswer
<1>4. UNCHANGED <<tables, nextSequence, lock, consumer>>
    BY DEF Reread
<1> QED
    BY <1>1, <1>2, <1>3, <1>4, GiveFeed, RefuseFeed, Zenon

LEMMA LoseFeed == ASSUME WellPosed, FeedInv, NEW c \in Clients, Lose(c) PROVE Grows /\ FeedInv'
<1>1. client[c].queue \in Seq(Commands)
    BY DEF FeedInv, Types
<1>2. Types' /\ Locking' /\ Sessions'
    BY <1>1, TurnStep DEF Lose
<1> QED
    BY <1>2, QuietStep DEF Lose

LEMMA AcknowledgeReceiptFeed ==
    ASSUME WellPosed, FeedInv, NEW c \in Clients, AcknowledgeReceipt(c) PROVE Grows /\ FeedInv'
<1>0. PICK cmd, n : cmd = Command(c) /\ n = NumberOf(cmd.rev)
    OBVIOUS
<1>1. /\ client[c].pc = "idle" /\ client[c].queue # <<>> /\ cmd.kind = "RECEIPT" /\ lock # c
      /\ UNCHANGED <<definition, revisions, publications, universes, nextSequence, lock, consumer>>
    BY <1>0, Zenon DEF AcknowledgeReceipt, FeedInv, Locking
<1>2. CASE Refuse(c) /\ UNCHANGED receipts
    BY <1>1, <1>2, RefuseFeed DEF tables
<1>3. ASSUME NEW record, Give(c, record), Published(cmd.rev),
             \/ n \notin DOMAIN receipts /\ receipts' = With(receipts, n, record)
             \/ n \in DOMAIN receipts /\ receipts[n] = record /\ UNCHANGED receipts
      PROVE  Grows /\ FeedInv'
    <2>1. n \in DOMAIN publications /\ publications[n] = cmd.rev
        BY <1>0, <1>3 DEF Published, NumberOf
    <2>2. /\ DOMAIN receipts' = DOMAIN receipts \cup {n} /\ receipts'[n] = record
          /\ \A m \in DOMAIN receipts : receipts'[m] = receipts[m]
        BY <1>3 DEF With
    <2>3. Grows
        BY <1>1, <2>2 DEF Grows
    <2>4. /\ nextSequence \in Nat /\ DOMAIN universes = Revs /\ DOMAIN revisions = Revs
          /\ DOMAIN publications \subseteq 1..(nextSequence - 1)
          /\ DOMAIN receipts \subseteq DOMAIN publications
        BY DEF FeedInv, Types, Answering
    <2>5. /\ DOMAIN client' = Clients /\ \A d \in Clients : d # c => client'[d] = client[d]
          /\ client'[c].queue \in Seq(Commands) /\ client'[c].pc = "idle" /\ client'[c].taken = 0
        BY <1>1, <1>3 DEF FeedInv, Types, Give, Turn, Session
    <2>6. Types' /\ Locking' /\ Sessions'
        BY <1>1, <2>3, <2>4, <2>5, ClientStep
    <2>7. Publishing'
        BY <1>1 DEF FeedInv, Publishing, Published
    <2>8. Reading'
        BY <1>1, <2>3, ReadingKept, Zenon
    <2>9. ASSUME NEW a \in answers', a \notin answers
          PROVE  Kept(a)'
        <3>1. a.command = cmd /\ a.record = record
            BY <1>0, <1>3, <2>9 DEF Give
        <3> QED
            BY <1>1, <2>1, <2>2, <3>1, Zenon DEF Kept
    <2>10. Answering'
        BY <1>1, <2>1, <2>2, <2>3, <2>4, <2>9, AnswerStep, Zenon
    <2> QED
        BY <2>3, <2>6, <2>7, <2>8, <2>10 DEF FeedInv
<1>4. PICK t \in Instants :
        \/ Refuse(c) /\ UNCHANGED receipts
        \/ /\ Published(cmd.rev)
           /\ Give(c, Built(cmd, t)) /\ n \notin DOMAIN receipts
           /\ receipts' = With(receipts, n, Built(cmd, t))
        \/ /\ Published(cmd.rev)
           /\ Give(c, receipts[n]) /\ n \in DOMAIN receipts /\ UNCHANGED receipts
    BY <1>0, Zenon DEF AcknowledgeReceipt
<1> QED
    BY <1>2, <1>3, <1>4

\* A step that leaves the tables, the clients and the lock alone.
LEMMA AsideStep ==
    ASSUME WellPosed, FeedInv, UNCHANGED <<tables, lock, client, answers>>,
           nextSequence' \in Nat, nextSequence <= nextSequence', Reading'
    PROVE  Grows /\ FeedInv'
<1>1. /\ Grows /\ Publishing' /\ DOMAIN receipts' \subseteq DOMAIN publications'
      /\ UNCHANGED <<definition, revisions, publications>>
      /\ DOMAIN revisions' = Revs /\ DOMAIN universes' = Revs
      /\ DOMAIN publications' \subseteq 1..(nextSequence - 1)
    BY TablesKept
<1>2. Types'
    BY <1>1 DEF FeedInv, Types
<1>3. Locking'
    BY DEF FeedInv, Locking
<1>4. Sessions'
    BY <1>1, SessionKept, Zenon DEF Sessions
<1>5. Answering'
    BY <1>1, AnswerStep
<1> QED
    BY <1>1, <1>2, <1>3, <1>4, <1>5 DEF FeedInv

LEMMA OtherTenantFeed == ASSUME WellPosed, FeedInv, OtherTenant PROVE Grows /\ FeedInv'
<1>1. nextSequence' \in Nat /\ nextSequence <= nextSequence'
    BY DEF OtherTenant, FeedInv, Types
<1>2. Reading'
    BY TablesKept, ReadingKept DEF OtherTenant
<1> QED
    BY <1>1, <1>2, AsideStep DEF OtherTenant

LEMMA ReadWatermarkFeed == ASSUME WellPosed, FeedInv, ReadWatermark PROVE Grows /\ FeedInv'
<1>1. UNCHANGED <<publications, nextSequence>> /\ nextSequence \in Nat
    BY DEF ReadWatermark, FeedInv, Types, tables
<1>2. PICK w \in DOMAIN publications \cup {0} :
        consumer' = [cursor |-> consumer.cursor, watermark |-> w, seen |-> consumer.seen]
    BY DEF ReadWatermark
<1>3. Reading'
    BY <1>1, <1>2 DEF FeedInv, Reading, FeedMissesNothing
<1> QED
    BY <1>1, <1>3, AsideStep DEF ReadWatermark

\* A page leaves out no row below its last one.
LEMMA PageIsPrefix ==
    ASSUME FeedInv, WellPosed, NEW last \in Page, NEW n \in Due, n <= last
    PROVE  n \in Page
<1> DEFINE Below(k) == {m \in Due : m < k}
<1>1. nextSequence - 1 \in Int /\ Due \subseteq 1..(nextSequence - 1) /\ last \in Due
    BY DEF FeedInv, Types, Due, Page
<1>2. IsFiniteSet(1..(nextSequence - 1))
    BY <1>1, FS_Interval
<1>3. IsFiniteSet(Below(last))
    BY <1>1, <1>2, FS_Subset, Zenon
<1>4. Below(n) \subseteq Below(last)
    <2> SUFFICES ASSUME NEW m \in Due, m < n
                 PROVE  m < last
        OBVIOUS
    <2>1. m \in Int /\ n \in Int /\ last \in Int
        BY <1>1
    <2> QED
        BY <2>1
<1>5. /\ IsFiniteSet(Below(n)) /\ Cardinality(Below(n)) <= Cardinality(Below(last))
    BY <1>3, <1>4, FS_Subset
<1>6. Cardinality(Below(n)) \in Nat /\ Cardinality(Below(last)) \in Nat
    BY <1>3, <1>5, FS_CardinalityType
<1>7. Cardinality(Below(last)) < PageLimit
    BY DEF Page
<1>8. Cardinality(Below(n)) < PageLimit
    <2> HIDE DEF Below
    <2> QED
        BY <1>5, <1>6, <1>7 DEF WellPosed
<1> QED
    BY <1>8 DEF Page

LEMMA ReadPageFeed == ASSUME WellPosed, FeedInv, ReadPage PROVE Grows /\ FeedInv'
<1>1. UNCHANGED <<publications, nextSequence>> /\ nextSequence \in Nat
    BY DEF ReadPage, FeedInv, Types, tables
<1>2. PICK last \in Page \cup {consumer.cursor} :
        consumer' = [cursor |-> last, watermark |-> None,
                     seen |-> consumer.seen \cup {publications[n] : n \in Page}]
    BY Zenon DEF ReadPage
<1>3. /\ consumer.cursor \in DOMAIN publications \cup {0} /\ FeedMissesNothing
      /\ consumer.watermark \in DOMAIN publications \cup {0}
      /\ DOMAIN publications \subseteq Nat
    <2>1. consumer.watermark # None
        BY DEF ReadPage
    <2>2. DOMAIN publications \subseteq Nat
        BY DEF FeedInv, Types
    <2> QED
        BY <2>1, <2>2 DEF FeedInv, Reading
<1>4. last \in DOMAIN publications \cup {0}
    BY <1>2, <1>3 DEF Page, Due
<1>5. ASSUME NEW n \in DOMAIN publications, n <= last
      PROVE  publications[n] \in consumer.seen \cup {publications[m] : m \in Page}
    <2>1. CASE n <= consumer.cursor
        BY <1>3, <2>1 DEF FeedMissesNothing
    <2>2. CASE ~(n <= consumer.cursor)
        <3>1. last \in Page
            BY <1>2, <1>5, <2>2
        <3>2. last \in Nat /\ n \in Nat /\ last <= consumer.watermark /\ consumer.watermark \in Nat
            BY <1>3, <1>4, <3>1 DEF Page, Due
        <3>3. n \in Due
            BY <1>3, <1>5, <2>2, <3>2 DEF Due
        <3>4. n \in Page
            BY <1>5, <3>1, <3>3, PageIsPrefix
        <3> QED
            BY <3>4
    <2> QED
        BY <2>1, <2>2
<1>6. FeedMissesNothing'
    BY <1>1, <1>2, <1>5 DEF FeedMissesNothing
<1>7. Reading'
    BY <1>1, <1>2, <1>4, <1>6 DEF Reading
<1> QED
    BY <1>1, <1>7, AsideStep DEF ReadPage

LEMMA StutterFeed == ASSUME WellPosed, FeedInv, UNCHANGED vars PROVE Grows /\ FeedInv'
<1>1. UNCHANGED <<tables, nextSequence, lock, client, answers, consumer>> /\ nextSequence \in Nat
    BY DEF vars, FeedInv, Types
<1>2. Reading'
    BY <1>1, TablesKept, ReadingKept
<1> QED
    BY <1>1, <1>2, AsideStep

\* Every step keeps the invariant, and the tables only grow.
LEMMA NextFeed == ASSUME WellPosed, FeedInv, [Next]_vars PROVE Grows /\ FeedInv'
<1>1. ASSUME NEW c \in Clients,
             \/ Build(c) \/ BeginSave(c) \/ Commit(c) \/ Rollback(c) \/ SaveAttestation(c)
             \/ Answer(c) \/ Reread(c) \/ Lose(c) \/ AcknowledgeReceipt(c)
      PROVE  Grows /\ FeedInv'
    BY <1>1, BuildFeed, BeginSaveFeed, CommitFeed, RollbackFeed, SaveAttestationFeed, AnswerFeed,
       RereadFeed, LoseFeed, AcknowledgeReceiptFeed
<1>2. CASE OtherTenant \/ ReadWatermark \/ ReadPage
    BY <1>2, OtherTenantFeed, ReadWatermarkFeed, ReadPageFeed
<1>3. CASE UNCHANGED vars
    BY <1>3, StutterFeed
<1> QED
    BY <1>1, <1>2, <1>3 DEF Next

-----------------------------------------------------------------------------
(* The theorems.                                                           *)

\* The invariant holds in every reachable state of the feed.
THEOREM FeedInvariant == ASSUME WellPosed PROVE Spec => []FeedInv
<1>1. Init => FeedInv
    BY InitFeed
<1>2. FeedInv /\ [Next]_vars => FeedInv'
    BY NextFeed
<1> QED
    BY <1>1, <1>2, PTL DEF Spec

\* Nothing that the composite store holds is ever changed or taken back, whatever
\* clients repeat, lose or contest.
THEOREM TablesOnlyGrow == ASSUME WellPosed PROVE Spec => [][Grows]_vars
<1>1. FeedInv /\ [Next]_vars => [Grows]_vars
    BY NextFeed
<1> QED
    BY <1>1, FeedInvariant, PTL DEF Spec

\* A consumer that moves its cursor from page to page misses no publication, for
\* any page limit and however reads and commits are interleaved.
THEOREM ConsumersMissNothing == ASSUME WellPosed PROVE Spec => []FeedMissesNothing
<1>1. FeedInv => FeedMissesNothing
    BY DEF FeedInv, Reading
<1> QED
    BY <1>1, FeedInvariant, PTL

\* The trigger and publish_revision publish a stored revision exactly once.
THEOREM PublishedExactlyOnce == ASSUME WellPosed PROVE Spec => []RevisionsPublishedOnce
<1>1. ASSUME FeedInv, NEW r \in Revs
      PROVE  Cardinality({n \in DOMAIN publications : publications[n] = r}) =
                 IF revisions[r] = None THEN 0 ELSE 1
    <2> DEFINE S == {n \in DOMAIN publications : publications[n] = r}
    <2>1. CASE revisions[r] = None
        <3>1. S = {}
            BY <1>1, <2>1 DEF FeedInv, Publishing
        <3> QED
            BY <2>1, <3>1, FS_EmptySet
    <2>2. CASE revisions[r] # None
        <3>1. PICK n \in DOMAIN publications : publications[n] = r
            BY <1>1, <2>2 DEF FeedInv, Publishing, Published
        <3>2. S = {n}
            BY <1>1, <3>1 DEF FeedInv, Publishing
        <3> QED
            BY <2>2, <3>2, FS_Singleton, Zenon
    <2> QED
        BY <2>1, <2>2
<1>2. FeedInv => RevisionsPublishedOnce
    BY <1>1 DEF RevisionsPublishedOnce, FeedInv, Publishing
<1> QED
    BY <1>2, FeedInvariant, PTL

\* Every answer to a command that saves or acknowledges is the stored record, so
\* a command that is sent twice or by two clients gets the same answer.
THEOREM AnswersStayStored == ASSUME WellPosed PROVE Spec => []AnswersAreStored
<1>1. FeedInv => AnswersAreStored
    BY DEF FeedInv, Answering, Kept, AnswersAreStored
<1> QED
    BY <1>1, FeedInvariant, PTL

=============================================================================
