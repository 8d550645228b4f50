------------------------ MODULE CompositePublication ------------------------
(***************************************************************************)
(* Composite definitions, membership revisions, their publication feed,    *)
(* universe attestations and consumer receipts of one tenant and one       *)
(* composite.  Clients run commands of DpmCompositeMembershipApplication-  *)
(* Service against the Postgres repository: a command builds a record with *)
(* a server time, opens a transaction (definitions and revisions take the  *)
(* tenant's advisory lock first), commits, and answers; a lost connection  *)
(* rolls the transaction back and a client may send its command again.     *)
(* A consumer pages through the feed with two statements per page.         *)
(*                                                                         *)
(* A content hash is the record itself.  Publication sequence numbers come *)
(* from an identity column shared by all tenants: a number that was taken  *)
(* is never given back.  Whether a correction stays in its window is the   *)
(* constant Corrects (CompositeRules models the calculation).              *)
(***************************************************************************)
EXTENDS Integers, Sequences, FiniteSets

CONSTANTS
    Clients,
    None,
    Revs,            \* membership revision names
    Instants,        \* server clock readings
    Workloads,       \* client -> commands it sends in turn, a set of functions
    Corrects,        \* pairs <<parent body, body>> inside the declared window
    MaxSequence,     \* bound on allocated sequence numbers
    MaxResends,      \* bound on commands sent again after a lost answer
    PageLimit        \* limit of a feed page

VARIABLES
    definition,      \* the stored definition, or None
    revisions,       \* rev -> stored revision, or None
    publications,    \* sequence number -> rev, a function on the published numbers
    universes,       \* rev -> stored universe attestation, or None
    receipts,        \* sequence number -> receipt of lotus-performance
    nextSequence,    \* the identity column of the publication table
    lock,            \* holder of the tenant's advisory lock, or None
    client,          \* client -> [queue, pc, record, outcome, taken]
    resends,
    answers,         \* set of [command, record] given to clients
    consumer         \* [cursor, watermark, seen]

tables == <<definition, revisions, publications, universes, receipts>>
vars == <<tables, nextSequence, lock, client, resends, answers, consumer>>

-----------------------------------------------------------------------------
Command(c) == Head(client[c].queue)

\* The record a command builds at server time t.
Built(cmd, t) == [body |-> cmd, at |-> t]

\* Equality of two records apart from the server time and the hash over it.
SameCommandExceptServerTime(original, candidate) == original.body = candidate.body

Stored(cmd) ==
    IF cmd.kind = "DEFINE" THEN definition
    ELSE IF cmd.kind = "REVISE" THEN revisions[cmd.rev]
    ELSE universes[cmd.rev]

Published(r) == \E n \in DOMAIN publications : publications[n] = r

\* A table with the row n added.
With(table, n, row) == [m \in DOMAIN table \cup {n} |-> IF m = n THEN row ELSE table[m]]

NumberOf(r) == CHOOSE n \in DOMAIN publications : publications[n] = r

-----------------------------------------------------------------------------
(* Building a record.  An attestation is first checked against the stored  *)
(* revision, in a read of its own.                                         *)

\* What the caller declares must agree with what the revision shows.
ValidatedDiscrepancies(posture, found) ==
    /\ posture = "COMPLETE" => found = {}
    /\ posture = "INCOMPLETE" => found # {}

Discrepancies(cmd) == IF revisions[cmd.rev].body.members = cmd.expected THEN {} ELSE {"MISMATCH"}

PrepareRefuses(cmd) ==
    cmd.kind = "ATTEST" /\
        \/ revisions[cmd.rev] = None
        \/ cmd.policy # revisions[cmd.rev].body.policy
        \/ ~ValidatedDiscrepancies(cmd.posture, Discrepancies(cmd))

Session(queue, pc, record, outcome, taken) ==
    [queue |-> queue, pc |-> pc, record |-> record, outcome |-> outcome, taken |-> taken]

\* The command of a client goes on to its next step.
Continue(c, pc, record, outcome, taken) ==
    client' = [client EXCEPT ![c] = Session(client[c].queue, pc, record, outcome, taken)]

\* The client turns to the commands of the queue.
Turn(c, queue) == client' = [client EXCEPT ![c] = Session(queue, "idle", None, None, 0)]

Give(c, record) ==
    /\ answers' = answers \cup {[command |-> Command(c), record |-> record]}
    /\ Turn(c, Tail(client[c].queue))

Refuse(c) ==
    /\ Turn(c, Tail(client[c].queue))
    /\ UNCHANGED answers

Build(c) ==
    /\ client[c].pc = "idle" /\ client[c].queue # <<>>
    /\ Command(c).kind # "RECEIPT"
    /\ IF PrepareRefuses(Command(c))
       THEN Refuse(c)
       ELSE \E t \in Instants :
              /\ Continue(c, "built", Built(Command(c), t), None, 0)
              /\ UNCHANGED answers
    /\ UNCHANGED <<tables, nextSequence, lock, resends, consumer>>

-----------------------------------------------------------------------------
(* Saving.  The outcome is computed on the committed tables once the lock  *)
(* is held: OK, CONFLICT (the immutable conflict) or REFUSED.              *)

InsertOrCompare(existing, record) ==
    IF existing = None \/ existing = record THEN "OK" ELSE "CONFLICT"

StoreRevision(record) ==
    LET r == record.body.rev
        parent == record.body.supersedes
    IN  IF definition = None THEN "REFUSED"
        ELSE IF revisions[r] # None THEN InsertOrCompare(revisions[r], record)
        ELSE IF parent = None THEN "OK"
        ELSE IF revisions[parent] = None THEN "REFUSED"
        ELSE IF <<revisions[parent].body.members, record.body.members>> \notin Corrects
        THEN "REFUSED" ELSE "OK"

\* A new revision takes a number in the insert trigger and another in
\* publish_revision, whose insert then does nothing; a replay takes one.
NumbersTaken(record, outcome) ==
    IF record.body.kind # "REVISE" \/ outcome # "OK" THEN 0
    ELSE IF revisions[record.body.rev] = None THEN 2 ELSE 1

\* Mutant: the advisory lock is taken per revision, not per tenant.
MayLockPerRevision(c) ==
    \A d \in {e \in Clients : client[e].pc = "saving"} :
        /\ client[c].record.body.kind = "REVISE" /\ client[d].record.body.kind = "REVISE"
        /\ client[c].record.body.rev # client[d].record.body.rev

MayLock(c) == lock = None

BeginSave(c) ==
    LET record == client[c].record
        outcome == IF record.body.kind = "DEFINE" THEN InsertOrCompare(definition, record)
                   ELSE StoreRevision(record)
        taken == NumbersTaken(record, outcome)
    IN  /\ client[c].pc = "built" /\ record.body.kind \in {"DEFINE", "REVISE"}
        /\ MayLock(c)
        /\ nextSequence + taken <= MaxSequence + 1
        /\ lock' = c
        /\ nextSequence' = nextSequence + taken
        /\ Continue(c, "saving", record, outcome, IF taken = 2 THEN nextSequence ELSE 0)
        /\ UNCHANGED <<tables, resends, answers, consumer>>

PublishRevision(r, n) == With(publications, n, r)

Commit(c) ==
    LET record == client[c].record
    IN  /\ client[c].pc = "saving" /\ client[c].outcome = "OK"
        /\ IF record.body.kind = "DEFINE"
           THEN definition' = record /\ UNCHANGED <<revisions, publications>>
           ELSE /\ revisions' = [revisions EXCEPT ![record.body.rev] = record]
                /\ publications' = IF client[c].taken = 0 THEN publications
                                   ELSE PublishRevision(record.body.rev, client[c].taken)
                /\ UNCHANGED definition
        /\ lock' = None
        /\ Continue(c, "saved", record, "OK", 0)
        /\ UNCHANGED <<universes, receipts, nextSequence, resends, answers, consumer>>

Rollback(c) ==
    /\ client[c].pc = "saving" /\ client[c].outcome # "OK"
    /\ lock' = None
    /\ IF client[c].outcome = "CONFLICT"
       THEN Continue(c, "conflict", client[c].record, "CONFLICT", 0) /\ UNCHANGED answers
       ELSE Refuse(c)
    /\ UNCHANGED <<tables, nextSequence, resends, consumer>>

\* An attestation is inserted or compared in one transaction without the lock.
SaveAttestation(c) ==
    LET record == client[c].record
        r == record.body.rev
        outcome == InsertOrCompare(universes[r], record)
    IN  /\ client[c].pc = "built" /\ record.body.kind = "ATTEST"
        /\ universes' = IF universes[r] = None THEN [universes EXCEPT ![r] = record] ELSE universes
        /\ Continue(c, IF outcome = "OK" THEN "saved" ELSE "conflict", record, outcome, 0)
        /\ UNCHANGED <<definition, revisions, publications, receipts, nextSequence, lock,
                       resends, answers, consumer>>

Answer(c) ==
    /\ client[c].pc = "saved"
    /\ Give(c, client[c].record)
    /\ UNCHANGED <<tables, nextSequence, lock, resends, consumer>>

\* Mutant: the record that lost is answered instead of the stored one.
AnswerOwn(c, original) == client[c].record

OriginalAnswer(c, original) == original

\* After a conflict the stored record is read again in a new transaction.
Reread(c) ==
    LET original == Stored(client[c].record.body)
    IN  /\ client[c].pc = "conflict"
        /\ IF /\ SameCommandExceptServerTime(original, client[c].record)
              /\ client[c].record.body.kind = "REVISE" => Published(client[c].record.body.rev)
           THEN Give(c, OriginalAnswer(c, original))
           ELSE Refuse(c)
        /\ UNCHANGED <<tables, nextSequence, lock, resends, consumer>>

\* The connection or the answer is lost: an open transaction rolls back, its
\* sequence numbers stay taken, and the client sends the command again.
Lose(c) ==
    /\ resends < MaxResends
    /\ client[c].pc \in {"built", "saving", "saved", "conflict"}
    /\ resends' = resends + 1
    /\ lock' = IF lock = c THEN None ELSE lock
    /\ Turn(c, client[c].queue)
    /\ UNCHANGED <<tables, nextSequence, answers, consumer>>

-----------------------------------------------------------------------------
(* Receipts and the feed.                                                  *)

\* A receipt names a publication and its content; the first one is kept.
AcknowledgeReceipt(c) ==
    /\ client[c].pc = "idle" /\ client[c].queue # <<>>
    /\ Command(c).kind = "RECEIPT"
    /\ \E t \in Instants :
         LET cmd == Command(c)
             n == NumberOf(cmd.rev)
             record == Built(cmd, t)
         IN  IF ~Published(cmd.rev) \/ cmd.members # revisions[cmd.rev].body.members
             THEN Refuse(c) /\ UNCHANGED receipts
             ELSE IF n \notin DOMAIN receipts
             THEN Give(c, record) /\ receipts' = With(receipts, n, record)
             ELSE IF receipts[n].body = cmd
             THEN Give(c, receipts[n]) /\ UNCHANGED receipts
             ELSE Refuse(c) /\ UNCHANGED receipts
    /\ UNCHANGED <<definition, revisions, publications, universes, nextSequence, lock,
                   resends, consumer>>

\* Other tenants take numbers of the shared identity column.
OtherTenant ==
    /\ nextSequence <= MaxSequence
    /\ nextSequence' = nextSequence + 1
    /\ UNCHANGED <<tables, lock, client, resends, answers, consumer>>

\* The greatest published number, 0 when there is none.
HighWatermark(w) ==
    /\ w \in DOMAIN publications \cup {0}
    /\ \A n \in DOMAIN publications : n <= w

ReadWatermark ==
    /\ consumer.watermark = None
    /\ \E w \in DOMAIN publications \cup {0} :
         /\ HighWatermark(w)
         /\ consumer' = [cursor |-> consumer.cursor, watermark |-> w, seen |-> consumer.seen]
    /\ UNCHANGED <<tables, nextSequence, lock, client, resends, answers>>

Due == {n \in DOMAIN publications : consumer.cursor < n /\ n <= consumer.watermark}

\* The rows after the cursor up to the watermark, in order, the first PageLimit of them.
Page == {n \in Due : Cardinality({m \in Due : m < n}) < PageLimit}

\* The cursor moves to the last row of the page.
ReadPage ==
    /\ consumer.watermark # None
    /\ \E last \in Page \cup {consumer.cursor} :
         /\ \A n \in Page : n <= last
         /\ consumer' = [cursor |-> last, watermark |-> None,
                         seen |-> consumer.seen \cup {publications[n] : n \in Page}]
    /\ UNCHANGED <<tables, nextSequence, lock, client, resends, answers>>

-----------------------------------------------------------------------------
Init ==
    /\ definition = None
    /\ revisions = [r \in Revs |-> None]
    /\ publications = <<>>
    /\ universes = [r \in Revs |-> None]
    /\ receipts = <<>>
    /\ nextSequence = 1
    /\ lock = None
    /\ \E load \in Workloads :
         client = [c \in Clients |-> Session(load[c], "idle", None, None, 0)]
    /\ resends = 0
    /\ answers = {}
    /\ consumer = [cursor |-> 0, watermark |-> None, seen |-> {}]

Next ==
    \/ \E c \in Clients :
         \/ Build(c) \/ BeginSave(c) \/ Commit(c) \/ Rollback(c) \/ SaveAttestation(c)
         \/ Answer(c) \/ Reread(c) \/ Lose(c) \/ AcknowledgeReceipt(c)
    \/ OtherTenant \/ ReadWatermark \/ ReadPage

Spec == Init /\ [][Next]_vars

-----------------------------------------------------------------------------
\* A consumer that has moved its cursor past a sequence number has seen every
\* publication up to it: allocation follows commit order under the advisory
\* lock, so no transaction commits a number below a number already listed.
FeedMissesNothing ==
    \A n \in DOMAIN publications : n <= consumer.cursor => publications[n] \in consumer.seen

\* The insert trigger and publish_revision together publish a stored revision
\* exactly once, and only stored revisions of a stored definition are published.
RevisionsPublishedOnce ==
    /\ \A r \in Revs :
         Cardinality({n \in DOMAIN publications : publications[n] = r}) =
             IF revisions[r] = None THEN 0 ELSE 1
    /\ \A r \in Revs : revisions[r] # None => definition # None

\* Every answered record is the one that is stored, so a command that is sent
\* twice, or by two clients at once, gets one answer whatever its server time.
AnswersAreStored ==
    \A a \in answers :
        IF a.command.kind = "RECEIPT"
        THEN \E n \in DOMAIN receipts : receipts[n] = a.record /\ publications[n] = a.command.rev
        ELSE Stored(a.command) = a.record

=============================================================================
