--------------------- MODULE CompositeEligibilityProofs ---------------------
(***************************************************************************)
(* Proofs about the governed months of a composite, for any clients,       *)
(* actors, commands, versions and months: rows are never changed or taken  *)
(* back, the approvals of a month are one chain published in order, an     *)
(* approved month rests on its authority, a reserved version is defined by *)
(* its finalization alone, and every answer is a stored row.               *)
(*                                                                         *)
(* A record is prepared from rows and saved later.  The argument is that   *)
(* what was found when it was prepared is still so when it is saved,       *)
(* because the tables only grow (Ready), and that what may have changed is *)
(* checked again by the transaction that saves it (Rows, Chains).          *)
(***************************************************************************)
EXTENDS CompositeEligibility, TLAPS

CONSTANT Commands    \* the commands that clients may send

\* What the proofs ask of the constants: None is no definition, the workloads
\* are sequences of commands, and commands name versions, months and times.
WellPosed ==
    /\ \A v, by, approval : Definition(v, by, approval) # None
    /\ Months \subseteq Int
    /\ Workloads \subseteq [Clients -> Seq(Commands)]
    /\ \A cmd \in Commands :
         /\ cmd.version \in Versions
         /\ cmd.op \in {"PROPOSE_POLICY", "EVALUATE", "SUBJECT"} => cmd.month \in Months
         /\ cmd.op \in {"ATTEST", "STAGE_EVALUATION"} => cmd.generated \in Int

-----------------------------------------------------------------------------
(* The inductive invariant.                                                *)

\* The names of revisions and evaluations.
Names ==
    {None, "m0"} \cup {cmd.rev : cmd \in Commands} \cup {cmd.parent : cmd \in Commands}
        \cup {cmd.target : cmd \in Commands} \cup {cmd.eval : cmd \in Commands}

RevisionRows == [rev : Names, parent : Names, eval : Names]

Types ==
    /\ now \in Nat
    /\ DOMAIN definitions = Versions /\ DOMAIN subject = Versions
    /\ DOMAIN finalization = Versions
    /\ published \in [Versions -> Seq(RevisionRows)]

\* A policy approval names a proposal of somebody else and came before its
\* month, unless a subject's policy was admitted as historical.
Authorized(a) ==
    /\ a.proposal \in policyProposals /\ a.proposal.month \in Months
    /\ a.by # a.proposal.by
    /\ a.at < a.proposal.month \/ (a.proposal.subject # None /\ a.proposal.historical)

\* An evaluation rests on an approved policy and on sources that were there.
Evaluated(p) ==
    /\ p.version \in Versions /\ p.month \in Months
    /\ p.target \in Names /\ p.parent \in Names /\ p.eval \in Names
    /\ p.at \in Nat /\ p.at <= now
    /\ p.policy \in policyApprovals /\ (p.policy.at < p.month \/ p.historical)
    /\ "generated" \in DOMAIN p.universe
    /\ p.universe.generated \in Int /\ p.universe.generated <= p.at
    /\ p.subject # None => /\ p.subject = subject[p.version]
                           /\ p.amends = None /\ p.parent = None

\* An approval of a month is of a stored evaluation of somebody else.
Approved(a) ==
    /\ a.proposal \in evaluationProposals
    /\ a.by # a.proposal.by /\ PublishableMonth(a.proposal.universe, a.proposal.month)
    /\ a.at >= a.proposal.at

\* A finalization rests on the approval of the version's subject.
Finalizes(f, v) ==
    /\ v \in Versions /\ f.definition # None
    /\ f.approval \in evaluationApprovals
    /\ f.approval.proposal.version = v
    /\ subject[v] # None /\ f.approval.proposal.subject = subject[v]

Rows ==
    /\ \A p \in policyProposals : p.month \in Months
    /\ \A a \in policyApprovals : Authorized(a)
    /\ \A a, b \in policyApprovals : a.proposal.month = b.proposal.month => a = b
    /\ \A p \in evaluationProposals : Evaluated(p)
    /\ \A a \in evaluationApprovals : Approved(a)
    /\ \A u \in universes : "generated" \in DOMAIN u /\ u.generated \in Int
    /\ \A v \in Versions : subject[v] # None => subject[v].version = v /\ subject[v].month \in Months

\* A version has a membership only once it is defined, and a reserved version
\* is defined by its finalization.
Reservations ==
    \A v \in Versions :
        /\ published[v] # <<>> => definitions[v] # None
        /\ finalization[v] # None =>
             /\ Finalizes(finalization[v], v)
             /\ definitions[v] = finalization[v].definition
             /\ published[v] # <<>> /\ published[v][1].rev = finalization[v].approval.proposal.target
             /\ finalization[v].approval.proposal.universe \in universes
        /\ subject[v] # None => ((definitions[v] # None) <=> (finalization[v] # None))

\* An approved month of the legacy path stands on the revision it evaluated.
Stands(a) ==
    \E i \in PublishedAt(a) : i > 1 /\ published[a.proposal.version][i - 1].rev = a.proposal.parent

\* What an amendment amends.
Amends(a, b) ==
    /\ b.proposal.month = a.proposal.month /\ b.proposal.version = a.proposal.version
    /\ b.proposal.eval = a.proposal.amends /\ b.proposal.subject = None
    /\ PublishedBefore(b, a)

Later(b, a) ==
    /\ a.proposal.amends # None /\ a.proposal.version = b.proposal.version
    /\ b.proposal.month > a.proposal.month

Chains ==
    /\ \A v \in Versions : \A i, j \in DOMAIN published[v] :
         published[v][i].rev = published[v][j].rev => i = j
    /\ \A a \in evaluationApprovals : a.proposal.subject = None => Stands(a)
    /\ \A a \in evaluationApprovals : \E root \in evaluationApprovals :
         root.proposal.month = a.proposal.month /\ root.proposal.amends = None
    /\ \A a, b \in evaluationApprovals :
         a.proposal.month = b.proposal.month /\ a.proposal.amends = b.proposal.amends => a = b
    /\ \A a \in evaluationApprovals :
         a.proposal.amends # None => \E b \in evaluationApprovals : Amends(a, b)
    /\ \A a, b \in evaluationApprovals :
         Later(b, a) => b.proposal.subject = None /\ PublishedBefore(a, b)

\* What a prepared record still rests on when it is saved.
Ready(cmd, r) ==
    /\ cmd.op = "PROPOSE_POLICY" => r.month \in Months
    /\ cmd.op = "APPROVE_POLICY" => Authorized(r)
    /\ cmd.op = "EVALUATE" => Evaluated(r) /\ r.subject = None
    /\ cmd.op = "APPROVE" => Approved(r) /\ r.proposal.subject = None
    /\ cmd.op = "SUBJECT" => r.version \in Versions /\ r.month \in Months
    /\ cmd.op = "STAGE_POLICY" => r.month \in Months
    /\ cmd.op = "STAGE_POLICY_APPROVAL" => Authorized(r)
    /\ cmd.op = "STAGE_EVALUATION" => Evaluated(r) /\ r.subject # None
    /\ cmd.op = "STAGE_APPROVAL" => /\ Approved(r) /\ r.proposal.subject # None
                                    /\ r.proposal.version = cmd.version
    /\ cmd.op = "FINALIZE" => Finalizes(r, r.definition.version)

Session(s) ==
    /\ s.queue \in Seq(Commands)
    /\ s.record # None => s.queue # <<>> /\ Ready(Head(s.queue), s.record)
    /\ s.answer # None => Stored(s.answer)

Sessions == DOMAIN client = Clients /\ \A c \in Clients : Session(client[c])

Tables == Types /\ Rows /\ Reservations /\ Chains

MonthsInv == Tables /\ Sessions

-----------------------------------------------------------------------------
(* Rows are never changed or taken back.                                   *)

\* No step changes or removes a stored proposal, approval, universe, subject,
\* finalization, definition or published revision (ON CONFLICT DO NOTHING and
\* the immutable-conflict checks of the composite stores).
Grows ==
    /\ now <= now'
    /\ policyProposals \subseteq policyProposals' /\ policyApprovals \subseteq policyApprovals'
    /\ evaluationProposals \subseteq evaluationProposals'
    /\ evaluationApprovals \subseteq evaluationApprovals' /\ universes \subseteq universes'
    /\ \A v \in Versions :
         /\ subject[v] # None => subject'[v] = subject[v]
         /\ finalization[v] # None => finalization'[v] = finalization[v]
         /\ definitions[v] # None => definitions'[v] = definitions[v]
         /\ \A i \in DOMAIN published[v] :
              i \in DOMAIN published'[v] /\ published'[v][i] = published[v][i]

\* A row that is stored stays stored.
LEMMA StoredKept ==
    ASSUME Grows, NEW x, x # None, Stored(x)
    PROVE  Stored(x)'
<1>1. CASE x \in policyProposals \cup policyApprovals \cup evaluationProposals
                   \cup evaluationApprovals \cup universes
  BY <1>1, Zenon DEF Grows, Stored
<1>2. CASE \E v \in Versions : x \in {subject[v], finalization[v], definitions[v]}
  BY <1>2, Zenon DEF Grows, Stored
<1>3. CASE \E v \in Versions : \E i \in DOMAIN published[v] : published[v][i] = x
  BY <1>3 DEF Grows, Stored
<1> QED
  BY <1>1, <1>2, <1>3, Zenon DEF Stored

LEMMA AuthorizedKept ==
    ASSUME Grows, NEW a, Authorized(a)
    PROVE  Authorized(a)'
BY Zenon DEF Grows, Authorized

LEMMA EvaluatedKept ==
    ASSUME Grows, now \in Nat, now' \in Nat, NEW p, Evaluated(p)
    PROVE  Evaluated(p)'
<1>1. p.version \in Versions /\ p.at \in Nat /\ p.at <= now
  BY Zenon DEF Evaluated
<1>2. p.at <= now'
  BY <1>1 DEF Grows
<1>3. p.subject # None => p.subject = subject'[p.version]
  BY <1>1, Zenon DEF Grows, Evaluated
<1>4. p.policy \in policyApprovals'
  BY Zenon DEF Grows, Evaluated
<1> QED
  BY <1>2, <1>3, <1>4, Zenon DEF Evaluated

LEMMA ApprovedKept ==
    ASSUME Grows, NEW a, Approved(a)
    PROVE  Approved(a)'
BY Zenon DEF Grows, Approved, PublishableMonth

LEMMA FinalizesKept ==
    ASSUME Grows, NEW f, NEW v, Finalizes(f, v)
    PROVE  Finalizes(f, v)'
BY Zenon DEF Grows, Finalizes

\* What a prepared record rests on stays.
LEMMA ReadyKept ==
    ASSUME Grows, now \in Nat, now' \in Nat, NEW cmd, NEW r, Ready(cmd, r)
    PROVE  Ready(cmd, r)'
<1>1. Authorized(r) => Authorized(r)'
  BY AuthorizedKept, Zenon
<1>2. Evaluated(r) => Evaluated(r)'
  BY EvaluatedKept, Zenon
<1>3. Approved(r) => Approved(r)'
  BY ApprovedKept, Zenon
<1>4. Finalizes(r, r.definition.version) => Finalizes(r, r.definition.version)'
  BY FinalizesKept, Zenon
<1> QED
  BY <1>1, <1>2, <1>3, <1>4, Zenon DEF Ready

-----------------------------------------------------------------------------
(* Steps of a client.                                                      *)

\* A lookup that finds something finds a row.
LEMMA Found ==
    ASSUME NEW S, OneOrNone(S) # None
    PROVE  OneOrNone(S) \in S
BY Zenon DEF OneOrNone, One

\* The sessions of the other clients survive a step of one.
LEMMA SessionStep ==
    ASSUME Sessions, Grows, now \in Nat, now' \in Nat, NEW c \in Clients, NEW s,
           client' = [client EXCEPT ![c] = s], Session(s)'
    PROVE  Sessions'
<1>1. DOMAIN client' = Clients /\ client'[c] = s
  BY Zenon DEF Sessions
<1>2. ASSUME NEW d \in Clients, d # c
      PROVE  Session(client[d])'
  <2>1. client'[d] = client[d] /\ Session(client[d])
    BY <1>2, Zenon DEF Sessions
  <2>2. PICK t : t = client[d]
    BY Zenon
  <2>3. t.record # None => t.queue # <<>> /\ Ready(Head(t.queue), t.record)'
    BY <2>1, <2>2, ReadyKept, Zenon DEF Session
  <2>4. t.answer # None => Stored(t.answer)'
    BY <2>1, <2>2, StoredKept, Zenon DEF Session
  <2>5. t.queue \in Seq(Commands)
    BY <2>1, <2>2, Zenon DEF Session
  <2>6. client'[d] = t
    BY <2>1, <2>2, Zenon
  <2> QED
    BY <2>3, <2>4, <2>5, <2>6, Zenon DEF Session
<1>3. Session(client[c])'
  BY <1>1, Zenon DEF Session
<1>4. \A d \in Clients : Session(client[d])'
  BY <1>2, <1>3, Zenon
<1> QED
  BY <1>1, <1>4, Zenon DEF Sessions

\* A command is answered with a stored row, or refused.
LEMMA AnsweredStep ==
    ASSUME Sessions, Grows, now \in Nat, now' \in Nat, NEW c \in Clients,
           client[c].queue # <<>>, NEW a, Answered(c, a), a # None => Stored(a)'
    PROVE  Sessions'
<1>1. PICK s : s = [queue |-> Tail(client[c].queue), record |-> None, answer |-> a]
  BY Zenon
<1>2. s.queue \in Seq(Commands) /\ s.record = None /\ s.answer = a
  BY <1>1 DEF Sessions, Session
<1>3. Session(s)'
  BY <1>2, Zenon DEF Session
<1>4. client' = [client EXCEPT ![c] = s]
  BY <1>1, Zenon DEF Answered
<1> QED
  BY <1>3, <1>4, SessionStep, Zenon

\* A record is prepared for the next command.
LEMMA PreparedStep ==
    ASSUME Sessions, Grows, now \in Nat, now' \in Nat, NEW c \in Clients,
           client[c].queue # <<>>, NEW r, Prepared(c, r),
           NEW cmd, cmd = Command(c), Ready(cmd, r)'
    PROVE  Sessions'
<1>1. PICK s : s = [queue |-> client[c].queue, record |-> r, answer |-> None]
  BY Zenon
<1>2. s.queue \in Seq(Commands) /\ s.queue # <<>> /\ Head(s.queue) = cmd
      /\ s.record = r /\ s.answer = None
  BY <1>1, Zenon DEF Sessions, Session, Command
<1>3. Session(s)'
  BY <1>2, Zenon DEF Session
<1>4. client' = [client EXCEPT ![c] = s]
  BY <1>1, Zenon DEF Prepared
<1> QED
  BY <1>3, <1>4, SessionStep, Zenon

\* The command of a client is one of Commands.
LEMMA CommandType ==
    ASSUME WellPosed, Sessions, NEW c \in Clients, client[c].queue # <<>>
    PROVE  /\ Command(c) \in Commands /\ Command(c).version \in Versions
           /\ Command(c).op \in {"PROPOSE_POLICY", "EVALUATE", "SUBJECT"} => Command(c).month \in Months
           /\ Command(c).op \in {"ATTEST", "STAGE_EVALUATION"} => Command(c).generated \in Int
           /\ Command(c).rev \in Names /\ Command(c).parent \in Names
           /\ Command(c).target \in Names /\ Command(c).eval \in Names
<1>1. Command(c) \in Commands
  BY DEF Sessions, Session, Command
<1> QED
  BY <1>1, Zenon DEF WellPosed, Names

-----------------------------------------------------------------------------
(* Steps that prepare a record or answer without saving.                   *)

\* A step that leaves the tables alone.
LEMMA TablesSame ==
    ASSUME Tables, UNCHANGED <<now, tables>>
    PROVE  Tables' /\ Grows /\ now \in Nat /\ now' \in Nat
<1>1. /\ now' = now /\ definitions' = definitions /\ published' = published
      /\ universes' = universes /\ policyProposals' = policyProposals
      /\ policyApprovals' = policyApprovals /\ evaluationProposals' = evaluationProposals
      /\ evaluationApprovals' = evaluationApprovals /\ subject' = subject
      /\ finalization' = finalization
  BY Zenon DEF tables
<1>2. now \in Nat /\ now' \in Nat /\ now <= now'
  BY <1>1 DEF Tables, Types
<1>3. Grows
  BY <1>1, <1>2, Zenon DEF Grows
<1>4. Types'
  BY <1>1, Zenon DEF Tables, Types
<1>5. Rows'
  BY <1>1, <1>2, <1>3, AuthorizedKept, EvaluatedKept, ApprovedKept, Zenon DEF Tables, Rows
<1>6. Reservations'
  BY <1>1, Zenon DEF Tables, Reservations, Finalizes
<1>7. Chains'
  BY <1>1 DEF Tables, Chains, Stands, Amends, Later, PublishedBefore, PublishedAt
<1> QED
  BY <1>2, <1>3, <1>4, <1>5, <1>6, <1>7, Zenon DEF Tables

LEMMA AnswerStep ==
    ASSUME MonthsInv, UNCHANGED <<now, tables>>, NEW c \in Clients, client[c].queue # <<>>,
           NEW a, Answered(c, a), a # None => Stored(a)
    PROVE  MonthsInv' /\ Grows
<1>1. Tables' /\ Grows /\ now \in Nat /\ now' \in Nat
  BY TablesSame, Zenon DEF MonthsInv
<1>2. a # None => Stored(a)'
  BY <1>1, StoredKept, Zenon
<1> QED
  BY <1>1, <1>2, AnsweredStep, Zenon DEF MonthsInv

LEMMA RefuseStep ==
    ASSUME MonthsInv, UNCHANGED <<now, tables>>, NEW c \in Clients, client[c].queue # <<>>,
           Refused(c)
    PROVE  MonthsInv' /\ Grows
BY AnswerStep, Zenon DEF Refused

\* A retained row answers the command that repeats it.
LEMMA ReplayStep ==
    ASSUME MonthsInv, UNCHANGED <<now, tables>>, NEW c \in Clients, client[c].queue # <<>>,
           NEW a, NEW same, Replay(c, a, same), a # None => Stored(a)
    PROVE  MonthsInv' /\ Grows
BY AnswerStep, RefuseStep, Zenon DEF Replay

LEMMA PrepareStep ==
    ASSUME MonthsInv, UNCHANGED <<now, tables>>, NEW c \in Clients, client[c].queue # <<>>,
           NEW r, Prepared(c, r), NEW cmd, cmd = Command(c), Ready(cmd, r)
    PROVE  MonthsInv' /\ Grows
<1>1. Tables' /\ Grows /\ now \in Nat /\ now' \in Nat
  BY TablesSame, Zenon DEF MonthsInv
<1>2. Ready(cmd, r)'
  BY <1>1, ReadyKept, Zenon
<1> QED
  BY <1>1, <1>2, PreparedStep, Zenon DEF MonthsInv

\* Lookups find rows of the tables.
LEMMA Lookups ==
    /\ \A v, m, r, s : PolicyProposal(v, m, r, s) # None =>
         /\ PolicyProposal(v, m, r, s) \in policyProposals
         /\ PolicyProposal(v, m, r, s).version = v /\ PolicyProposal(v, m, r, s).month = m
         /\ PolicyProposal(v, m, r, s).rev = r /\ PolicyProposal(v, m, r, s).subject = s
    /\ \A v, m, s : PolicyApproval(v, m, s) # None =>
         /\ PolicyApproval(v, m, s) \in policyApprovals
         /\ PolicyApproval(v, m, s).proposal.version = v
         /\ PolicyApproval(v, m, s).proposal.month = m
         /\ PolicyApproval(v, m, s).proposal.subject = s
    /\ \A v, e, s : Proposal(v, e, s) # None =>
         /\ Proposal(v, e, s) \in evaluationProposals
         /\ Proposal(v, e, s).version = v /\ Proposal(v, e, s).eval = e
         /\ Proposal(v, e, s).subject = s
    /\ \A v, e, s : Approval(v, e, s) # None =>
         /\ Approval(v, e, s) \in evaluationApprovals
         /\ Approval(v, e, s).proposal.version = v /\ Approval(v, e, s).proposal.eval = e
         /\ Approval(v, e, s).proposal.subject = s
    /\ \A v, r, n : Universe(v, r, n) # None => Universe(v, r, n) \in universes
<1>1. ASSUME NEW v, NEW m, NEW r, NEW s, PolicyProposal(v, m, r, s) # None
      PROVE  PolicyProposal(v, m, r, s) \in
                {p \in policyProposals : p.version = v /\ p.month = m /\ p.rev = r /\ p.subject = s}
  BY <1>1, Found, Zenon DEF PolicyProposal
<1>2. ASSUME NEW v, NEW m, NEW s, PolicyApproval(v, m, s) # None
      PROVE  PolicyApproval(v, m, s) \in
                {a \in policyApprovals : a.proposal.version = v /\ a.proposal.month = m
                                         /\ a.proposal.subject = s}
  BY <1>2, Found, Zenon DEF PolicyApproval
<1>3. ASSUME NEW v, NEW e, NEW s, Proposal(v, e, s) # None
      PROVE  Proposal(v, e, s) \in
                {p \in evaluationProposals : p.version = v /\ p.eval = e /\ p.subject = s}
  BY <1>3, Found, Zenon DEF Proposal
<1>4. ASSUME NEW v, NEW e, NEW s, Approval(v, e, s) # None
      PROVE  Approval(v, e, s) \in
                {a \in evaluationApprovals : a.proposal.version = v /\ a.proposal.eval = e
                                             /\ a.proposal.subject = s}
  BY <1>4, Found, Zenon DEF Approval
<1>5. ASSUME NEW v, NEW r, NEW n, Universe(v, r, n) # None
      PROVE  Universe(v, r, n) \in {u \in universes : u.version = v /\ u.rev = r /\ u.name = n}
  BY <1>5, Found, Zenon DEF Universe
<1> QED
  BY <1>1, <1>2, <1>3, <1>4, <1>5

LEMMA PreparePolicyProposalStep ==
    ASSUME WellPosed, MonthsInv, NEW c \in Clients, PreparePolicyProposal(c)
    PROVE  MonthsInv' /\ Grows
<1>1. PICK cmd : cmd = Command(c)
  BY Zenon
<1>2. PICK record : record = [version |-> cmd.version, month |-> cmd.month, rev |-> cmd.rev,
                   subject |-> None, historical |-> FALSE, by |-> Actor[c], at |-> now]
  BY Zenon
<1>3. PICK retained : retained = PolicyProposal(cmd.version, cmd.month, cmd.rev, None)
  BY Zenon
<1>4. client[c].queue # <<>> /\ cmd.op = "PROPOSE_POLICY" /\ UNCHANGED <<now, tables>>
  BY <1>1, Zenon DEF PreparePolicyProposal, May
<1>5. Ready(cmd, record)
  BY <1>1, <1>2, <1>4, CommandType, Zenon DEF Ready, MonthsInv
<1>6. retained # None => Stored(retained)
  BY <1>3, Lookups, Zenon DEF Stored
<1>7. Refused(c) \/ Replay(c, retained, retained.by = Actor[c]) \/ Prepared(c, record)
  BY <1>1, <1>2, <1>3, Zenon DEF PreparePolicyProposal
<1> QED
  BY <1>1, <1>4, <1>5, <1>6, <1>7, RefuseStep, ReplayStep, PrepareStep, Zenon

LEMMA PreparePolicyApprovalStep ==
    ASSUME WellPosed, MonthsInv, NEW c \in Clients, PreparePolicyApproval(c)
    PROVE  MonthsInv' /\ Grows
<1>1. PICK cmd : cmd = Command(c)
  BY Zenon
<1>2. PICK proposal : proposal = PolicyProposal(cmd.version, cmd.month, cmd.rev, None)
  BY Zenon
<1>3. PICK retained : retained = PolicyApproval(cmd.version, cmd.month, None)
  BY Zenon
<1>4. client[c].queue # <<>> /\ cmd.op = "APPROVE_POLICY" /\ UNCHANGED <<now, tables>>
  BY <1>1, Zenon DEF PreparePolicyApproval, May
<1>5. PICK record : record = [proposal |-> proposal, by |-> Actor[c], at |-> now]
  BY Zenon
<1>6. ASSUME proposal # None, Actor[c] # proposal.by, Prospective(cmd.month, now)
      PROVE  Ready(cmd, record)
  <2>1. proposal \in policyProposals /\ proposal.month = cmd.month
    BY <1>2, <1>6, Lookups
  <2>2. Authorized(record)
    BY <1>5, <1>6, <2>1, Zenon DEF Authorized, Prospective, MonthsInv, Tables, Rows
  <2> QED
    BY <1>4, <2>2, Zenon DEF Ready
<1>7. retained # None => Stored(retained)
  BY <1>3, Lookups, Zenon DEF Stored
<1>8. \/ Refused(c)
      \/ Replay(c, retained, retained.proposal = proposal /\ retained.by = Actor[c])
      \/ /\ proposal # None /\ Actor[c] # proposal.by /\ Prospective(cmd.month, now)
         /\ Prepared(c, record)
  BY <1>1, <1>2, <1>3, <1>5, Zenon DEF PreparePolicyApproval
<1> QED
  BY <1>1, <1>4, <1>6, <1>7, <1>8, RefuseStep, ReplayStep, PrepareStep, Zenon

LEMMA PrepareEvaluationStep ==
    ASSUME WellPosed, MonthsInv, NEW c \in Clients, PrepareEvaluation(c)
    PROVE  MonthsInv' /\ Grows
<1>1. PICK cmd : cmd = Command(c)
  BY Zenon
<1>2. PICK retained : retained = Proposal(cmd.version, cmd.eval, None)
  BY Zenon
<1>3. PICK policy : policy = PolicyApproval(cmd.version, cmd.month, None)
  BY Zenon
<1>4. PICK universe : universe = Universe(cmd.version, cmd.parent, cmd.universe)
  BY Zenon
<1>5. PICK record : record = [version |-> cmd.version, eval |-> cmd.eval, month |-> cmd.month,
                             parent |-> cmd.parent, target |-> cmd.target, subject |-> None,
                             universe |-> universe, policy |-> policy, amends |-> cmd.amends,
                             historical |-> FALSE, by |-> Actor[c], at |-> now]
  BY Zenon
<1>6. client[c].queue # <<>> /\ cmd.op = "EVALUATE" /\ UNCHANGED <<now, tables>>
  BY <1>1, Zenon DEF PrepareEvaluation, May
<1>7. ASSUME policy # None, universe # None, ~(universe.generated > now)
      PROVE  Ready(cmd, record)
  <2>1. policy \in policyApprovals /\ policy.proposal.month = cmd.month /\ policy.proposal.subject = None
    BY <1>3, <1>7, Lookups
  <2>2. policy.at < cmd.month
    BY <2>1, Zenon DEF MonthsInv, Tables, Rows, Authorized
  <2>3. "generated" \in DOMAIN universe /\ universe.generated \in Int
    BY <1>4, <1>7, Lookups, Zenon DEF MonthsInv, Tables, Rows
  <2>4. now \in Nat /\ universe.generated <= now
    BY <1>7, <2>3 DEF MonthsInv, Tables, Types
  <2>5. /\ cmd.version \in Versions /\ cmd.month \in Months /\ cmd.target \in Names
        /\ cmd.parent \in Names /\ cmd.eval \in Names
    BY <1>1, <1>6, CommandType, Zenon DEF MonthsInv
  <2>6. Evaluated(record) /\ record.subject = None
    BY <1>5, <2>1, <2>2, <2>3, <2>4, <2>5 DEF Evaluated
  <2> QED
    BY <1>6, <2>6, Zenon DEF Ready
<1>8. retained # None => Stored(retained)
  BY <1>2, Lookups, Zenon DEF Stored
<1>9. \/ Refused(c)
      \/ Replay(c, retained, SameProposalCommand(retained, cmd, c))
      \/ /\ policy # None /\ universe # None /\ ~(universe.generated > now)
         /\ Prepared(c, record)
  BY <1>1, <1>2, <1>3, <1>4, <1>5, Zenon DEF PrepareEvaluation
<1> QED
  BY <1>1, <1>6, <1>7, <1>8, <1>9, RefuseStep, ReplayStep, PrepareStep, Zenon

LEMMA PrepareApprovalStep ==
    ASSUME WellPosed, MonthsInv, NEW c \in Clients, PrepareApproval(c)
    PROVE  MonthsInv' /\ Grows
<1>1. PICK cmd : cmd = Command(c)
  BY Zenon
<1>2. PICK proposal : proposal = Proposal(cmd.version, cmd.eval, None)
  BY Zenon
<1>3. PICK retained : retained = Approval(cmd.version, cmd.eval, None)
  BY Zenon
<1>4. PICK record : record = [proposal |-> proposal, by |-> Actor[c], at |-> now]
  BY Zenon
<1>5. client[c].queue # <<>> /\ cmd.op = "APPROVE" /\ UNCHANGED <<now, tables>>
  BY <1>1, Zenon DEF PrepareApproval, May
<1>6. ASSUME proposal # None, Actor[c] # proposal.by,
             PublishableMonth(proposal.universe, proposal.month)
      PROVE  Ready(cmd, record)
  <2>1. proposal \in evaluationProposals /\ proposal.subject = None
    BY <1>2, <1>6, Lookups
  <2>2. now \in Nat /\ proposal.at \in Nat /\ proposal.at <= now
    BY <2>1, Zenon DEF MonthsInv, Tables, Types, Rows, Evaluated
  <2>3. Approved(record) /\ record.proposal.subject = None
    BY <1>4, <1>6, <2>1, <2>2, Zenon DEF Approved
  <2> QED
    BY <1>5, <2>3, Zenon DEF Ready
<1>7. retained # None => Stored(retained)
  BY <1>3, Lookups, Zenon DEF Stored
<1>8. \/ Refused(c)
      \/ Replay(c, retained, retained.by = Actor[c])
      \/ /\ proposal # None /\ Actor[c] # proposal.by
         /\ PublishableMonth(proposal.universe, proposal.month)
         /\ Prepared(c, record)
  BY <1>1, <1>2, <1>3, <1>4, Zenon DEF PrepareApproval
<1> QED
  BY <1>1, <1>5, <1>6, <1>7, <1>8, RefuseStep, ReplayStep, PrepareStep, Zenon

LEMMA PrepareSubjectStep ==
    ASSUME WellPosed, MonthsInv, NEW c \in Clients, PrepareSubject(c)
    PROVE  MonthsInv' /\ Grows
<1>1. PICK cmd : cmd = Command(c)
  BY Zenon
<1>2. PICK record : record = [version |-> cmd.version, month |-> cmd.month, by |-> Actor[c], at |-> now]
  BY Zenon
<1>3. PICK retained : retained = subject[cmd.version]
  BY Zenon
<1>4. client[c].queue # <<>> /\ cmd.op = "SUBJECT" /\ UNCHANGED <<now, tables>>
  BY <1>1, Zenon DEF PrepareSubject, May
<1>5. cmd.version \in Versions /\ cmd.month \in Months
  BY <1>1, <1>4, CommandType, Zenon DEF MonthsInv
<1>6. Ready(cmd, record)
  BY <1>2, <1>4, <1>5, Zenon DEF Ready
<1>7. Stored(retained)
  BY <1>3, <1>5, Zenon DEF Stored
<1>8. \/ Replay(c, retained, retained.month = cmd.month /\ retained.by = Actor[c])
      \/ Prepared(c, record)
  BY <1>1, <1>2, <1>3, Zenon DEF PrepareSubject
<1> QED
  BY <1>1, <1>4, <1>6, <1>7, <1>8, ReplayStep, PrepareStep, Zenon

\* The stored controls of a subject that is there.
LEMMA StagedControls ==
    ASSUME MonthsInv, NEW cmd, cmd.version \in Versions, subject[cmd.version] # None
    PROVE  /\ StagedPolicy(cmd) # None =>
                /\ StagedPolicy(cmd) \in policyProposals
                /\ StagedPolicy(cmd).subject = subject[cmd.version]
                /\ StagedPolicy(cmd).month \in Months
           /\ StagedPolicyApproval(cmd) # None =>
                /\ StagedPolicyApproval(cmd) \in policyApprovals
                /\ StagedPolicyApproval(cmd).proposal.subject = subject[cmd.version]
           /\ StagedEvaluation(cmd) # None =>
                /\ StagedEvaluation(cmd) \in evaluationProposals
                /\ StagedEvaluation(cmd).subject = subject[cmd.version]
                /\ StagedEvaluation(cmd).version = cmd.version
           /\ StagedApproval(cmd) # None => StagedApproval(cmd) \in evaluationApprovals
<1>1. subject[cmd.version].version = cmd.version
  BY Zenon DEF MonthsInv, Tables, Rows
<1>2. ASSUME StagedPolicyApproval(cmd) # None
      PROVE  StagedPolicyApproval(cmd) \in
               {a \in policyApprovals : /\ a.proposal.subject = subject[cmd.version]
                                        /\ a.proposal.rev = cmd.rev}
  BY <1>2, Found, Zenon DEF StagedPolicyApproval
<1>3. StagedPolicy(cmd) # None => /\ StagedPolicy(cmd) \in policyProposals
                                  /\ StagedPolicy(cmd).subject = subject[cmd.version]
  BY Lookups DEF StagedPolicy
<1>4. StagedPolicy(cmd) # None => StagedPolicy(cmd).month \in Months
  BY <1>3, Zenon DEF MonthsInv, Tables, Rows
<1>5. StagedEvaluation(cmd) # None => /\ StagedEvaluation(cmd) \in evaluationProposals
                                      /\ StagedEvaluation(cmd).subject = subject[cmd.version]
                                      /\ StagedEvaluation(cmd).version = cmd.version
  BY <1>1, Lookups DEF StagedEvaluation
<1>6. StagedApproval(cmd) # None => StagedApproval(cmd) \in evaluationApprovals
  BY Lookups DEF StagedApproval
<1> QED
  BY <1>2, <1>3, <1>4, <1>5, <1>6, Zenon

\* Which control a staged command makes, and which it builds on.
LEMMA ControlOf ==
    ASSUME NEW cmd
    PROVE  /\ cmd.op = "STAGE_POLICY" =>
                Control(cmd) = StagedPolicy(cmd) /\ Predecessor(cmd) = subject[cmd.version]
           /\ cmd.op = "STAGE_POLICY_APPROVAL" =>
                Control(cmd) = StagedPolicyApproval(cmd) /\ Predecessor(cmd) = StagedPolicy(cmd)
           /\ cmd.op = "STAGE_EVALUATION" =>
                Control(cmd) = StagedEvaluation(cmd) /\ Predecessor(cmd) = StagedPolicyApproval(cmd)
           /\ cmd.op = "STAGE_APPROVAL" =>
                Control(cmd) = StagedApproval(cmd) /\ Predecessor(cmd) = StagedEvaluation(cmd)
<1>1. cmd.op = "STAGE_POLICY" =>
        Control(cmd) = StagedPolicy(cmd) /\ Predecessor(cmd) = subject[cmd.version]
  BY Zenon DEF Control, Predecessor
<1>2. cmd.op = "STAGE_POLICY_APPROVAL" =>
        Control(cmd) = StagedPolicyApproval(cmd) /\ Predecessor(cmd) = StagedPolicy(cmd)
  BY Zenon DEF Control, Predecessor
<1>3. cmd.op = "STAGE_EVALUATION" =>
        Control(cmd) = StagedEvaluation(cmd) /\ Predecessor(cmd) = StagedPolicyApproval(cmd)
  BY Zenon DEF Control, Predecessor
<1>4. cmd.op = "STAGE_APPROVAL" =>
        Control(cmd) = StagedApproval(cmd) /\ Predecessor(cmd) = StagedEvaluation(cmd)
  BY Zenon DEF Control, Predecessor
<1> QED
  BY <1>1, <1>2, <1>3, <1>4, Zenon

\* A staged command that may run replays its control or prepares it.
LEMMA PrepareStagedStep ==
    ASSUME WellPosed, MonthsInv, NEW c \in Clients, NEW op \in Staged, MayStage(c, op),
           UNCHANGED <<now, tables>>, NEW r, NEW valid, PrepareStaged(c, r, valid),
           valid => Ready(Command(c), r)
    PROVE  MonthsInv' /\ Grows
<1>1. PICK cmd : cmd = Command(c)
  BY Zenon
<1>2. client[c].queue # <<>> /\ cmd.op = op /\ subject[cmd.version] # None
  BY <1>1, Zenon DEF MayStage, May
<1>3. cmd.version \in Versions
  BY <1>1, <1>2, CommandType, Zenon DEF MonthsInv
<1>4. Control(cmd) # None => Stored(Control(cmd))
  BY <1>2, <1>3, StagedControls, ControlOf, Zenon DEF Stored, Staged
<1>5. \/ Replay(c, Control(cmd), SameControl(Control(cmd), r))
      \/ valid /\ Prepared(c, r)
      \/ Refused(c)
  BY <1>1, Zenon DEF PrepareStaged
<1> QED
  BY <1>1, <1>2, <1>4, <1>5, RefuseStep, ReplayStep, PrepareStep, Zenon

LEMMA ProposeSubjectPolicyStep ==
    ASSUME WellPosed, MonthsInv, NEW c \in Clients, ProposeSubjectPolicy(c)
    PROVE  MonthsInv' /\ Grows
<1>1. PICK cmd : cmd = Command(c)
  BY Zenon
<1>2. MayStage(c, "STAGE_POLICY") /\ cmd.op = "STAGE_POLICY" /\ subject[cmd.version] # None
      /\ client[c].queue # <<>> /\ UNCHANGED <<now, tables>>
  BY <1>1, Zenon DEF ProposeSubjectPolicy, MayStage, May
<1>3. PICK record : record = SubjectPolicyProposal(c, cmd, Predecessor(cmd))
  BY Zenon
<1>4. PrepareStaged(c, record, SubjectPolicyValid(record))
  BY <1>1, <1>3, Zenon DEF ProposeSubjectPolicy
<1>5. Predecessor(cmd) = subject[cmd.version] /\ cmd.version \in Versions
  BY <1>1, <1>2, CommandType, ControlOf, Zenon DEF MonthsInv
<1>6. record.month \in Months
  BY <1>2, <1>3, <1>5, Zenon DEF SubjectPolicyProposal, MonthsInv, Tables, Rows
<1>7. Ready(cmd, record)
  BY <1>2, <1>6, Zenon DEF Ready
<1> QED
  BY <1>1, <1>2, <1>4, <1>7, PrepareStagedStep, Zenon DEF Staged

LEMMA ApproveSubjectPolicyStep ==
    ASSUME WellPosed, MonthsInv, NEW c \in Clients, ApproveSubjectPolicy(c)
    PROVE  MonthsInv' /\ Grows
<1>1. PICK cmd : cmd = Command(c)
  BY Zenon
<1>2. MayStage(c, "STAGE_POLICY_APPROVAL") /\ cmd.op = "STAGE_POLICY_APPROVAL"
      /\ subject[cmd.version] # None /\ Predecessor(cmd) # None
      /\ client[c].queue # <<>> /\ UNCHANGED <<now, tables>>
  BY <1>1, Zenon DEF ApproveSubjectPolicy, MayStage, May
<1>3. PICK record : record = IndependentApproval(c, Predecessor(cmd))
  BY Zenon
<1>4. PrepareStaged(c, record, SubjectPolicyApprovalValid(record))
  BY <1>1, <1>3, Zenon DEF ApproveSubjectPolicy
<1>5. cmd.version \in Versions /\ Predecessor(cmd) = StagedPolicy(cmd)
  BY <1>1, <1>2, CommandType, ControlOf, Zenon DEF MonthsInv
<1>6. record.proposal = StagedPolicy(cmd) /\ record.proposal \in policyProposals
      /\ record.proposal.subject # None /\ record.proposal.month \in Months
  BY <1>2, <1>3, <1>5, StagedControls, Zenon DEF IndependentApproval
<1>7. SubjectPolicyApprovalValid(record) => Ready(cmd, record)
  BY <1>2, <1>6, Zenon DEF Ready, Authorized, SubjectPolicyApprovalValid, Prospective
<1> QED
  BY <1>1, <1>2, <1>4, <1>7, PrepareStagedStep, Zenon DEF Staged

LEMMA EvaluateSubjectStep ==
    ASSUME WellPosed, MonthsInv, NEW c \in Clients, EvaluateSubject(c)
    PROVE  MonthsInv' /\ Grows
<1>1. PICK cmd : cmd = Command(c)
  BY Zenon
<1>2. MayStage(c, "STAGE_EVALUATION") /\ cmd.op = "STAGE_EVALUATION"
      /\ subject[cmd.version] # None /\ Predecessor(cmd) # None
      /\ client[c].queue # <<>> /\ UNCHANGED <<now, tables>>
  BY <1>1, Zenon DEF EvaluateSubject, MayStage, May
<1>3. PICK policy : policy = Predecessor(cmd)
  BY Zenon
<1>4. PICK record : record = SubjectEvaluationProposal(c, cmd, policy)
  BY Zenon
<1>5. PrepareStaged(c, record, cmd.generated <= now)
  BY <1>1, <1>3, <1>4, Zenon DEF EvaluateSubject
<1>6. /\ cmd.version \in Versions /\ policy = StagedPolicyApproval(cmd)
      /\ cmd.generated \in Int /\ cmd.target \in Names /\ cmd.eval \in Names
  BY <1>1, <1>2, <1>3, CommandType, ControlOf, Zenon DEF MonthsInv
<1>7. policy \in policyApprovals /\ policy.proposal.subject = subject[cmd.version]
  BY <1>2, <1>3, <1>6, StagedControls, Zenon
<1>8. /\ policy.proposal.month \in Months
      /\ policy.at < policy.proposal.month \/ policy.proposal.historical
  BY <1>7, Zenon DEF MonthsInv, Tables, Rows, Authorized
<1>9. /\ record.version = cmd.version /\ record.month = policy.proposal.month
      /\ record.target = cmd.target /\ record.parent = None /\ record.eval = cmd.eval
      /\ record.at = now /\ record.policy = policy
      /\ record.historical = policy.proposal.historical
      /\ "generated" \in DOMAIN record.universe /\ record.universe.generated = cmd.generated
      /\ record.subject = subject[cmd.version] /\ record.amends = None
  BY <1>4, <1>7, Zenon DEF SubjectEvaluationProposal
<1>10. now \in Nat /\ None \in Names
  BY Zenon DEF MonthsInv, Tables, Types, Names
<1>11. cmd.generated <= now => Evaluated(record) /\ record.subject # None
  BY <1>2, <1>6, <1>7, <1>8, <1>9, <1>10 DEF Evaluated
<1>12. cmd.generated <= now => Ready(cmd, record)
  BY <1>2, <1>11, Zenon DEF Ready
<1> QED
  BY <1>1, <1>2, <1>5, <1>12, PrepareStagedStep, Zenon DEF Staged

LEMMA ApproveSubjectEvaluationStep ==
    ASSUME WellPosed, MonthsInv, NEW c \in Clients, ApproveSubjectEvaluation(c)
    PROVE  MonthsInv' /\ Grows
<1>1. PICK cmd : cmd = Command(c)
  BY Zenon
<1>2. MayStage(c, "STAGE_APPROVAL") /\ cmd.op = "STAGE_APPROVAL"
      /\ subject[cmd.version] # None /\ Predecessor(cmd) # None
      /\ client[c].queue # <<>> /\ UNCHANGED <<now, tables>>
  BY <1>1, Zenon DEF ApproveSubjectEvaluation, MayStage, May
<1>3. PICK record : record = IndependentApproval(c, Predecessor(cmd))
  BY Zenon
<1>4. PrepareStaged(c, record, SubjectEvaluationApprovalValid(record))
  BY <1>1, <1>3, Zenon DEF ApproveSubjectEvaluation
<1>5. cmd.version \in Versions /\ Predecessor(cmd) = StagedEvaluation(cmd)
  BY <1>1, <1>2, CommandType, ControlOf, Zenon DEF MonthsInv
<1>6. /\ record.proposal \in evaluationProposals /\ record.at = now
      /\ record.proposal.subject # None /\ record.proposal.version = cmd.version
  BY <1>2, <1>3, <1>5, StagedControls, Zenon DEF IndependentApproval
<1>7. record.at >= record.proposal.at
  BY <1>6, Zenon DEF MonthsInv, Tables, Types, Rows, Evaluated
<1>8. SubjectEvaluationApprovalValid(record) => Ready(cmd, record)
  BY <1>2, <1>6, <1>7, Zenon DEF Ready, Approved, SubjectEvaluationApprovalValid
<1> QED
  BY <1>1, <1>2, <1>4, <1>8, PrepareStagedStep, Zenon DEF Staged

LEMMA RefuseControlStep ==
    ASSUME MonthsInv, NEW c \in Clients, RefuseControl(c)
    PROVE  MonthsInv' /\ Grows
BY RefuseStep, Zenon DEF RefuseControl

LEMMA PrepareFinalizeStep ==
    ASSUME WellPosed, MonthsInv, NEW c \in Clients, PrepareFinalize(c)
    PROVE  MonthsInv' /\ Grows
<1>1. PICK cmd : cmd = Command(c)
  BY Zenon
<1>2. PICK s : s = subject[cmd.version]
  BY Zenon
<1>3. PICK approval : approval = Approval(cmd.version, cmd.eval, s)
  BY Zenon
<1>4. PICK retained : retained = finalization[cmd.version]
  BY Zenon
<1>5. PICK definition : definition = Definition(cmd.version, s.by, approval)
  BY Zenon
<1>6. PICK record : record = [approval |-> approval, definition |-> definition, at |-> now]
  BY Zenon
<1>7. client[c].queue # <<>> /\ cmd.op = "FINALIZE" /\ UNCHANGED <<now, tables>>
  BY <1>1, Zenon DEF PrepareFinalize, May
<1>8. cmd.version \in Versions
  BY <1>1, <1>7, CommandType, Zenon DEF MonthsInv
<1>9. definition # None /\ definition.version = cmd.version
  BY <1>5, Zenon DEF WellPosed, Definition
<1>10. ASSUME s # None, approval # None
       PROVE  Ready(cmd, record)
  <2>1. /\ approval \in evaluationApprovals /\ approval.proposal.version = cmd.version
        /\ approval.proposal.subject = s
    BY <1>3, <1>10, Lookups
  <2>2. Finalizes(record, record.definition.version)
    BY <1>2, <1>6, <1>8, <1>9, <1>10, <2>1, Zenon DEF Finalizes
  <2> QED
    BY <1>7, <2>2, Zenon DEF Ready
<1>11. Stored(retained)
  BY <1>4, <1>8, Zenon DEF Stored
<1>12. \/ Refused(c)
       \/ Replay(c, retained, retained.definition = definition /\ retained.approval = approval)
       \/ s # None /\ approval # None /\ Prepared(c, record)
  BY <1>1, <1>2, <1>3, <1>4, <1>5, <1>6, Zenon DEF PrepareFinalize
<1> QED
  BY <1>1, <1>7, <1>10, <1>11, <1>12, RefuseStep, ReplayStep, PrepareStep, Zenon

-----------------------------------------------------------------------------
(* Steps that save.                                                        *)

\* The record that is saved is ready.
LEMMA RecordReady ==
    ASSUME MonthsInv, NEW c \in Clients, client[c].record # None
    PROVE  client[c].queue # <<>> /\ Ready(Command(c), client[c].record)
BY Zenon DEF MonthsInv, Sessions, Session, Command

\* The answer to a save is the row it stored.
LEMMA SaveStep ==
    ASSUME MonthsInv, Tables', Grows, NEW c \in Clients, client[c].queue # <<>>,
           NEW a, Answered(c, a), Stored(a)'
    PROVE  MonthsInv' /\ Grows
<1>1. now \in Nat /\ now' \in Nat
  BY Zenon DEF MonthsInv, Tables, Types
<1> QED
  BY <1>1, AnsweredStep, Zenon DEF MonthsInv

LEMMA ChainsSame ==
    ASSUME Chains, UNCHANGED <<published, evaluationApprovals>>
    PROVE  Chains'
BY DEF Chains, Stands, Amends, Later, PublishedBefore, PublishedAt

LEMMA ReservationsSame ==
    ASSUME Reservations, Grows, UNCHANGED <<published, definitions, subject, finalization>>
    PROVE  Reservations'
<1> SUFFICES ASSUME NEW v \in Versions
             PROVE  /\ published[v] # <<>> => definitions[v] # None
                    /\ finalization[v] # None =>
                         /\ Finalizes(finalization[v], v)'
                         /\ definitions[v] = finalization[v].definition
                         /\ published[v] # <<>>
                         /\ published[v][1].rev = finalization[v].approval.proposal.target
                         /\ finalization[v].approval.proposal.universe \in universes'
                    /\ subject[v] # None => ((definitions[v] # None) <=> (finalization[v] # None))
  BY Zenon DEF Reservations, Finalizes
<1>1. finalization[v] # None => Finalizes(finalization[v], v)'
  BY Zenon DEF Reservations, Finalizes, Grows
<1> QED
  BY <1>1, Zenon DEF Reservations, Grows

\* Rows are as they should be when the new ones are.
LEMMA RowsGrow ==
    ASSUME Tables, Grows, now' \in Nat,
           \A p \in policyProposals' : p \in policyProposals \/ p.month \in Months,
           \A a \in policyApprovals' : a \in policyApprovals \/ Authorized(a)',
           \A a, b \in policyApprovals' : a.proposal.month = b.proposal.month => a = b,
           \A p \in evaluationProposals' : p \in evaluationProposals \/ Evaluated(p)',
           \A a \in evaluationApprovals' : a \in evaluationApprovals \/ Approved(a)',
           \A u \in universes' : u \in universes \/ ("generated" \in DOMAIN u /\ u.generated \in Int),
           \A v \in Versions : subject'[v] # None =>
               \/ subject'[v] = subject[v]
               \/ subject'[v].version = v /\ subject'[v].month \in Months
    PROVE  Rows'
<1>1. now \in Nat
  BY Zenon DEF Tables, Types
<1>2. \A a \in policyApprovals : Authorized(a)'
  BY AuthorizedKept, Zenon DEF Tables, Rows
<1>3. \A p \in evaluationProposals : Evaluated(p)'
  BY <1>1, EvaluatedKept, Zenon DEF Tables, Rows
<1>4. \A a \in evaluationApprovals : Approved(a)'
  BY ApprovedKept, Zenon DEF Tables, Rows
<1>5. \A v \in Versions : subject'[v] # None => subject'[v].version = v /\ subject'[v].month \in Months
  BY Zenon DEF Tables, Rows
<1>6. \A p \in policyProposals' : p.month \in Months
  BY Zenon DEF Tables, Rows
<1>7. \A u \in universes' : "generated" \in DOMAIN u /\ u.generated \in Int
  BY Zenon DEF Tables, Rows
<1> QED
  BY <1>2, <1>3, <1>4, <1>5, <1>6, <1>7, Zenon DEF Rows

LEMMA SessionsKept ==
    ASSUME Sessions, Grows, now \in Nat, now' \in Nat, client' = client
    PROVE  Sessions'
<1>1. ASSUME NEW c \in Clients
      PROVE  Session(client[c])'
  <2>1. PICK t : t = client[c]
    BY Zenon
  <2>2. t.queue \in Seq(Commands) /\ client'[c] = t
    BY <2>1, Zenon DEF Sessions, Session
  <2>3. t.record # None => t.queue # <<>> /\ Ready(Head(t.queue), t.record)'
    BY <2>1, ReadyKept, Zenon DEF Sessions, Session
  <2>4. t.answer # None => Stored(t.answer)'
    BY <2>1, StoredKept, Zenon DEF Sessions, Session
  <2> QED
    BY <2>2, <2>3, <2>4, Zenon DEF Session
<1> QED
  BY <1>1, Zenon DEF Sessions

LEMMA TickStep ==
    ASSUME MonthsInv, Tick
    PROVE  MonthsInv' /\ Grows
<1>1. now \in Nat /\ now' \in Nat /\ now <= now'
  BY DEF Tick, MonthsInv, Tables, Types
<1>2. /\ client' = client /\ definitions' = definitions /\ published' = published
      /\ universes' = universes /\ policyProposals' = policyProposals
      /\ policyApprovals' = policyApprovals /\ evaluationProposals' = evaluationProposals
      /\ evaluationApprovals' = evaluationApprovals /\ subject' = subject
      /\ finalization' = finalization
  BY Zenon DEF Tick, tables
<1>3. Grows
  BY <1>1, <1>2, Zenon DEF Grows
<1>4. Types'
  BY <1>1, <1>2, Zenon DEF MonthsInv, Tables, Types
<1>5. \A a, b \in policyApprovals' : a.proposal.month = b.proposal.month => a = b
  BY <1>2, Zenon DEF MonthsInv, Tables, Rows
<1>6. Rows'
  BY <1>1, <1>2, <1>3, <1>5, RowsGrow, Zenon DEF MonthsInv
<1>7. Reservations' /\ Chains'
  BY <1>2, <1>3, ReservationsSame, ChainsSame, Zenon DEF MonthsInv, Tables
<1>8. Sessions'
  BY <1>1, <1>2, <1>3, SessionsKept, Zenon DEF MonthsInv
<1> QED
  BY <1>3, <1>4, <1>6, <1>7, <1>8, Zenon DEF MonthsInv, Tables

LEMMA SaveDefinitionStep ==
    ASSUME WellPosed, MonthsInv, NEW c \in Clients, SaveDefinition(c)
    PROVE  MonthsInv' /\ Grows
<1>1. PICK v : v = Command(c).version
  BY Zenon
<1>2. PICK record : record = Definition(v, Actor[c], None)
  BY Zenon
<1>3. client[c].queue # <<>>
  BY Zenon DEF SaveDefinition, May
<1>4. v \in Versions /\ record # None
  BY <1>1, <1>2, <1>3, CommandType, Zenon DEF WellPosed, MonthsInv
<1>5. definitions[v] # None => Stored(definitions[v])
  BY <1>4, Zenon DEF Stored
<1>6. /\ now' = now /\ published' = published
      /\ universes' = universes /\ policyProposals' = policyProposals
      /\ policyApprovals' = policyApprovals /\ evaluationProposals' = evaluationProposals
      /\ evaluationApprovals' = evaluationApprovals /\ subject' = subject
      /\ finalization' = finalization
  BY Zenon DEF SaveDefinition
<1>7. CASE definitions' = definitions /\ Replay(c, definitions[v], definitions[v] = record)
  <2>1. UNCHANGED <<now, tables>>
    BY <1>6, <1>7, Zenon DEF tables
  <2> QED
    BY <1>3, <1>5, <1>7, <2>1, ReplayStep, Zenon
<1>8. CASE /\ definitions[v] = None /\ ~Reserved(v) /\ Answered(c, record)
           /\ definitions' = [definitions EXCEPT ![v] = record]
  <2>1. now \in Nat /\ now' \in Nat /\ DOMAIN definitions = Versions
    BY <1>6, Zenon DEF MonthsInv, Tables, Types
  <2>2. Grows
    BY <1>4, <1>6, <1>8, <2>1 DEF Grows
  <2>3. Types'
    BY <1>6, <1>8, Zenon DEF MonthsInv, Tables, Types
  <2>4. \A a, b \in policyApprovals' : a.proposal.month = b.proposal.month => a = b
    BY <1>6, Zenon DEF MonthsInv, Tables, Rows
  <2>5. Rows'
    BY <1>6, <2>1, <2>2, <2>4, RowsGrow, Zenon DEF MonthsInv
  <2>6. subject[v] = None /\ finalization[v] = None
    BY <1>4, <1>8, Zenon DEF Reserved, MonthsInv, Tables, Reservations, Finalizes
  <2>7. Reservations'
    <3> SUFFICES ASSUME NEW w \in Versions
                 PROVE  /\ published[w] # <<>> => definitions'[w] # None
                        /\ finalization[w] # None =>
                             /\ Finalizes(finalization[w], w)'
                             /\ definitions'[w] = finalization[w].definition
                             /\ published[w] # <<>>
                             /\ published[w][1].rev = finalization[w].approval.proposal.target
                             /\ finalization[w].approval.proposal.universe \in universes
                        /\ subject[w] # None => ((definitions'[w] # None) <=> (finalization[w] # None))
      BY <1>6, Zenon DEF Reservations, Finalizes
    <3>1. CASE w = v
      BY <1>4, <1>8, <2>1, <2>6, <3>1, Zenon
    <3>2. CASE w # v
      BY <1>6, <1>8, <2>1, <3>2, Zenon DEF MonthsInv, Tables, Reservations, Finalizes
    <3> QED
      BY <3>1, <3>2, Zenon
  <2>8. Tables'
    BY <1>6, <2>3, <2>5, <2>7, ChainsSame, Zenon DEF MonthsInv, Tables
  <2>9. Stored(record)'
    BY <1>4, <1>8, <2>1, Zenon DEF Stored
  <2> QED
    BY <1>3, <1>8, <2>2, <2>8, <2>9, SaveStep, Zenon
<1> QED
  BY <1>1, <1>2, <1>7, <1>8, Zenon DEF SaveDefinition

\* A universe is only ever added.
LEMMA SaveUniverseStep ==
    ASSUME WellPosed, MonthsInv, NEW c \in Clients, SaveUniverse(c)
    PROVE  MonthsInv' /\ Grows
<1>1. PICK cmd : cmd = Command(c)
  BY Zenon
<1>2. PICK record : record =
        [version |-> cmd.version, rev |-> cmd.rev, name |-> cmd.name,
         months |-> cmd.months, complete |-> cmd.complete, source |-> cmd.source,
         generated |-> cmd.generated]
  BY Zenon
<1>3. PICK retained : retained = Universe(cmd.version, cmd.rev, cmd.name)
  BY Zenon
<1>4. client[c].queue # <<>> /\ cmd.op = "ATTEST"
  BY <1>1, Zenon DEF SaveUniverse, May
<1>5. "generated" \in DOMAIN record /\ record.generated \in Int
  BY <1>1, <1>2, <1>4, CommandType, Zenon DEF MonthsInv
<1>6. retained # None => Stored(retained)
  BY <1>3, Lookups, Zenon DEF Stored
<1>7. /\ now' = now /\ definitions' = definitions /\ published' = published
      /\ policyProposals' = policyProposals
      /\ policyApprovals' = policyApprovals /\ evaluationProposals' = evaluationProposals
      /\ evaluationApprovals' = evaluationApprovals /\ subject' = subject
      /\ finalization' = finalization
  BY Zenon DEF SaveUniverse
<1>8. CASE universes' = universes
  <2>1. UNCHANGED <<now, tables>>
    BY <1>7, <1>8, Zenon DEF tables
  <2>2. CASE Refused(c)
    BY <1>4, <2>1, <2>2, RefuseStep, Zenon
  <2>3. CASE Replay(c, retained, retained = record)
    BY <1>4, <1>6, <2>1, <2>3, ReplayStep, Zenon
  <2>4. CASE Answered(c, record) /\ universes' = universes \cup {record}
    <3>1. Stored(record)
      BY <1>8, <2>4, Zenon DEF Stored
    <3> QED
      BY <1>4, <2>1, <2>4, <3>1, AnswerStep, Zenon
  <2> QED
    BY <1>1, <1>2, <1>3, <2>2, <2>3, <2>4, Zenon DEF SaveUniverse
<1>9. CASE Answered(c, record) /\ universes' = universes \cup {record}
  <2>1. now \in Nat /\ now' \in Nat
    BY <1>7, Zenon DEF MonthsInv, Tables, Types
  <2>2. Grows
    BY <1>7, <1>9, <2>1 DEF Grows
  <2>3. Types'
    BY <1>7, Zenon DEF MonthsInv, Tables, Types
  <2>4. \A a, b \in policyApprovals' : a.proposal.month = b.proposal.month => a = b
    BY <1>7, Zenon DEF MonthsInv, Tables, Rows
  <2>5. \A u \in universes' : u \in universes \/ ("generated" \in DOMAIN u /\ u.generated \in Int)
    BY <1>5, <1>9, Zenon
  <2>6. Rows'
    BY <1>7, <2>1, <2>2, <2>4, <2>5, RowsGrow, Zenon DEF MonthsInv
  <2>7. Tables'
    BY <1>7, <2>2, <2>3, <2>6, ChainsSame, ReservationsSame, Zenon DEF MonthsInv, Tables
  <2>8. Stored(record)'
    BY <1>9, Zenon DEF Stored
  <2> QED
    BY <1>4, <1>9, <2>2, <2>7, <2>8, SaveStep, Zenon
<1> QED
  BY <1>1, <1>2, <1>3, <1>8, <1>9, Zenon DEF SaveUniverse

\* A proposal or approval of a policy is stored.
LEMMA PolicyRowStep ==
    ASSUME MonthsInv, NEW c \in Clients, client[c].queue # <<>>, NEW record, Answered(c, record),
           UNCHANGED <<now, definitions, published, universes, evaluationProposals,
                       evaluationApprovals, subject, finalization>>,
           \/ /\ policyProposals' = policyProposals \cup {record} /\ record.month \in Months
              /\ policyApprovals' = policyApprovals
           \/ /\ policyApprovals' = policyApprovals \cup {record} /\ Authorized(record)
              /\ PolicySlotFree(record.proposal.month)
              /\ policyProposals' = policyProposals
    PROVE  MonthsInv' /\ Grows
<1>1. now \in Nat /\ now' \in Nat /\ now <= now'
  BY DEF MonthsInv, Tables, Types
<1>2. Grows
  BY <1>1, Zenon DEF Grows
<1>3. Types'
  BY Zenon DEF MonthsInv, Tables, Types
<1>4. \A a, b \in policyApprovals' : a.proposal.month = b.proposal.month => a = b
  BY DEF MonthsInv, Tables, Rows, PolicySlotFree
<1>5. \A a \in policyApprovals' : a \in policyApprovals \/ Authorized(a)'
  BY <1>2, AuthorizedKept, Zenon
<1>6. \A p \in policyProposals' : p \in policyProposals \/ p.month \in Months
  BY Zenon
<1>7. Rows'
  BY <1>1, <1>2, <1>4, <1>5, <1>6, RowsGrow, Zenon DEF MonthsInv
<1>8. Tables'
  BY <1>2, <1>3, <1>7, ChainsSame, ReservationsSame, Zenon DEF MonthsInv, Tables
<1>9. Stored(record)'
  BY Zenon DEF Stored
<1> QED
  BY <1>2, <1>8, <1>9, SaveStep, Zenon

LEMMA SavePolicyProposalStep ==
    ASSUME WellPosed, MonthsInv, NEW c \in Clients, SavePolicyProposal(c)
    PROVE  MonthsInv' /\ Grows
<1>1. PICK record : record = client[c].record
  BY Zenon
<1>2. PICK winner : winner = PolicyProposal(record.version, record.month, record.rev, None)
  BY Zenon
<1>3. record # None /\ Command(c).op = "PROPOSE_POLICY"
  BY <1>1, Zenon DEF SavePolicyProposal, Saving
<1>4. client[c].queue # <<>> /\ record.month \in Months
  BY <1>1, <1>3, RecordReady, Zenon DEF Ready
<1>5. winner # None => Stored(winner)
  BY <1>2, Lookups, Zenon DEF Stored
<1>6. UNCHANGED <<now, definitions, published, universes, policyApprovals,
                  evaluationProposals, evaluationApprovals, subject, finalization>>
  BY Zenon DEF SavePolicyProposal
<1>7. CASE Answered(c, record) /\ policyProposals' = policyProposals \cup {record}
  BY <1>4, <1>6, <1>7, PolicyRowStep, Zenon
<1>8. CASE /\ Replay(c, winner, winner # None /\ winner.by = Actor[c])
           /\ UNCHANGED policyProposals
  <2>1. UNCHANGED <<now, tables>>
    BY <1>6, <1>8, Zenon DEF tables
  <2> QED
    BY <1>4, <1>5, <1>8, <2>1, ReplayStep, Zenon
<1> QED
  BY <1>1, <1>2, <1>7, <1>8, Zenon DEF SavePolicyProposal

LEMMA SavePolicyApprovalStep ==
    ASSUME WellPosed, MonthsInv, NEW c \in Clients, SavePolicyApproval(c)
    PROVE  MonthsInv' /\ Grows
<1>1. PICK record : record = client[c].record
  BY Zenon
<1>2. PICK winner : winner = PolicyApproval(record.proposal.version, record.proposal.month, None)
  BY Zenon
<1>3. record # None /\ Command(c).op = "APPROVE_POLICY"
  BY <1>1, Zenon DEF SavePolicyApproval, Saving
<1>4. client[c].queue # <<>> /\ Authorized(record)
  BY <1>1, <1>3, RecordReady, Zenon DEF Ready
<1>5. winner # None => Stored(winner)
  BY <1>2, Lookups, Zenon DEF Stored
<1>6. UNCHANGED <<now, definitions, published, universes, policyProposals,
                  evaluationProposals, evaluationApprovals, subject, finalization>>
  BY Zenon DEF SavePolicyApproval
<1>7. CASE /\ PolicySlotFree(record.proposal.month)
           /\ Answered(c, record) /\ policyApprovals' = policyApprovals \cup {record}
  BY <1>4, <1>6, <1>7, PolicyRowStep, Zenon
<1>8. CASE /\ Replay(c, winner, /\ winner # None
                                /\ winner.proposal = record.proposal /\ winner.by = Actor[c])
           /\ UNCHANGED policyApprovals
  <2>1. UNCHANGED <<now, tables>>
    BY <1>6, <1>8, Zenon DEF tables
  <2> QED
    BY <1>4, <1>5, <1>8, <2>1, ReplayStep, Zenon
<1> QED
  BY <1>1, <1>2, <1>7, <1>8, Zenon DEF SavePolicyApproval

\* An evaluation is stored.
LEMMA EvaluationRowStep ==
    ASSUME MonthsInv, NEW c \in Clients, client[c].queue # <<>>, NEW record, Answered(c, record),
           UNCHANGED <<now, definitions, published, universes, policyProposals, policyApprovals,
                       evaluationApprovals, subject, finalization>>,
           evaluationProposals' = evaluationProposals \cup {record}, Evaluated(record)
    PROVE  MonthsInv' /\ Grows
<1>1. now \in Nat /\ now' \in Nat /\ now <= now'
  BY DEF MonthsInv, Tables, Types
<1>2. Grows
  BY <1>1, Zenon DEF Grows
<1>3. Types'
  BY Zenon DEF MonthsInv, Tables, Types
<1>4. \A a, b \in policyApprovals' : a.proposal.month = b.proposal.month => a = b
  BY Zenon DEF MonthsInv, Tables, Rows
<1>5. \A p \in evaluationProposals' : p \in evaluationProposals \/ Evaluated(p)'
  BY <1>1, <1>2, EvaluatedKept, Zenon
<1>6. Rows'
  BY <1>1, <1>2, <1>4, <1>5, RowsGrow, Zenon DEF MonthsInv
<1>7. Tables'
  BY <1>2, <1>3, <1>6, ChainsSame, ReservationsSame, Zenon DEF MonthsInv, Tables
<1>8. Stored(record)'
  BY Zenon DEF Stored
<1> QED
  BY <1>2, <1>7, <1>8, SaveStep, Zenon

LEMMA SaveEvaluationStep ==
    ASSUME WellPosed, MonthsInv, NEW c \in Clients, SaveEvaluation(c)
    PROVE  MonthsInv' /\ Grows
<1>1. PICK record : record = client[c].record
  BY Zenon
<1>2. PICK retained : retained = Proposal(record.version, record.eval, None)
  BY Zenon
<1>3. record # None /\ Command(c).op = "EVALUATE"
  BY <1>1, Zenon DEF SaveEvaluation, Saving
<1>4. client[c].queue # <<>> /\ Evaluated(record)
  BY <1>1, <1>3, RecordReady, Zenon DEF Ready
<1>5. retained # None => Stored(retained)
  BY <1>2, Lookups, Zenon DEF Stored
<1>6. UNCHANGED <<now, definitions, published, universes, policyProposals,
                  policyApprovals, evaluationApprovals, subject, finalization>>
  BY Zenon DEF SaveEvaluation
<1>7. CASE Answered(c, record) /\ evaluationProposals' = evaluationProposals \cup {record}
  BY <1>4, <1>6, <1>7, EvaluationRowStep, Zenon
<1>8. CASE UNCHANGED evaluationProposals
  <2>1. UNCHANGED <<now, tables>>
    BY <1>6, <1>8, Zenon DEF tables
  <2>2. CASE Replay(c, retained, SameProposalCommand(retained, Command(c), c))
    BY <1>4, <1>5, <2>1, <2>2, ReplayStep, Zenon
  <2>3. CASE Refused(c)
    BY <1>4, <2>1, <2>3, RefuseStep, Zenon
  <2> QED
    BY <1>1, <1>2, <1>7, <2>2, <2>3, Zenon DEF SaveEvaluation
<1> QED
  BY <1>1, <1>2, <1>7, <1>8, Zenon DEF SaveEvaluation

LEMMA SaveSubjectStep ==
    ASSUME WellPosed, MonthsInv, NEW c \in Clients, SaveSubject(c)
    PROVE  MonthsInv' /\ Grows
<1>1. PICK record : record = client[c].record
  BY Zenon
<1>2. PICK v : v = record.version
  BY Zenon
<1>3. record # None /\ Command(c).op = "SUBJECT"
  BY <1>1, Zenon DEF SaveSubject, Saving
<1>4. client[c].queue # <<>> /\ v \in Versions /\ record.month \in Months
  BY <1>1, <1>2, <1>3, RecordReady, Zenon DEF Ready
<1>5. subject[v] # None => Stored(subject[v])
  BY <1>4, Zenon DEF Stored
<1>6. /\ now' = now /\ definitions' = definitions /\ published' = published
      /\ universes' = universes /\ policyProposals' = policyProposals
      /\ policyApprovals' = policyApprovals /\ evaluationProposals' = evaluationProposals
      /\ evaluationApprovals' = evaluationApprovals /\ finalization' = finalization
  BY Zenon DEF SaveSubject
<1>7. CASE UNCHANGED subject /\ Replay(c, subject[v], subject[v] = record)
  <2>1. UNCHANGED <<now, tables>>
    BY <1>6, <1>7, Zenon DEF tables
  <2> QED
    BY <1>4, <1>5, <1>7, <2>1, ReplayStep, Zenon
<1>8. CASE /\ subject[v] = None /\ definitions[v] = None /\ Answered(c, record)
           /\ subject' = [subject EXCEPT ![v] = record]
  <2>1. now \in Nat /\ now' \in Nat /\ DOMAIN subject = Versions
    BY <1>6, Zenon DEF MonthsInv, Tables, Types
  <2>2. Grows
    BY <1>4, <1>6, <1>8, <2>1 DEF Grows
  <2>3. Types'
    BY <1>6, <1>8, Zenon DEF MonthsInv, Tables, Types
  <2>4. \A a, b \in policyApprovals' : a.proposal.month = b.proposal.month => a = b
    BY <1>6, Zenon DEF MonthsInv, Tables, Rows
  <2>5. \A w \in Versions : \/ subject'[w] = subject[w]
                            \/ subject'[w].version = w /\ subject'[w].month \in Months
    BY <1>2, <1>4, <1>8, <2>1, Zenon
  <2>6. Rows'
    BY <1>6, <2>1, <2>2, <2>4, <2>5, RowsGrow, Zenon DEF MonthsInv
  <2>7. finalization[v] = None
    BY <1>4, <1>8, Zenon DEF MonthsInv, Tables, Reservations, Finalizes
  <2>8. Reservations'
    <3> SUFFICES ASSUME NEW w \in Versions
                 PROVE  /\ published[w] # <<>> => definitions[w] # None
                        /\ finalization[w] # None =>
                             /\ Finalizes(finalization[w], w)'
                             /\ definitions[w] = finalization[w].definition
                             /\ published[w] # <<>>
                             /\ published[w][1].rev = finalization[w].approval.proposal.target
                             /\ finalization[w].approval.proposal.universe \in universes
                        /\ subject'[w] # None => ((definitions[w] # None) <=> (finalization[w] # None))
      BY <1>6, Zenon DEF Reservations, Finalizes
    <3>1. finalization[w] # None => Finalizes(finalization[w], w)'
      BY <1>6, <2>2, Zenon DEF MonthsInv, Tables, Reservations, Finalizes, Grows
    <3>2. CASE w = v
      BY <1>4, <1>8, <2>1, <2>7, <3>2, Zenon DEF MonthsInv, Tables, Reservations
    <3>3. CASE w # v
      BY <1>8, <2>1, <3>1, <3>3, Zenon DEF MonthsInv, Tables, Reservations
    <3> QED
      BY <3>2, <3>3, Zenon
  <2>9. Tables'
    BY <1>6, <2>3, <2>6, <2>8, ChainsSame, Zenon DEF MonthsInv, Tables
  <2>10. Stored(record)'
    BY <1>4, <1>8, <2>1, Zenon DEF Stored
  <2> QED
    BY <1>4, <1>8, <2>2, <2>9, <2>10, SaveStep, Zenon
<1> QED
  BY <1>1, <1>2, <1>7, <1>8, Zenon DEF SaveSubject

-----------------------------------------------------------------------------
(* Steps that publish a revision.                                          *)

\* A new revision is appended to the membership of a version.
Publishes(v, r) ==
    /\ v \in Versions /\ r \in RevisionRows /\ r.rev \notin Revisions(v)
    /\ published' = [published EXCEPT ![v] = Append(@, r)]

LEMMA Appended ==
    ASSUME Tables, NEW v, NEW r, Publishes(v, r)
    PROVE  /\ published' \in [Versions -> Seq(RevisionRows)]
           /\ Len(published[v]) \in Nat /\ DOMAIN published[v] = 1 .. Len(published[v])
           /\ DOMAIN published'[v] = 1 .. (Len(published[v]) + 1)
           /\ published'[v][Len(published[v]) + 1] = r
           /\ \A w \in Versions : \A i \in DOMAIN published[w] :
                i \in DOMAIN published'[w] /\ published'[w][i] = published[w][i]
           /\ \A w \in Versions : w # v => published'[w] = published[w]
           /\ \A i \in DOMAIN published[v] : published[v][i].rev # r.rev
<1>1. v \in Versions /\ published \in [Versions -> Seq(RevisionRows)]
  BY Zenon DEF Tables, Types, Publishes
<1>2. PICK s \in Seq(RevisionRows) : s = published[v]
  BY <1>1, Zenon
<1>3. published' = [published EXCEPT ![v] = Append(s, r)] /\ r \in RevisionRows
  BY <1>2, Zenon DEF Publishes
<1>4. /\ Append(s, r) \in Seq(RevisionRows) /\ DOMAIN Append(s, r) = 1 .. (Len(s) + 1)
      /\ Append(s, r)[Len(s) + 1] = r /\ DOMAIN s = 1 .. Len(s) /\ Len(s) \in Nat
      /\ \A i \in 1 .. Len(s) : Append(s, r)[i] = s[i]
  BY <1>2, <1>3
<1>5. published'[v] = Append(s, r) /\ \A w \in Versions : w # v => published'[w] = published[w]
  BY <1>1, <1>3, Zenon
<1>6. \A w \in Versions : \A i \in DOMAIN published[w] :
         i \in DOMAIN published'[w] /\ published'[w][i] = published[w][i]
  <2>1. ASSUME NEW i \in DOMAIN published[v]
        PROVE  i \in DOMAIN published'[v] /\ published'[v][i] = published[v][i]
    BY <1>2, <1>4, <1>5, <2>1
  <2> QED
    BY <1>5, <2>1, Zenon
<1>7. published' \in [Versions -> Seq(RevisionRows)]
  BY <1>1, <1>3, <1>4, Zenon
<1>8. \A i \in DOMAIN published[v] : published[v][i].rev # r.rev
  BY Zenon DEF Publishes, Revisions
<1> QED
  BY <1>2, <1>4, <1>5, <1>6, <1>7, <1>8, Zenon

\* The revisions of a version keep different names.
LEMMA RevisionsDiffer ==
    ASSUME Tables, NEW v, NEW r, Publishes(v, r)
    PROVE  (\A w \in Versions : \A i, j \in DOMAIN published[w] :
               published[w][i].rev = published[w][j].rev => i = j)'
<1>1. /\ Len(published[v]) \in Nat /\ DOMAIN published[v] = 1 .. Len(published[v])
      /\ DOMAIN published'[v] = 1 .. (Len(published[v]) + 1)
      /\ published'[v][Len(published[v]) + 1] = r
      /\ \A w \in Versions : \A i \in DOMAIN published[w] :
            i \in DOMAIN published'[w] /\ published'[w][i] = published[w][i]
      /\ \A w \in Versions : w # v => published'[w] = published[w]
      /\ \A i \in DOMAIN published[v] : published[v][i].rev # r.rev
  BY Appended
<1>2. v \in Versions
  BY Zenon DEF Publishes
<1> SUFFICES ASSUME NEW w \in Versions, NEW i \in DOMAIN published'[w], NEW j \in DOMAIN published'[w],
                    published'[w][i].rev = published'[w][j].rev
             PROVE  i = j
  BY Zenon
<1>3. CASE w # v
  BY <1>1, <1>3 DEF Tables, Chains
<1>4. CASE w = v
  <2>1. \A k \in DOMAIN published'[v] : k \in DOMAIN published[v] \/ k = Len(published[v]) + 1
    BY <1>1
  <2>2. CASE i \in DOMAIN published[v] /\ j \in DOMAIN published[v]
    BY <1>1, <1>2, <1>4, <2>2 DEF Tables, Chains
  <2>3. CASE i = Len(published[v]) + 1 /\ j \in DOMAIN published[v]
    BY <1>1, <1>2, <1>4, <2>3, Zenon
  <2>4. CASE j = Len(published[v]) + 1 /\ i \in DOMAIN published[v]
    BY <1>1, <1>2, <1>4, <2>4, Zenon
  <2> QED
    BY <1>4, <2>1, <2>2, <2>3, <2>4, Zenon
<1> QED
  BY <1>3, <1>4, Zenon

\* A published month stays where it stands.
LEMMA StandsKept ==
    ASSUME Tables, NEW v, NEW r, Publishes(v, r), NEW a, a.proposal.version \in Versions, Stands(a)
    PROVE  PublishedAt(a)' = PublishedAt(a) /\ Stands(a)'
<1>1. PICK p : p = a.proposal
  BY Zenon
<1>2. PICK w \in Versions : w = p.version
  BY <1>1, Zenon
<1>3. PICK row : row = Revision(p.target, p.parent, p.eval)
  BY Zenon
<1>4. PublishedAt(a) = {i \in DOMAIN published[w] : published[w][i] = row}
  BY <1>1, <1>2, <1>3, Zenon DEF PublishedAt
<1>5. PublishedAt(a)' = {i \in DOMAIN published'[w] : published'[w][i] = row}
  BY <1>1, <1>2, <1>3, Zenon DEF PublishedAt
<1>6. PICK k \in PublishedAt(a) : k > 1 /\ published[w][k - 1].rev = p.parent
  BY <1>1, <1>2, Zenon DEF Stands
<1>7. /\ Len(published[v]) \in Nat /\ DOMAIN published[v] = 1 .. Len(published[v])
      /\ DOMAIN published'[v] = 1 .. (Len(published[v]) + 1)
      /\ published'[v][Len(published[v]) + 1] = r
      /\ \A u \in Versions : \A i \in DOMAIN published[u] :
            i \in DOMAIN published'[u] /\ published'[u][i] = published[u][i]
      /\ \A u \in Versions : u # v => published'[u] = published[u]
      /\ \A i \in DOMAIN published[v] : published[v][i].rev # r.rev
  BY Appended
<1>8. w = v => row # r
  BY <1>4, <1>6, <1>7, Zenon
<1>9. \A i \in DOMAIN published'[w] : published'[w][i] = row => i \in DOMAIN published[w]
  BY <1>7, <1>8
<1>10. PublishedAt(a)' = PublishedAt(a)
  BY <1>4, <1>5, <1>7, <1>9
<1>11. DOMAIN published[w] = 1 .. Len(published[w]) /\ Len(published[w]) \in Nat
  BY DEF Tables, Types
<1>12. k - 1 \in DOMAIN published[w]
  BY <1>4, <1>6, <1>11
<1>13. published'[w][k - 1].rev = p.parent
  BY <1>6, <1>7, <1>12, Zenon
<1> QED
  BY <1>1, <1>2, <1>6, <1>10, <1>13, Zenon DEF Stands

\* An amendment is of the legacy path.
LEMMA AmendmentIsLegacy ==
    ASSUME Tables, NEW a \in evaluationApprovals
    PROVE  /\ a.proposal.version \in Versions /\ a.proposal.month \in Months
           /\ a.proposal.amends # None => a.proposal.subject = None
BY Zenon DEF Tables, Rows, Approved, Evaluated

\* The stored chains survive a publication.
LEMMA ChainsKept ==
    ASSUME Tables, NEW v, NEW r, Publishes(v, r)
    PROVE  /\ \A a \in evaluationApprovals : a.proposal.subject = None => Stands(a)'
           /\ \A a, b \in evaluationApprovals : Amends(a, b) /\ a.proposal.amends # None => Amends(a, b)'
           /\ \A a, b \in evaluationApprovals : Later(b, a) => PublishedBefore(a, b)'
<1>1. ASSUME NEW a \in evaluationApprovals, a.proposal.subject = None
      PROVE  Stands(a)' /\ PublishedAt(a)' = PublishedAt(a)
  BY <1>1, StandsKept, AmendmentIsLegacy, Zenon DEF Tables, Chains
<1>2. ASSUME NEW a \in evaluationApprovals, NEW b \in evaluationApprovals,
             a.proposal.subject = None, b.proposal.subject = None, PublishedBefore(a, b)
      PROVE  PublishedBefore(a, b)'
  BY <1>1, <1>2, Zenon DEF PublishedBefore
<1>3. ASSUME NEW a \in evaluationApprovals, NEW b \in evaluationApprovals,
             Amends(a, b), a.proposal.amends # None
      PROVE  Amends(a, b)'
  BY <1>2, <1>3, AmendmentIsLegacy, Zenon DEF Amends
<1>4. ASSUME NEW a \in evaluationApprovals, NEW b \in evaluationApprovals, Later(b, a)
      PROVE  PublishedBefore(a, b)'
  BY <1>2, <1>4, AmendmentIsLegacy, Zenon DEF Tables, Chains, Later
<1> QED
  BY <1>1, <1>3, <1>4, Zenon

\* A publication that approves no month.
LEMMA ChainsAppended ==
    ASSUME Tables, NEW v, NEW r, Publishes(v, r), UNCHANGED evaluationApprovals
    PROVE  Chains'
<1>1. \A a, b : Later(b, a)' <=> Later(b, a)
  BY Zenon DEF Later
<1>2. \A a \in evaluationApprovals :
         a.proposal.amends # None => \E b \in evaluationApprovals : Amends(a, b)'
  BY ChainsKept, Zenon DEF Tables, Chains
<1> QED
  BY <1>1, <1>2, RevisionsDiffer, ChainsKept, Zenon DEF Tables, Chains

\* What is published keeps its first revision.
LEMMA FirstKept ==
    ASSUME Tables, NEW v, NEW r, Publishes(v, r), NEW w \in Versions, published[w] # <<>>
    PROVE  published'[w] # <<>> /\ published'[w][1] = published[w][1]
<1>1. published[w] \in Seq(RevisionRows) /\ published'[w] \in Seq(RevisionRows)
  BY Appended, Zenon DEF Tables, Types
<1>2. 1 \in DOMAIN published[w]
  BY <1>1
<1>3. 1 \in DOMAIN published'[w] /\ published'[w][1] = published[w][1]
  BY <1>2, Appended, Zenon
<1> QED
  BY <1>3

\* A publication onto a version that is defined.
LEMMA ReservationsPublished ==
    ASSUME Tables, Grows, NEW v, NEW r, Publishes(v, r), definitions[v] # None,
           UNCHANGED <<definitions, subject, finalization>>
    PROVE  Reservations'
<1> SUFFICES ASSUME NEW w \in Versions
             PROVE  /\ published'[w] # <<>> => definitions[w] # None
                    /\ finalization[w] # None =>
                         /\ Finalizes(finalization[w], w)'
                         /\ definitions[w] = finalization[w].definition
                         /\ published'[w] # <<>>
                         /\ published'[w][1].rev = finalization[w].approval.proposal.target
                         /\ finalization[w].approval.proposal.universe \in universes'
                    /\ subject[w] # None => ((definitions[w] # None) <=> (finalization[w] # None))
  BY Zenon DEF Reservations, Finalizes
<1>1. published'[w] # <<>> => definitions[w] # None
  BY Appended, Zenon DEF Tables, Reservations
<1>2. finalization[w] # None => Finalizes(finalization[w], w)'
  BY Zenon DEF Tables, Reservations, Finalizes, Grows
<1>3. finalization[w] # None => published'[w] # <<>> /\ published'[w][1] = published[w][1]
  BY FirstKept, Zenon DEF Tables, Reservations
<1> QED
  BY <1>1, <1>2, <1>3, Zenon DEF Tables, Reservations, Grows

LEMMA SaveRevisionStep ==
    ASSUME WellPosed, MonthsInv, NEW c \in Clients, SaveRevision(c)
    PROVE  MonthsInv' /\ Grows
<1>1. PICK cmd : cmd = Command(c)
  BY Zenon
<1>2. PICK v : v = cmd.version
  BY Zenon
<1>3. PICK r : r = Revision(cmd.rev, cmd.parent, None)
  BY Zenon
<1>4. client[c].queue # <<>>
  BY Zenon DEF SaveRevision, May
<1>5. v \in Versions /\ r \in RevisionRows /\ r.rev = cmd.rev
  <2>1. cmd.rev \in Names /\ cmd.parent \in Names /\ None \in Names /\ v \in Versions
    BY <1>1, <1>2, <1>4, CommandType, Zenon DEF MonthsInv, Names
  <2> QED
    BY <1>3, <2>1, Zenon DEF Revision, RevisionRows
<1>6. /\ now' = now /\ definitions' = definitions
      /\ universes' = universes /\ policyProposals' = policyProposals
      /\ policyApprovals' = policyApprovals /\ evaluationProposals' = evaluationProposals
      /\ evaluationApprovals' = evaluationApprovals /\ subject' = subject
      /\ finalization' = finalization
  BY Zenon DEF SaveRevision
<1>7. CASE Refused(c) /\ UNCHANGED published
  <2>1. UNCHANGED <<now, tables>>
    BY <1>6, <1>7, Zenon DEF tables
  <2> QED
    BY <1>4, <1>7, <2>1, RefuseStep, Zenon
<1>8. CASE /\ definitions[v] # None /\ r.rev \notin Revisions(v) /\ Answered(c, r)
           /\ published' = [published EXCEPT ![v] = Append(@, r)]
  <2>1. Publishes(v, r) /\ Tables
    BY <1>5, <1>8, Zenon DEF Publishes, MonthsInv
  <2>2. now \in Nat /\ now' \in Nat
    BY <1>6, <2>1, Zenon DEF Tables, Types
  <2>3. Grows
    BY <1>6, <2>1, <2>2, Appended DEF Grows
  <2>4. Types'
    BY <1>6, <2>1, Appended, Zenon DEF Tables, Types
  <2>5. \A a, b \in policyApprovals' : a.proposal.month = b.proposal.month => a = b
    BY <1>6, <2>1, Zenon DEF Tables, Rows
  <2>6. Rows'
    BY <1>6, <2>1, <2>2, <2>3, <2>5, RowsGrow, Zenon
  <2>7. Reservations' /\ Chains'
    BY <1>6, <1>8, <2>1, <2>3, ReservationsPublished, ChainsAppended, Zenon
  <2>8. Stored(r)'
    <3>1. \E i \in DOMAIN published'[v] : published'[v][i] = r
      BY <2>1, Appended
    <3> QED
      BY <1>5, <3>1, Zenon DEF Stored
  <2> QED
    BY <1>4, <1>8, <2>3, <2>4, <2>6, <2>7, <2>8, SaveStep, Zenon DEF Tables
<1>9. r.rev = cmd.rev
  BY <1>5, Zenon
<1> QED
  BY <1>1, <1>2, <1>3, <1>7, <1>8, <1>9, Zenon DEF SaveRevision

LEMMA SaveFinalizeStep ==
    ASSUME WellPosed, MonthsInv, NEW c \in Clients, SaveFinalize(c)
    PROVE  MonthsInv' /\ Grows
<1>1. PICK record : record = client[c].record
  BY Zenon
<1>2. PICK v : v = record.definition.version
  BY Zenon
<1>3. PICK p : p = record.approval.proposal
  BY Zenon
<1>4. PICK r : r = Revision(p.target, None, p.eval)
  BY Zenon
<1>5. record # None /\ Command(c).op = "FINALIZE"
  BY <1>1, Zenon DEF SaveFinalize, Saving
<1>6. client[c].queue # <<>> /\ Finalizes(record, v) /\ v \in Versions
  BY <1>1, <1>2, <1>5, RecordReady, Zenon DEF Ready, Finalizes
<1>7. finalization[v] # None => Stored(finalization[v])
  BY <1>6, Zenon DEF Stored
<1>8. /\ now' = now /\ policyProposals' = policyProposals
      /\ policyApprovals' = policyApprovals /\ evaluationProposals' = evaluationProposals
      /\ evaluationApprovals' = evaluationApprovals /\ subject' = subject
  BY Zenon DEF SaveFinalize
<1>9. CASE /\ UNCHANGED <<definitions, published, universes, finalization>>
           /\ Replay(c, finalization[v], /\ finalization[v].definition = record.definition
                                         /\ finalization[v].approval = record.approval)
  <2>1. UNCHANGED <<now, tables>>
    BY <1>8, <1>9, Zenon DEF tables
  <2> QED
    BY <1>6, <1>7, <1>9, <2>1, ReplayStep, Zenon
<1>10. CASE /\ finalization[v] = None /\ Answered(c, record)
            /\ definitions' = [definitions EXCEPT ![v] = record.definition]
            /\ published' = [published EXCEPT ![v] = Append(@, r)]
            /\ universes' = universes \cup {p.universe}
            /\ finalization' = [finalization EXCEPT ![v] = record]
  <2>1. /\ now \in Nat /\ now' \in Nat
        /\ DOMAIN definitions = Versions /\ DOMAIN finalization = Versions
    BY <1>8, Zenon DEF MonthsInv, Tables, Types
  <2>2. definitions[v] = None /\ published[v] = <<>> /\ subject[v] # None
    BY <1>6, <1>10, Zenon DEF MonthsInv, Tables, Reservations, Finalizes
  <2>3. record.approval \in evaluationApprovals /\ Evaluated(p)
    BY <1>3, <1>6, Zenon DEF MonthsInv, Tables, Rows, Approved, Finalizes
  <2>4. r \in RevisionRows /\ r.rev = p.target
    <3>1. p.target \in Names /\ None \in Names /\ p.eval \in Names
      BY <2>3, Zenon DEF Evaluated, Names
    <3> QED
      BY <1>4, <3>1, Zenon DEF Revision, RevisionRows
  <2>5. Publishes(v, r) /\ Tables
    <3>1. DOMAIN published[v] = {}
      BY <2>2
    <3> QED
      BY <1>6, <1>10, <2>4, <3>1, Zenon DEF Publishes, Revisions, MonthsInv
  <2>6. Grows
    BY <1>6, <1>8, <1>10, <2>1, <2>2, <2>5, Appended DEF Grows
  <2>7. Types'
    BY <1>8, <1>10, <2>1, <2>5, Appended, Zenon DEF Tables, Types
  <2>8. \A a, b \in policyApprovals' : a.proposal.month = b.proposal.month => a = b
    BY <1>8, <2>5, Zenon DEF Tables, Rows
  <2>9. \A u \in universes' : u \in universes \/ ("generated" \in DOMAIN u /\ u.generated \in Int)
    BY <1>10, <2>3, Zenon DEF Evaluated
  <2>10. Rows'
    BY <1>8, <2>1, <2>5, <2>6, <2>8, <2>9, RowsGrow, Zenon
  <2>11. Reservations'
    <3> SUFFICES ASSUME NEW w \in Versions
                 PROVE  /\ published'[w] # <<>> => definitions'[w] # None
                        /\ finalization'[w] # None =>
                             /\ Finalizes(finalization[w], w)'
                             /\ definitions'[w] = finalization'[w].definition
                             /\ published'[w] # <<>>
                             /\ published'[w][1].rev = finalization'[w].approval.proposal.target
                             /\ finalization'[w].approval.proposal.universe \in universes'
                        /\ subject'[w] # None => ((definitions'[w] # None) <=> (finalization'[w] # None))
      BY Zenon DEF Reservations
    <3>1. CASE w = v
      <4>1. finalization'[v] = record /\ definitions'[v] = record.definition
        BY <1>6, <1>10, <2>1, Zenon
      <4>2. Finalizes(record, v)'
        BY <1>6, <2>6, FinalizesKept, Zenon
      <4>3. Finalizes(finalization[w], w)'
        BY <3>1, <4>1, <4>2, Zenon DEF Finalizes
      <4>4. published'[v][1] = r /\ 1 \in DOMAIN published'[v]
        BY <2>2, <2>5, Appended
      <4>5. published'[v] # <<>>
        BY <4>4
      <4>6. record.definition # None
        BY <1>6, Zenon DEF Finalizes
      <4>7. p.universe \in universes'
        BY <1>10, Zenon
      <4>8. /\ published'[w][1].rev = finalization'[w].approval.proposal.target
            /\ finalization'[w].approval.proposal.universe \in universes'
        BY <1>3, <2>4, <3>1, <4>1, <4>4, <4>7, Zenon
      <4>9. definitions'[w] # None /\ finalization'[w] # None
            /\ definitions'[w] = finalization'[w].definition /\ published'[w] # <<>>
        BY <1>5, <3>1, <4>1, <4>5, <4>6, Zenon
      <4> QED
        BY <4>3, <4>8, <4>9, Zenon
    <3>2. CASE w # v
      <4>1. /\ finalization'[w] = finalization[w] /\ definitions'[w] = definitions[w]
            /\ published'[w] = published[w] /\ subject'[w] = subject[w]
        BY <1>8, <1>10, <2>1, <2>5, <3>2, Appended, Zenon
      <4>2. finalization[w] # None => Finalizes(finalization[w], w)'
        BY <2>5, <2>6, <4>1, Zenon DEF Tables, Reservations, Finalizes, Grows
      <4>3. /\ published[w] # <<>> => definitions[w] # None
            /\ finalization[w] # None =>
                 /\ definitions[w] = finalization[w].definition /\ published[w] # <<>>
                 /\ published[w][1].rev = finalization[w].approval.proposal.target
                 /\ finalization[w].approval.proposal.universe \in universes
            /\ subject[w] # None => ((definitions[w] # None) <=> (finalization[w] # None))
        BY <2>5, Zenon DEF Tables, Reservations
      <4>4. universes \subseteq universes'
        BY <1>10, Zenon
      <4> QED
        BY <4>1, <4>2, <4>3, <4>4, Zenon
    <3> QED
      BY <3>1, <3>2, Zenon
  <2>12. Chains'
    BY <1>8, <2>5, ChainsAppended, Zenon
  <2>13. Stored(record)'
    BY <1>6, <1>10, <2>1, Zenon DEF Stored
  <2> QED
    BY <1>6, <1>10, <2>6, <2>7, <2>10, <2>11, <2>12, <2>13, SaveStep, Zenon DEF Tables
<1> QED
  BY <1>1, <1>2, <1>3, <1>4, <1>9, <1>10, Zenon DEF SaveFinalize

\* What the transaction that approves a month has checked.
MayPublish(p) ==
    /\ IF p.amends # None THEN RequireAmendment(p) ELSE ApprovalsOf(p.month) = {}
    /\ CurrentParent(p) /\ p.target \notin Revisions(p.version)

\* The new month stands at the end, after every other month of the version.
LEMMA NewMonthStands ==
    ASSUME Tables, NEW record, NEW p, p = record.proposal, MayPublish(p),
           Publishes(p.version, Revision(p.target, p.parent, p.eval))
    PROVE  /\ Stands(record)'
           /\ \A a \in evaluationApprovals :
                a.proposal.subject = None /\ a.proposal.version = p.version => PublishedBefore(a, record)'
<1>1. PICK v \in Versions : v = p.version
  BY Zenon DEF Publishes
<1>2. PICK r : r = Revision(p.target, p.parent, p.eval)
  BY Zenon
<1>3. PICK n : n = Len(published[v])
  BY Zenon
<1>4. /\ n \in Nat /\ DOMAIN published[v] = 1 .. n
      /\ DOMAIN published'[v] = 1 .. (n + 1) /\ published'[v][n + 1] = r
      /\ \A i \in DOMAIN published[v] : published'[v][i] = published[v][i]
      /\ \A i \in DOMAIN published[v] : published[v][i].rev # r.rev
  BY <1>1, <1>2, <1>3, Appended
<1>5. PublishedAt(record)' = {i \in DOMAIN published'[v] : published'[v][i] = r}
  BY <1>1, <1>2, Zenon DEF PublishedAt
<1>6. PublishedAt(record)' = {n + 1}
  <2>1. n + 1 \in DOMAIN published'[v]
    BY <1>4
  <2>2. ASSUME NEW i \in DOMAIN published'[v], published'[v][i] = r
        PROVE  i = n + 1
    BY <1>4, <2>2
  <2> QED
    BY <1>4, <1>5, <2>1, <2>2, Zenon
<1>7. published[v] # <<>> /\ published[v][n].rev = p.parent
  BY <1>1, <1>3, Zenon DEF MayPublish, CurrentParent
<1>8. n >= 1
  <2>1. published[v] \in Seq(RevisionRows)
    BY Zenon DEF Tables, Types
  <2> QED
    BY <1>3, <1>7, <2>1
<1>9. published'[v][n].rev = p.parent
  BY <1>4, <1>7, <1>8
<1>10. (n + 1) - 1 = n /\ n + 1 > 1
  BY <1>4, <1>8
<1>11. Stands(record)'
  BY <1>1, <1>6, <1>9, <1>10, Zenon DEF Stands
<1>12. ASSUME NEW a \in evaluationApprovals, a.proposal.subject = None, a.proposal.version = p.version
       PROVE  PublishedBefore(a, record)'
  <2>1. Stands(a)
    BY <1>12, Zenon DEF Tables, Chains
  <2>2. PublishedAt(a)' = PublishedAt(a)
    BY <1>1, <1>12, <2>1, StandsKept, Zenon
  <2>3. PublishedAt(a) \subseteq 1 .. n
    BY <1>1, <1>4, <1>12, Zenon DEF PublishedAt
  <2>4. \A i \in 1 .. n : i < n + 1
    BY <1>4
  <2> QED
    BY <1>6, <2>2, <2>3, <2>4, Zenon DEF PublishedBefore
<1> QED
  BY <1>11, <1>12, Zenon

\* An amendment extends the one chain of its month.
LEMMA AmendmentExtends ==
    ASSUME Tables, NEW p, p.amends # None, MayPublish(p), p.month \in Int
    PROVE  /\ \E last \in evaluationApprovals :
                /\ last.proposal.month = p.month /\ last.proposal.version = p.version
                /\ last.proposal.eval = p.amends /\ last.proposal.subject = None
           /\ \A a \in evaluationApprovals :
                a.proposal.month = p.month => a.proposal.amends # p.amends
           /\ \A a \in evaluationApprovals : a.proposal.month <= p.month
<1>1. RequireAmendment(p)
  BY Zenon DEF MayPublish
<1>2. PICK last \in ApprovalsOf(p.month) : Tips(ApprovalsOf(p.month)) = {last} /\ last.proposal.eval = p.amends
  BY <1>1, Zenon DEF RequireAmendment
<1>3. /\ last \in evaluationApprovals /\ last.proposal.month = p.month
      /\ last.proposal.subject = None /\ last.proposal.version = p.version
  BY <1>1, <1>2, Zenon DEF RequireAmendment, ApprovalsOf
<1>4. \A b \in ApprovalsOf(p.month) : b.proposal.amends # last.proposal.eval
  BY <1>2, Zenon DEF Tips
<1>5. \A a \in evaluationApprovals : a.proposal.month <= p.month
  BY <1>1, Zenon DEF RequireAmendment, NoLaterMonth
<1> QED
  BY <1>2, <1>3, <1>4, <1>5, Zenon DEF ApprovalsOf

LEMMA ChainsExtended ==
    ASSUME WellPosed, Tables, NEW record, NEW p, p = record.proposal, MayPublish(p),
           p.subject = None, p.month \in Months,
           Publishes(p.version, Revision(p.target, p.parent, p.eval)),
           evaluationApprovals' = evaluationApprovals \cup {record}
    PROVE  Chains'
<1>1. Stands(record)'
  BY NewMonthStands, Zenon
<1>2. \A a \in evaluationApprovals :
        a.proposal.subject = None /\ a.proposal.version = p.version => PublishedBefore(a, record)'
  BY NewMonthStands, Zenon
<1>3. p.month \in Int /\ \A a \in evaluationApprovals : a.proposal.month \in Int
  BY AmendmentIsLegacy, Zenon DEF WellPosed
<1>4. p.amends = None => \A a \in evaluationApprovals : a.proposal.month # p.month
  BY Zenon DEF MayPublish, ApprovalsOf
<1>5. p.amends # None =>
        /\ \E last \in evaluationApprovals :
             /\ last.proposal.month = p.month /\ last.proposal.version = p.version
             /\ last.proposal.eval = p.amends /\ last.proposal.subject = None
        /\ \A a \in evaluationApprovals : a.proposal.month = p.month => a.proposal.amends # p.amends
        /\ \A a \in evaluationApprovals : a.proposal.month <= p.month
  BY <1>3, AmendmentExtends, Zenon
<1>6. \A a \in evaluationApprovals' : a.proposal.subject = None => Stands(a)'
  BY <1>1, ChainsKept, Zenon
<1>7. ASSUME NEW a \in evaluationApprovals'
      PROVE  \E root \in evaluationApprovals' :
                root.proposal.month = a.proposal.month /\ root.proposal.amends = None
  <2>1. CASE a \in evaluationApprovals
    BY <2>1, Zenon DEF Tables, Chains
  <2>2. CASE a = record
    BY <1>5, <2>2 DEF Tables, Chains
  <2> QED
    BY <2>1, <2>2, Zenon
<1>8. ASSUME NEW a \in evaluationApprovals', NEW b \in evaluationApprovals',
             a.proposal.month = b.proposal.month, a.proposal.amends = b.proposal.amends
      PROVE  a = b
  <2>1. \A d \in evaluationApprovals :
          ~(d.proposal.month = p.month /\ d.proposal.amends = p.amends)
    BY <1>4, <1>5, Zenon
  <2> QED
    BY <1>8, <2>1, Zenon DEF Tables, Chains
<1>9. ASSUME NEW a \in evaluationApprovals', a.proposal.amends # None
      PROVE  \E b \in evaluationApprovals' : Amends(a, b)'
  <2>1. CASE a \in evaluationApprovals
    BY <1>9, <2>1, ChainsKept, Zenon DEF Tables, Chains
  <2>2. CASE a = record
    <3>1. PICK last \in evaluationApprovals :
             /\ last.proposal.month = p.month /\ last.proposal.version = p.version
             /\ last.proposal.eval = p.amends /\ last.proposal.subject = None
      BY <1>5, <1>9, <2>2, Zenon
    <3>2. Amends(record, last)'
      BY <1>2, <3>1, Zenon DEF Amends
    <3> QED
      BY <2>2, <3>1, <3>2, Zenon
  <2> QED
    BY <2>1, <2>2, Zenon
<1>10. ASSUME NEW a \in evaluationApprovals', NEW b \in evaluationApprovals', Later(b, a)
       PROVE  b.proposal.subject = None /\ PublishedBefore(a, b)'
  <2>1. CASE a \in evaluationApprovals /\ b \in evaluationApprovals
    BY <1>10, <2>1, ChainsKept, Zenon DEF Tables, Chains
  <2>2. CASE a = record
    <3>1. b.proposal.month \in Int /\ b.proposal.month <= p.month
      BY <1>3, <1>5, <1>10, <2>2, Zenon DEF Later
    <3> QED
      BY <1>3, <1>10, <2>2, <3>1 DEF Later
  <2>3. CASE a \in evaluationApprovals /\ b = record
    BY <1>2, <1>10, <2>3, AmendmentIsLegacy, Zenon DEF Later
  <2> QED
    BY <2>1, <2>2, <2>3, Zenon
<1>11. \A a, b : Later(b, a)' <=> Later(b, a)
  BY Zenon DEF Later
<1> QED
  BY <1>6, <1>7, <1>8, <1>9, <1>10, <1>11, RevisionsDiffer, Zenon DEF Chains

LEMMA SaveApprovalStep ==
    ASSUME WellPosed, MonthsInv, NEW c \in Clients, SaveApproval(c)
    PROVE  MonthsInv' /\ Grows
<1>1. PICK record : record = client[c].record
  BY Zenon
<1>2. PICK p : p = record.proposal
  BY Zenon
<1>3. PICK retained : retained = Approval(p.version, p.eval, None)
  BY Zenon
<1>4. PICK r : r = Revision(p.target, p.parent, p.eval)
  BY Zenon
<1>5. record # None /\ Command(c).op = "APPROVE"
  BY <1>1, Zenon DEF SaveApproval, Saving
<1>6. client[c].queue # <<>> /\ Approved(record) /\ p.subject = None
  BY <1>1, <1>2, <1>5, RecordReady, Zenon DEF Ready
<1>7. Evaluated(p)
  BY <1>2, <1>6, Zenon DEF Approved, MonthsInv, Tables, Rows
<1>8. retained # None => Stored(retained)
  BY <1>3, Lookups, Zenon DEF Stored
<1>9. /\ now' = now /\ definitions' = definitions /\ policyProposals' = policyProposals
      /\ policyApprovals' = policyApprovals /\ evaluationProposals' = evaluationProposals
      /\ subject' = subject /\ finalization' = finalization
  BY Zenon DEF SaveApproval
<1>10. CASE /\ UNCHANGED <<published, universes, evaluationApprovals>>
            /\ Refused(c) \/ Replay(c, retained, retained.by = Actor[c])
  <2>1. UNCHANGED <<now, tables>>
    BY <1>9, <1>10, Zenon DEF tables
  <2>2. CASE Refused(c)
    BY <1>6, <2>1, <2>2, RefuseStep, Zenon
  <2>3. CASE Replay(c, retained, retained.by = Actor[c])
    BY <1>6, <1>8, <2>1, <2>3, ReplayStep, Zenon
  <2> QED
    BY <1>10, <2>2, <2>3, Zenon
<1>11. CASE /\ IF p.amends # None THEN RequireAmendment(p) ELSE ApprovalsOf(p.month) = {}
            /\ CurrentParent(p) /\ p.target \notin Revisions(p.version)
            /\ Answered(c, record)
            /\ published' = [published EXCEPT ![p.version] = Append(@, r)]
            /\ universes' = universes \cup {PublishedUniverse(p)}
            /\ evaluationApprovals' = evaluationApprovals \cup {record}
  <2>1. MayPublish(p) /\ Tables
    BY <1>11, Zenon DEF MayPublish, MonthsInv
  <2>2. p.version \in Versions /\ p.month \in Months
    BY <1>7, Zenon DEF Evaluated
  <2>3. Publishes(p.version, r)
    <3>1. r \in RevisionRows /\ r.rev = p.target
      BY <1>4, <1>7, Zenon DEF Revision, RevisionRows, Evaluated
    <3> QED
      BY <1>11, <2>2, <3>1, Zenon DEF Publishes
  <2>4. now \in Nat /\ now' \in Nat
    BY <1>9, <2>1, Zenon DEF Tables, Types
  <2>5. Grows
    BY <1>9, <1>11, <2>3, <2>1, <2>4, Appended DEF Grows
  <2>6. Types'
    BY <1>9, <2>1, <2>3, Appended, Zenon DEF Tables, Types
  <2>7. \A a, b \in policyApprovals' : a.proposal.month = b.proposal.month => a = b
    BY <1>9, <2>1, Zenon DEF Tables, Rows
  <2>8. \A a \in evaluationApprovals' : a \in evaluationApprovals \/ Approved(a)'
    BY <1>6, <1>11, <2>5, ApprovedKept, Zenon
  <2>9. \A u \in universes' : u \in universes \/ ("generated" \in DOMAIN u /\ u.generated \in Int)
    <3>1. PICK u0 : u0 = p.universe
      BY Zenon
    <3>2. "generated" \in DOMAIN u0 /\ u0.generated \in Int
      BY <1>7, <3>1, Zenon DEF Evaluated
    <3>3. /\ "generated" \in DOMAIN PublishedUniverse(p)
          /\ PublishedUniverse(p).generated \in Int
      BY <3>1, <3>2, Zenon DEF PublishedUniverse
    <3> QED
      BY <1>11, <3>3, Zenon
  <2>10. Rows'
    BY <1>9, <2>1, <2>4, <2>5, <2>7, <2>8, <2>9, RowsGrow, Zenon
  <2>11. definitions[p.version] # None
    BY <1>11, <2>1, <2>2, Zenon DEF CurrentParent, Tables, Reservations
  <2>12. Reservations'
    BY <1>9, <2>1, <2>3, <2>5, <2>11, ReservationsPublished, Zenon
  <2>13. Chains'
    BY <1>2, <1>4, <1>6, <1>11, <2>1, <2>2, <2>3, ChainsExtended, Zenon
  <2>14. Stored(record)'
    BY <1>11, Zenon DEF Stored
  <2> QED
    BY <1>6, <1>11, <2>5, <2>6, <2>10, <2>12, <2>13, <2>14, SaveStep, Zenon DEF Tables
<1> QED
  BY <1>1, <1>2, <1>3, <1>4, <1>10, <1>11, Zenon DEF SaveApproval

\* The unique key a staged control must find free.
LEMMA SlotOf ==
    ASSUME NEW cmd, NEW record, ControlSlotFree(cmd, record)
    PROVE  /\ cmd.op = "STAGE_POLICY_APPROVAL" => PolicySlotFree(record.proposal.month)
           /\ cmd.op = "STAGE_APPROVAL" => ApprovalsOf(record.proposal.month) = {}
<1>1. cmd.op = "STAGE_POLICY_APPROVAL" => PolicySlotFree(record.proposal.month)
  BY Zenon DEF ControlSlotFree
<1>2. cmd.op = "STAGE_APPROVAL" => ApprovalsOf(record.proposal.month) = {}
  BY Zenon DEF ControlSlotFree
<1> QED
  BY <1>1, <1>2, Zenon

\* A month approved on the staged path, before anything is published.
LEMMA StagedApprovalStep ==
    ASSUME WellPosed, MonthsInv, NEW c \in Clients, client[c].queue # <<>>, NEW record,
           Answered(c, record), Approved(record), record.proposal.subject # None,
           finalization[record.proposal.version] = None, ApprovalsOf(record.proposal.month) = {},
           UNCHANGED <<now, definitions, published, universes, policyProposals, policyApprovals,
                       evaluationProposals, subject, finalization>>,
           evaluationApprovals' = evaluationApprovals \cup {record}
    PROVE  MonthsInv' /\ Grows
<1>1. PICK p : p = record.proposal
  BY Zenon
<1>2. Tables /\ now \in Nat /\ now' \in Nat /\ now <= now'
  BY DEF MonthsInv, Tables, Types
<1>3. /\ p.version \in Versions /\ p.amends = None /\ p.subject # None
      /\ p.subject = subject[p.version]
  BY <1>1, <1>2, Zenon DEF Approved, Tables, Rows, Evaluated
<1>4. published[p.version] = <<>>
  BY <1>1, <1>2, <1>3, Zenon DEF Tables, Reservations
<1>5. Grows
  BY <1>2, Zenon DEF Grows
<1>6. Types'
  BY <1>2, Zenon DEF Tables, Types
<1>7. \A a, b \in policyApprovals' : a.proposal.month = b.proposal.month => a = b
  BY <1>2, Zenon DEF Tables, Rows
<1>8. \A a \in evaluationApprovals' : a \in evaluationApprovals \/ Approved(a)'
  BY <1>5, ApprovedKept, Zenon
<1>9. Rows'
  BY <1>2, <1>5, <1>7, <1>8, RowsGrow, Zenon
<1>10. \A a \in evaluationApprovals : a.proposal.month # p.month
  BY <1>1, Zenon DEF ApprovalsOf
<1>11. \A a \in evaluationApprovals : a.proposal.amends # None => a.proposal.version # p.version
  <2> SUFFICES ASSUME NEW a \in evaluationApprovals, a.proposal.amends # None,
                      a.proposal.version = p.version
               PROVE  FALSE
    BY Zenon
  <2>1. Stands(a)
    BY <1>2, AmendmentIsLegacy, Zenon DEF Tables, Chains
  <2>2. \E i : i \in DOMAIN published[p.version]
    BY <2>1, Zenon DEF Stands, PublishedAt
  <2> QED
    BY <1>4, <2>2
<1>12. \A a, b : /\ PublishedBefore(a, b)' <=> PublishedBefore(a, b)
                 /\ Stands(a)' <=> Stands(a)
                 /\ Amends(a, b)' <=> Amends(a, b)
                 /\ Later(b, a)' <=> Later(b, a)
  BY DEF PublishedBefore, PublishedAt, Stands, Amends, Later
<1>13. Chains'
  <2>1. \A a \in evaluationApprovals' : a.proposal.subject = None => Stands(a)'
    BY <1>1, <1>2, <1>3, <1>12, Zenon DEF Tables, Chains
  <2>2. \A a \in evaluationApprovals' : \E root \in evaluationApprovals' :
          root.proposal.month = a.proposal.month /\ root.proposal.amends = None
    BY <1>1, <1>2, <1>3, Zenon DEF Tables, Chains
  <2>3. \A a, b \in evaluationApprovals' :
          a.proposal.month = b.proposal.month /\ a.proposal.amends = b.proposal.amends => a = b
    BY <1>1, <1>2, <1>10, Zenon DEF Tables, Chains
  <2>4. \A a \in evaluationApprovals' :
          a.proposal.amends # None => \E b \in evaluationApprovals' : Amends(a, b)'
    BY <1>1, <1>2, <1>3, <1>12, Zenon DEF Tables, Chains
  <2>5. ASSUME NEW a \in evaluationApprovals', NEW b \in evaluationApprovals', Later(b, a)
        PROVE  b.proposal.subject = None /\ PublishedBefore(a, b)
    <3>1. a \in evaluationApprovals
      BY <1>1, <1>3, <2>5, Zenon DEF Later
    <3>2. b \in evaluationApprovals
      BY <1>1, <1>11, <2>5, <3>1, Zenon DEF Later
    <3> QED
      BY <1>2, <2>5, <3>1, <3>2, Zenon DEF Tables, Chains
  <2>6. (\A v \in Versions : \A i, j \in DOMAIN published[v] :
           published[v][i].rev = published[v][j].rev => i = j)'
    BY <1>2, Zenon DEF Tables, Chains
  <2> QED
    BY <1>12, <2>1, <2>2, <2>3, <2>4, <2>5, <2>6, Zenon DEF Chains
<1>14. Tables'
  BY <1>2, <1>5, <1>6, <1>9, <1>13, ReservationsSame, Zenon DEF Tables
<1>15. Stored(record)'
  BY Zenon DEF Stored
<1> QED
  BY <1>5, <1>14, <1>15, SaveStep, Zenon

LEMMA SaveControlStep ==
    ASSUME WellPosed, MonthsInv, NEW c \in Clients, SaveControl(c)
    PROVE  MonthsInv' /\ Grows
<1>1. PICK cmd : cmd = Command(c)
  BY Zenon
<1>2. PICK record : record = client[c].record
  BY Zenon
<1>3. record # None /\ cmd.op \in Staged
  BY <1>1, <1>2, Zenon DEF SaveControl
<1>4. client[c].queue # <<>> /\ Ready(cmd, record)
  BY <1>1, <1>2, <1>3, RecordReady, Zenon
<1>5. Control(cmd) # None => Stored(Control(cmd))
  <2>1. StagedPolicyApproval(cmd) # None => StagedPolicyApproval(cmd) \in policyApprovals
    BY Found, Zenon DEF StagedPolicyApproval
  <2>2. StagedPolicy(cmd) # None => StagedPolicy(cmd) \in policyProposals
    BY Lookups DEF StagedPolicy
  <2>3. StagedEvaluation(cmd) # None => StagedEvaluation(cmd) \in evaluationProposals
    BY Lookups DEF StagedEvaluation
  <2>4. StagedApproval(cmd) # None => StagedApproval(cmd) \in evaluationApprovals
    BY Lookups DEF StagedApproval
  <2> QED
    BY <1>3, <2>1, <2>2, <2>3, <2>4, ControlOf, Zenon DEF Stored, Staged
<1>6. UNCHANGED <<now, definitions, published, universes, subject, finalization>>
  BY Zenon DEF SaveControl
<1>7. CASE /\ UNCHANGED <<policyProposals, policyApprovals, evaluationProposals, evaluationApprovals>>
           /\ Refused(c) \/ \E same : Replay(c, Control(cmd), same)
  <2>1. UNCHANGED <<now, tables>>
    BY <1>6, <1>7, Zenon DEF tables
  <2> QED
    BY <1>4, <1>5, <1>7, <2>1, RefuseStep, ReplayStep, Zenon
<1>8. CASE /\ ~SubjectClosed(cmd.version) /\ ControlSlotFree(cmd, record) /\ Answered(c, record)
           /\ policyProposals' = policyProposals \cup
                (IF cmd.op = "STAGE_POLICY" THEN {record} ELSE {})
           /\ policyApprovals' = policyApprovals \cup
                (IF cmd.op = "STAGE_POLICY_APPROVAL" THEN {record} ELSE {})
           /\ evaluationProposals' = evaluationProposals \cup
                (IF cmd.op = "STAGE_EVALUATION" THEN {record} ELSE {})
           /\ evaluationApprovals' = evaluationApprovals \cup
                (IF cmd.op = "STAGE_APPROVAL" THEN {record} ELSE {})
  <2>1. CASE cmd.op = "STAGE_POLICY"
    <3>1. record.month \in Months
      BY <1>4, <2>1, Zenon DEF Ready
    <3>2. /\ policyProposals' = policyProposals \cup {record} /\ policyApprovals' = policyApprovals
          /\ UNCHANGED <<evaluationProposals, evaluationApprovals>>
      BY <1>8, <2>1, Zenon
    <3> QED
      BY <1>4, <1>6, <1>8, <3>1, <3>2, PolicyRowStep, Zenon
  <2>2. CASE cmd.op = "STAGE_POLICY_APPROVAL"
    <3>1. Authorized(record) /\ PolicySlotFree(record.proposal.month)
      BY <1>4, <1>8, <2>2, SlotOf, Zenon DEF Ready
    <3>2. /\ policyApprovals' = policyApprovals \cup {record} /\ policyProposals' = policyProposals
          /\ UNCHANGED <<evaluationProposals, evaluationApprovals>>
      BY <1>8, <2>2, Zenon
    <3> QED
      BY <1>4, <1>6, <1>8, <3>1, <3>2, PolicyRowStep, Zenon
  <2>3. CASE cmd.op = "STAGE_EVALUATION"
    <3>1. Evaluated(record)
      BY <1>4, <2>3, Zenon DEF Ready
    <3>2. /\ evaluationProposals' = evaluationProposals \cup {record}
          /\ UNCHANGED <<policyProposals, policyApprovals, evaluationApprovals>>
      BY <1>8, <2>3, Zenon
    <3> QED
      BY <1>4, <1>6, <1>8, <3>1, <3>2, EvaluationRowStep, Zenon
  <2>4. CASE cmd.op = "STAGE_APPROVAL"
    <3>1. /\ Approved(record) /\ record.proposal.subject # None
          /\ record.proposal.version = cmd.version
      BY <1>4, <2>4, Zenon DEF Ready
    <3>2. /\ finalization[record.proposal.version] = None
          /\ ApprovalsOf(record.proposal.month) = {}
      BY <1>8, <2>4, <3>1, SlotOf, Zenon DEF SubjectClosed
    <3>3. /\ evaluationApprovals' = evaluationApprovals \cup {record}
          /\ UNCHANGED <<policyProposals, policyApprovals, evaluationProposals>>
      BY <1>8, <2>4, Zenon
    <3> QED
      BY <1>4, <1>6, <1>8, <3>1, <3>2, <3>3, StagedApprovalStep, Zenon
  <2> QED
    BY <1>3, <2>1, <2>2, <2>3, <2>4, Zenon DEF Staged
<1> QED
  BY <1>1, <1>2, <1>7, <1>8, Zenon DEF SaveControl

-----------------------------------------------------------------------------
(* The theorems.                                                           *)

LEMMA InitMonths ==
    ASSUME WellPosed, Init
    PROVE  MonthsInv
<1>1. Types
  <2>1. Revision("m0", None, None) \in RevisionRows
    BY Zenon DEF Revision, RevisionRows, Names
  <2>2. <<Revision("m0", None, None)>> \in Seq(RevisionRows) /\ <<>> \in Seq(RevisionRows)
    BY <2>1
  <2> QED
    BY <2>2, Zenon DEF Init, Types
<1>2. Rows
  BY Zenon DEF Init, Rows
<1>3. Reservations
  BY Zenon DEF Init, WellPosed, Reservations
<1>4. Chains
  <2>1. ASSUME NEW v \in Versions, NEW i \in DOMAIN published[v], NEW j \in DOMAIN published[v]
        PROVE  i = j
    <3>1. DOMAIN published[v] \subseteq {1}
      BY DEF Init
    <3> QED
      BY <2>1, <3>1, Zenon
  <2> QED
    BY <2>1 DEF Init, Chains
<1>5. Sessions
  <2>1. PICK load \in Workloads :
          client = [c \in Clients |-> [queue |-> load[c], record |-> None, answer |-> None]]
    BY Zenon DEF Init
  <2>2. load \in [Clients -> Seq(Commands)]
    BY Zenon DEF WellPosed
  <2> QED
    BY <2>1, <2>2, Zenon DEF Sessions, Session
<1> QED
  BY <1>1, <1>2, <1>3, <1>4, <1>5, Zenon DEF MonthsInv, Tables

LEMMA NextMonths ==
    ASSUME WellPosed, MonthsInv, Next
    PROVE  MonthsInv' /\ Grows
<1>1. ASSUME NEW c \in Clients,
             \/ SaveDefinition(c) \/ SaveRevision(c) \/ SaveUniverse(c)
             \/ PreparePolicyProposal(c) \/ SavePolicyProposal(c)
             \/ PreparePolicyApproval(c) \/ SavePolicyApproval(c)
             \/ PrepareEvaluation(c) \/ SaveEvaluation(c)
             \/ PrepareApproval(c) \/ SaveApproval(c)
             \/ PrepareSubject(c) \/ SaveSubject(c)
             \/ ProposeSubjectPolicy(c) \/ ApproveSubjectPolicy(c)
             \/ EvaluateSubject(c) \/ ApproveSubjectEvaluation(c) \/ RefuseControl(c)
             \/ SaveControl(c)
             \/ PrepareFinalize(c) \/ SaveFinalize(c)
      PROVE  MonthsInv' /\ Grows
  BY <1>1, SaveDefinitionStep, SaveRevisionStep, SaveUniverseStep, PreparePolicyProposalStep,
     SavePolicyProposalStep, PreparePolicyApprovalStep, SavePolicyApprovalStep,
     PrepareEvaluationStep, SaveEvaluationStep, PrepareApprovalStep, SaveApprovalStep,
     PrepareSubjectStep, SaveSubjectStep, ProposeSubjectPolicyStep, ApproveSubjectPolicyStep,
     EvaluateSubjectStep, ApproveSubjectEvaluationStep, RefuseControlStep, SaveControlStep,
     PrepareFinalizeStep, SaveFinalizeStep, ZenonT(30)
<1> QED
  BY <1>1, TickStep, Zenon DEF Next

LEMMA StutterMonths ==
    ASSUME MonthsInv, UNCHANGED vars
    PROVE  MonthsInv' /\ Grows
<1>1. UNCHANGED <<now, tables>> /\ client' = client
  BY Zenon DEF vars, tables
<1>2. Tables' /\ Grows /\ now \in Nat /\ now' \in Nat
  BY <1>1, TablesSame, Zenon DEF MonthsInv
<1>3. Sessions'
  BY <1>1, <1>2, SessionsKept, Zenon DEF MonthsInv
<1> QED
  BY <1>2, <1>3, Zenon DEF MonthsInv

\* The tables and the records being prepared for them stay coherent, whatever
\* commands the clients of the composite stores send and however they interleave.
THEOREM MonthsAreCoherent == ASSUME WellPosed PROVE Spec => []MonthsInv
<1>1. Init => MonthsInv
  BY InitMonths, Zenon
<1>2. MonthsInv /\ [Next]_vars => MonthsInv'
  BY NextMonths, StutterMonths, Zenon
<1> QED
  BY <1>1, <1>2, PTL DEF Spec

\* No step changes or takes back a stored row: the composite stores insert with
\* ON CONFLICT DO NOTHING and update nothing.
THEOREM RowsOnlyGrow == ASSUME WellPosed PROVE Spec => [][Grows]_vars
<1>1. MonthsInv /\ [Next]_vars => [Grows]_vars
  BY NextMonths, Zenon
<1> QED
  BY <1>1, MonthsAreCoherent, PTL DEF Spec

\* The approvals of a month are one chain, published in order on the revisions
\* they were evaluated on, for any number of rival makers and checkers
\* (save_approval and the composite lock of evaluation_control.py).
THEOREM MonthsAreOneChain == ASSUME WellPosed PROVE Spec => []MonthIsOneChain
<1>1. MonthsInv => MonthIsOneChain
  BY DEF MonthsInv, Tables, Chains, Stands, Amends, Later, MonthIsOneChain, ApprovalsOf
<1> QED
  BY <1>1, MonthsAreCoherent, PTL

\* Every approved month rests on the one policy of the composite for it, on
\* closed sources and on four eyes, though the policy and the evaluation were
\* read before the transaction that approves (policy_control.py,
\* evaluation_control.py, the staged stores).
THEOREM AuthorityStaysGrounded == ASSUME WellPosed PROVE Spec => []AuthorityIsGrounded
<1>1. ASSUME MonthsInv, NEW a \in evaluationApprovals
      PROVE  /\ a.proposal.policy \in policyApprovals
             /\ a.proposal.policy.at < a.proposal.month \/ a.proposal.historical
             /\ a.proposal.policy.by # a.proposal.policy.proposal.by /\ a.by # a.proposal.by
             /\ a.proposal.universe.complete /\ a.proposal.universe.generated > a.proposal.month
             /\ a.proposal.at > a.proposal.month /\ a.at >= a.proposal.at
  <2>1. PICK p : p = a.proposal
    BY Zenon
  <2>2. Approved(a) /\ Evaluated(p)
    BY <1>1, <2>1, Zenon DEF MonthsInv, Tables, Rows, Approved
  <2>3. Authorized(p.policy)
    BY <1>1, <2>2, Zenon DEF Evaluated, MonthsInv, Tables, Rows
  <2>4. p.month \in Int /\ p.at \in Int /\ p.universe.generated \in Int
    <3>1. \A m \in Months : m \in Int
      BY Zenon DEF WellPosed
    <3>2. p.month \in Months
      BY <2>2, Zenon DEF Evaluated
    <3>3. p.month \in Int
      BY <3>1, <3>2, Zenon
    <3>4. p.at \in Int
      BY <2>2 DEF Evaluated
    <3>5. p.universe.generated \in Int
      BY <2>2, Zenon DEF Evaluated
    <3> QED
      BY <3>3, <3>4, <3>5, Zenon
  <2>5. p.universe.complete /\ p.universe.generated > p.month /\ p.universe.generated <= p.at
    BY <2>1, <2>2, Zenon DEF Approved, Evaluated, PublishableMonth
  <2>6. p.at > p.month
    BY <2>4, <2>5
  <2> QED
    BY <2>1, <2>2, <2>3, <2>5, <2>6, Zenon DEF Approved, Evaluated, Authorized
<1>2. MonthsInv => AuthorityIsGrounded
  BY <1>1, Zenon DEF MonthsInv, Tables, Rows, AuthorityIsGrounded
<1> QED
  BY <1>2, MonthsAreCoherent, PTL

\* A version reserved by a subject is defined by its finalization alone, with
\* the membership and universe of its retained controls (staged_postgres.py).
THEOREM ReservedStayUntilFinalized == ASSUME WellPosed PROVE Spec => []ReservedUntilFinalized
<1>1. MonthsInv => ReservedUntilFinalized
  BY Zenon DEF MonthsInv, Tables, Reservations, Rows, Finalizes, Approved, ReservedUntilFinalized
<1> QED
  BY <1>1, MonthsAreCoherent, PTL

\* What a command of the composite stores answers is a stored row.
THEOREM AnswersStayRetained == ASSUME WellPosed PROVE Spec => []AnswersAreRetained
<1>1. MonthsInv => AnswersAreRetained
  BY Zenon DEF MonthsInv, Sessions, Session, AnswersAreRetained
<1> QED
  BY <1>1, MonthsAreCoherent, PTL

=============================================================================
