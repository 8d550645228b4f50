------------------------ MODULE CompositeEligibility ------------------------
(***************************************************************************)
(* Governed monthly eligibility of one composite: policy proposals and     *)
(* approvals, evaluation proposals and approvals that publish a month onto *)
(* the current membership, source amendments of an approved month, and the *)
(* staged path that reserves a new definition version for a subject and    *)
(* creates it together with its first membership when it is finalized.     *)
(*                                                                         *)
(* A command reads what it needs and builds its record with the server     *)
(* clock (Prepare), and later saves it in a transaction that holds the     *)
(* tenant's advisory lock and checks again what may have changed (Save).   *)
(* Rows are never updated or deleted, so the read of the winner after a    *)
(* conflict is part of Save.  A content hash is the record itself.         *)
(*                                                                         *)
(* Time is counted in months: month m runs while now = m.  The membership  *)
(* of a version is the sequence of its published revisions.  Callers quote *)
(* the hashes of records they have read; a wrong quote is refused at once  *)
(* and is not modelled.  What the months contain is in CompositeRules.     *)
(***************************************************************************)
EXTENDS Integers, Sequences, FiniteSets

CONSTANTS
    Clients,          \* connections on which commands arrive
    Actor,            \* client -> the authenticated actor of its commands
    None,
    Versions,         \* definition versions
    Months,           \* a set of positive integers
    Workloads,        \* a set of functions from clients to sequences of commands
    Initial,          \* the version that exists at the start
    MaxTime,          \* last value of the clock
    MaxHistory        \* MAX_MONTHLY_AUTHORITY_RECORDS

VARIABLES
    now,
    definitions,      \* version -> the stored definition, or None
    published,        \* version -> sequence of revisions in publication order
    universes,        \* set of universe attestations
    policyProposals, policyApprovals,
    evaluationProposals, evaluationApprovals,
    subject,          \* version -> the subject that reserves it, or None
    finalization,     \* version -> finalization receipt, or None
    client            \* client -> [queue, record, answer]

tables == <<definitions, published, universes, policyProposals, policyApprovals,
            evaluationProposals, evaluationApprovals, subject, finalization>>
vars == <<now, tables, client>>

-----------------------------------------------------------------------------
Command(c) == Head(client[c].queue)

One(S) == CHOOSE x \in S : TRUE

OneOrNone(S) == IF S = {} THEN None ELSE One(S)

\* Rows by their keys.
PolicyProposal(v, m, r, s) ==
    OneOrNone({p \in policyProposals : p.version = v /\ p.month = m /\ p.rev = r /\ p.subject = s})

PolicyApproval(v, m, s) ==
    OneOrNone({a \in policyApprovals : a.proposal.version = v /\ a.proposal.month = m
                                       /\ a.proposal.subject = s})

Proposal(v, e, s) ==
    OneOrNone({p \in evaluationProposals : p.version = v /\ p.eval = e /\ p.subject = s})

Approval(v, e, s) ==
    OneOrNone({a \in evaluationApprovals : a.proposal.version = v /\ a.proposal.eval = e
                                           /\ a.proposal.subject = s})

Universe(v, r, n) == OneOrNone({u \in universes : u.version = v /\ u.rev = r /\ u.name = n})

Revisions(v) == {published[v][i].rev : i \in DOMAIN published[v]}

ApprovalsOf(m) == {a \in evaluationApprovals : a.proposal.month = m}

Answered(c, record) ==
    client' = [client EXCEPT ![c] = [queue |-> Tail(@.queue), record |-> None, answer |-> record]]

Refused(c) == Answered(c, None)

Prepared(c, record) ==
    client' = [client EXCEPT ![c] = [queue |-> @.queue, record |-> record, answer |-> None]]

\* A record that is already there answers the command that repeats it.
Replay(c, retained, same) == IF same THEN Answered(c, retained) ELSE Refused(c)

May(c, op) == client[c].queue # <<>> /\ client[c].record = None /\ Command(c).op = op

Saving(c, op) == client[c].record # None /\ Command(c).op = op

Tick ==
    /\ now < MaxTime
    /\ now' = now + 1
    /\ UNCHANGED <<tables, client>>

-----------------------------------------------------------------------------
(* Definitions, manual revisions and universe attestations.                *)

\* Mutant: a version is reserved only from its finalization on.
ReservedOnceFinalized(v) == finalization[v] # None

Reserved(v) == subject[v] # None

Definition(v, by, approval) ==
    [kind |-> "DEFINITION", version |-> v, by |-> by, approval |-> approval]

SaveDefinition(c) ==
    LET v == Command(c).version
        record == Definition(v, Actor[c], None)
    IN  /\ May(c, "DEFINE")
        /\ IF Reserved(v)
           THEN /\ Replay(c, definitions[v], definitions[v] = record)
                /\ UNCHANGED definitions
           ELSE IF definitions[v] = None
           THEN Answered(c, record) /\ definitions' = [definitions EXCEPT ![v] = record]
           ELSE Replay(c, definitions[v], definitions[v] = record) /\ UNCHANGED definitions
        /\ UNCHANGED <<now, published, universes, policyProposals, policyApprovals,
                       evaluationProposals, evaluationApprovals, subject, finalization>>

Revision(r, parent, eval) == [rev |-> r, parent |-> parent, eval |-> eval]

\* A revision saved outside the monthly process becomes the current one.
SaveRevision(c) ==
    LET cmd == Command(c)
    IN  /\ May(c, "REVISE")
        /\ IF definitions[cmd.version] = None \/ cmd.rev \in Revisions(cmd.version)
              \/ cmd.parent \notin Revisions(cmd.version)
           THEN Refused(c) /\ UNCHANGED published
           ELSE /\ published' = [published EXCEPT ![cmd.version] =
                                    Append(@, Revision(cmd.rev, cmd.parent, None))]
                /\ Answered(c, Revision(cmd.rev, cmd.parent, None))
        /\ UNCHANGED <<now, definitions, universes, policyProposals, policyApprovals,
                       evaluationProposals, evaluationApprovals, subject, finalization>>

\* A universe pins the content of its sources, and so when they were generated.
SaveUniverse(c) ==
    LET cmd == Command(c)
        record == [version |-> cmd.version, rev |-> cmd.rev, name |-> cmd.name,
                   months |-> cmd.months, complete |-> cmd.complete, source |-> cmd.source,
                   generated |-> cmd.generated]
        retained == Universe(cmd.version, cmd.rev, cmd.name)
    IN  /\ May(c, "ATTEST")
        /\ IF cmd.rev \notin Revisions(cmd.version)
           THEN Refused(c) /\ UNCHANGED universes
           ELSE IF retained = None
           THEN Answered(c, record) /\ universes' = universes \cup {record}
           ELSE Replay(c, retained, retained = record) /\ UNCHANGED universes
        /\ UNCHANGED <<now, definitions, published, policyProposals, policyApprovals,
                       evaluationProposals, evaluationApprovals, subject, finalization>>

-----------------------------------------------------------------------------
(* Monthly policies.  They are prospective: proposed and approved before   *)
(* their month begins.                                                     *)

Prospective(m, at) == at < m

PreparePolicyProposal(c) ==
    LET cmd == Command(c)
        record == [version |-> cmd.version, month |-> cmd.month, rev |-> cmd.rev,
                   subject |-> None, historical |-> FALSE, by |-> Actor[c], at |-> now]
        retained == PolicyProposal(cmd.version, cmd.month, cmd.rev, None)
    IN  /\ May(c, "PROPOSE_POLICY")
        /\ IF definitions[cmd.version] = None THEN Refused(c)
           ELSE IF retained # None THEN Replay(c, retained, retained.by = Actor[c])
           ELSE IF ~Prospective(cmd.month, now) THEN Refused(c)
           ELSE Prepared(c, record)
        /\ UNCHANGED <<now, tables>>

\* The primary key of the proposals, shared with the staged path.
ProposalSlotFree(p) ==
    \A q \in policyProposals : ~(q.version = p.version /\ q.month = p.month /\ q.rev = p.rev)

\* Inserted unless the key is taken, in which case the winner answers its own command.
SavePolicyProposal(c) ==
    LET record == client[c].record
        winner == PolicyProposal(record.version, record.month, record.rev, None)
    IN  /\ Saving(c, "PROPOSE_POLICY")
        /\ IF ProposalSlotFree(record)
           THEN Answered(c, record) /\ policyProposals' = policyProposals \cup {record}
           ELSE /\ Replay(c, winner, winner # None /\ winner.by = Actor[c])
                /\ UNCHANGED policyProposals
        /\ UNCHANGED <<now, definitions, published, universes, policyApprovals,
                       evaluationProposals, evaluationApprovals, subject, finalization>>

PreparePolicyApproval(c) ==
    LET cmd == Command(c)
        proposal == PolicyProposal(cmd.version, cmd.month, cmd.rev, None)
        retained == PolicyApproval(cmd.version, cmd.month, None)
    IN  /\ May(c, "APPROVE_POLICY")
        /\ IF proposal = None THEN Refused(c)
           ELSE IF Actor[c] = proposal.by THEN Refused(c)
           ELSE IF retained # None
           THEN Replay(c, retained, retained.proposal = proposal /\ retained.by = Actor[c])
           ELSE IF ~Prospective(cmd.month, now) THEN Refused(c)
           ELSE Prepared(c, [proposal |-> proposal, by |-> Actor[c], at |-> now])
        /\ UNCHANGED <<now, tables>>

\* One approved policy per composite and month, over all versions and both paths.
PolicySlotFree(m) == \A a \in policyApprovals : a.proposal.month # m

SavePolicyApproval(c) ==
    LET record == client[c].record
        winner == PolicyApproval(record.proposal.version, record.proposal.month, None)
    IN  /\ Saving(c, "APPROVE_POLICY")
        /\ IF PolicySlotFree(record.proposal.month)
           THEN Answered(c, record) /\ policyApprovals' = policyApprovals \cup {record}
           ELSE /\ Replay(c, winner, /\ winner # None
                                     /\ winner.proposal = record.proposal /\ winner.by = Actor[c])
                /\ UNCHANGED policyApprovals
        /\ UNCHANGED <<now, definitions, published, universes, policyProposals,
                       evaluationProposals, evaluationApprovals, subject, finalization>>

-----------------------------------------------------------------------------
(* Monthly evaluations.                                                    *)

\* The same business content: everything but the proposal's clock.
SameProposalCommand(p, cmd, c) ==
    /\ p.month = cmd.month /\ p.parent = cmd.parent /\ p.target = cmd.target
    /\ p.universe.name = cmd.universe /\ p.amends = cmd.amends /\ p.by = Actor[c]

\* The evaluated record; an amendment may not reuse the revision it corrects.
PrepareEvaluation(c) ==
    LET cmd == Command(c)
        retained == Proposal(cmd.version, cmd.eval, None)
        policy == PolicyApproval(cmd.version, cmd.month, None)
        universe == Universe(cmd.version, cmd.parent, cmd.universe)
    IN  /\ May(c, "EVALUATE")
        /\ IF retained # None THEN Replay(c, retained, SameProposalCommand(retained, cmd, c))
           ELSE IF policy = None \/ cmd.parent \notin Revisions(cmd.version) \/ universe = None
           THEN Refused(c)
           ELSE IF cmd.month \notin universe.months \/ universe.generated > now
                   \/ cmd.target = cmd.parent \/ cmd.amends = cmd.eval
           THEN Refused(c)
           ELSE Prepared(c, [version |-> cmd.version, eval |-> cmd.eval, month |-> cmd.month,
                             parent |-> cmd.parent, target |-> cmd.target, subject |-> None,
                             universe |-> universe, policy |-> policy, amends |-> cmd.amends,
                             historical |-> FALSE, by |-> Actor[c], at |-> now])
        /\ UNCHANGED <<now, tables>>

\* Mutant: the parent need not be the current revision when the month is published.
ParentPublished(p) == p.parent \in Revisions(p.version)

CurrentParent(p) ==
    LET revisions == published[p.version]
    IN  revisions # <<>> /\ revisions[Len(revisions)].rev = p.parent

RetainedInputs(p) ==
    /\ PolicyApproval(p.version, p.month, None) = p.policy
    /\ p.universe \in universes

\* The end of the chain of approvals that starts at the root of the month.
Tips(approvals) ==
    {a \in approvals : \A b \in approvals : b.proposal.amends # a.proposal.eval}

NoLaterMonth(m) == \A a \in evaluationApprovals : a.proposal.month <= m

\* An amendment corrects the tip of a chain of this version, after it and with
\* other sources, and only while no later month rests on it.
RequireAmendment(p) ==
    LET approvals == ApprovalsOf(p.month)
    IN  /\ Cardinality(approvals) < MaxHistory
        /\ \A a \in approvals : a.proposal.subject = None /\ a.proposal.version = p.version
        /\ \E last \in approvals :
             /\ Tips(approvals) = {last}
             /\ last.proposal.eval = p.amends
             /\ p.at >= last.at
             /\ p.policy = last.proposal.policy
             /\ p.universe.source # last.proposal.universe.source
        /\ NoLaterMonth(p.month)

\* The primary key of the proposals, shared with the staged path.
EvaluationSlotFree(p) ==
    \A q \in evaluationProposals : ~(q.version = p.version /\ q.eval = p.eval)

SaveEvaluation(c) ==
    LET record == client[c].record
        retained == Proposal(record.version, record.eval, None)
    IN  /\ Saving(c, "EVALUATE")
        /\ IF retained # None
           THEN /\ Replay(c, retained, SameProposalCommand(retained, Command(c), c))
                /\ UNCHANGED evaluationProposals
           ELSE IF /\ RetainedInputs(record) /\ CurrentParent(record)
                   /\ record.amends # None => RequireAmendment(record)
                   /\ EvaluationSlotFree(record)
           THEN Answered(c, record) /\ evaluationProposals' = evaluationProposals \cup {record}
           ELSE Refused(c) /\ UNCHANGED evaluationProposals
        /\ UNCHANGED <<now, definitions, published, universes, policyProposals,
                       policyApprovals, evaluationApprovals, subject, finalization>>

\* Mutant: the sources may close while the month runs.
PublishableWhileRunning(universe, m) == universe.complete /\ universe.generated >= m

\* A month is published from a complete universe whose sources closed after it.
PublishableMonth(universe, m) == universe.complete /\ universe.generated > m

PrepareApproval(c) ==
    LET cmd == Command(c)
        proposal == Proposal(cmd.version, cmd.eval, None)
        retained == Approval(cmd.version, cmd.eval, None)
    IN  /\ May(c, "APPROVE")
        /\ IF proposal = None THEN Refused(c)
           ELSE IF Actor[c] = proposal.by THEN Refused(c)
           ELSE IF retained # None THEN Replay(c, retained, retained.by = Actor[c])
           ELSE IF ~PublishableMonth(proposal.universe, proposal.month) THEN Refused(c)
           ELSE Prepared(c, [proposal |-> proposal, by |-> Actor[c], at |-> now])
        /\ UNCHANGED <<now, tables>>

\* The universe of the published month: its own month only, the same sources.
PublishedUniverse(p) ==
    [p.universe EXCEPT !.rev = p.target, !.name = p.eval, !.months = {p.month}]

SaveApproval(c) ==
    LET record == client[c].record
        p == record.proposal
        retained == Approval(p.version, p.eval, None)
    IN  /\ Saving(c, "APPROVE")
        /\ IF retained # None
           THEN /\ Replay(c, retained, retained.by = Actor[c])
                /\ UNCHANGED <<published, universes, evaluationApprovals>>
           ELSE IF /\ IF p.amends # None THEN RequireAmendment(p) ELSE ApprovalsOf(p.month) = {}
                   /\ p \in evaluationProposals
                   /\ RetainedInputs(p) /\ CurrentParent(p)
                   /\ p.target \notin Revisions(p.version)
           THEN /\ Answered(c, record)
                /\ published' = [published EXCEPT ![p.version] =
                                    Append(@, Revision(p.target, p.parent, p.eval))]
                /\ universes' = universes \cup {PublishedUniverse(p)}
                /\ evaluationApprovals' = evaluationApprovals \cup {record}
           ELSE Refused(c) /\ UNCHANGED <<published, universes, evaluationApprovals>>
        /\ UNCHANGED <<now, definitions, policyProposals, policyApprovals,
                       evaluationProposals, subject, finalization>>

-----------------------------------------------------------------------------
(* The staged path.  Each control extends the one before it; a historical  *)
(* policy is admitted by an external verifier instead of being prospective.*)

PrepareSubject(c) ==
    LET cmd == Command(c)
        record == [version |-> cmd.version, month |-> cmd.month, by |-> Actor[c], at |-> now]
        retained == subject[cmd.version]
    IN  /\ May(c, "SUBJECT")
        /\ IF retained # None
           THEN Replay(c, retained, retained.month = cmd.month /\ retained.by = Actor[c])
           ELSE Prepared(c, record)
        /\ UNCHANGED <<now, tables>>

SaveSubject(c) ==
    LET record == client[c].record
        v == record.version
    IN  /\ Saving(c, "SUBJECT")
        /\ IF subject[v] = None /\ definitions[v] = None
           THEN Answered(c, record) /\ subject' = [subject EXCEPT ![v] = record]
           ELSE Replay(c, subject[v], subject[v] = record) /\ UNCHANGED subject
        /\ UNCHANGED <<now, definitions, published, universes, policyProposals,
                       policyApprovals, evaluationProposals, evaluationApprovals, finalization>>

\* The stored controls of a subject, each None if it is not there.
StagedPolicy(cmd) ==
    LET s == subject[cmd.version] IN PolicyProposal(s.version, s.month, cmd.rev, s)

StagedPolicyApproval(cmd) ==
    OneOrNone({a \in policyApprovals : /\ a.proposal.subject = subject[cmd.version]
                                       /\ a.proposal.rev = cmd.rev})

StagedEvaluation(cmd) ==
    LET s == subject[cmd.version] IN Proposal(s.version, cmd.eval, s)

StagedApproval(cmd) ==
    LET s == subject[cmd.version] IN Approval(s.version, cmd.eval, s)

Control(cmd) ==
    CASE cmd.op = "STAGE_POLICY" -> StagedPolicy(cmd)
      [] cmd.op = "STAGE_POLICY_APPROVAL" -> StagedPolicyApproval(cmd)
      [] cmd.op = "STAGE_EVALUATION" -> StagedEvaluation(cmd)
      [] cmd.op = "STAGE_APPROVAL" -> StagedApproval(cmd)

\* The control a staged command builds on, or None.
Predecessor(cmd) ==
    CASE cmd.op = "STAGE_POLICY" -> subject[cmd.version]
      [] cmd.op = "STAGE_POLICY_APPROVAL" -> StagedPolicy(cmd)
      [] cmd.op = "STAGE_EVALUATION" -> StagedPolicyApproval(cmd)
      [] cmd.op = "STAGE_APPROVAL" -> StagedEvaluation(cmd)

Staged == {"STAGE_POLICY", "STAGE_POLICY_APPROVAL", "STAGE_EVALUATION", "STAGE_APPROVAL"}

SubjectPolicyProposal(c, cmd, s) ==
    [version |-> cmd.version, month |-> s.month, rev |-> cmd.rev, subject |-> s,
     historical |-> cmd.historical, by |-> Actor[c], at |-> now]

\* The maker of the subject proposes its policy.
SubjectPolicyValid(p) ==
    /\ p.by = p.subject.by
    /\ p.historical \/ Prospective(p.month, p.at)

IndependentApproval(c, proposal) == [proposal |-> proposal, by |-> Actor[c], at |-> now]

SubjectPolicyApprovalValid(a) ==
    /\ a.by # a.proposal.by
    /\ a.proposal.historical \/ Prospective(a.proposal.month, a.at)

\* The evaluation binds the universe of its own target; there is no parent.
SubjectEvaluationProposal(c, cmd, policy) ==
    LET m == policy.proposal.month
    IN  [version |-> cmd.version, eval |-> cmd.eval, month |-> m,
         parent |-> None, target |-> cmd.target, subject |-> policy.proposal.subject,
         universe |-> [version |-> cmd.version, rev |-> cmd.target, name |-> cmd.eval,
                       months |-> {m}, complete |-> cmd.complete, source |-> cmd.source,
                       generated |-> cmd.generated],
         policy |-> policy, amends |-> None, historical |-> policy.proposal.historical,
         by |-> Actor[c], at |-> now]

SubjectEvaluationApprovalValid(a) ==
    a.by # a.proposal.by /\ PublishableMonth(a.proposal.universe, a.proposal.month)

\* Everything but the server times.
SameControl(a, b) ==
    IF "proposal" \in DOMAIN a THEN a.proposal = b.proposal /\ a.by = b.by
    ELSE [a EXCEPT !.at = 0] = [b EXCEPT !.at = 0]

\* The common shape: a retained control answers its own command, a record that
\* is not valid is refused, any other is ready to be saved.
PrepareStaged(c, record, valid) ==
    IF Control(Command(c)) # None
    THEN Replay(c, Control(Command(c)), SameControl(Control(Command(c)), record))
    ELSE IF valid THEN Prepared(c, record) ELSE Refused(c)

MayStage(c, op) ==
    /\ May(c, op)
    /\ subject[Command(c).version] # None
    /\ Predecessor(Command(c)) # None

ProposeSubjectPolicy(c) ==
    /\ MayStage(c, "STAGE_POLICY")
    /\ LET record == SubjectPolicyProposal(c, Command(c), Predecessor(Command(c)))
       IN  PrepareStaged(c, record, SubjectPolicyValid(record))
    /\ UNCHANGED <<now, tables>>

ApproveSubjectPolicy(c) ==
    /\ MayStage(c, "STAGE_POLICY_APPROVAL")
    /\ LET record == IndependentApproval(c, Predecessor(Command(c)))
       IN  PrepareStaged(c, record, SubjectPolicyApprovalValid(record))
    /\ UNCHANGED <<now, tables>>

EvaluateSubject(c) ==
    /\ MayStage(c, "STAGE_EVALUATION")
    /\ PrepareStaged(c, SubjectEvaluationProposal(c, Command(c), Predecessor(Command(c))),
                     Command(c).generated <= now)
    /\ UNCHANGED <<now, tables>>

ApproveSubjectEvaluation(c) ==
    /\ MayStage(c, "STAGE_APPROVAL")
    /\ LET record == IndependentApproval(c, Predecessor(Command(c)))
       IN  PrepareStaged(c, record, SubjectEvaluationApprovalValid(record))
    /\ UNCHANGED <<now, tables>>

\* The subject or the control before this one is not there.
RefuseControl(c) ==
    /\ client[c].queue # <<>> /\ client[c].record = None /\ Command(c).op \in Staged
    /\ ~MayStage(c, Command(c).op)
    /\ Refused(c)
    /\ UNCHANGED <<now, tables>>

\* The unique keys of the control tables, shared with the other path.
ControlSlotFree(cmd, record) ==
    CASE cmd.op = "STAGE_POLICY" -> ProposalSlotFree(record)
      [] cmd.op = "STAGE_POLICY_APPROVAL" -> PolicySlotFree(record.proposal.month)
      [] cmd.op = "STAGE_EVALUATION" -> EvaluationSlotFree(record)
      [] cmd.op = "STAGE_APPROVAL" -> ApprovalsOf(record.proposal.month) = {}

SubjectClosed(v) == finalization[v] # None

\* After a conflict only a historical command reads the winner and compares it.
SaveControl(c) ==
    LET cmd == Command(c)
        record == client[c].record
        existing == Control(cmd)
        historical == IF "historical" \in DOMAIN record THEN record.historical
                      ELSE record.proposal.historical
    IN  /\ client[c].record # None /\ cmd.op \in Staged
        /\ IF existing # None
           THEN /\ Replay(c, existing, existing = record \/ (historical /\ SameControl(existing, record)))
                /\ UNCHANGED <<policyProposals, policyApprovals, evaluationProposals,
                               evaluationApprovals>>
           ELSE IF SubjectClosed(cmd.version) \/ ~ControlSlotFree(cmd, record)
           THEN /\ Refused(c)
                /\ UNCHANGED <<policyProposals, policyApprovals, evaluationProposals,
                               evaluationApprovals>>
           ELSE /\ Answered(c, record)
                /\ policyProposals' = policyProposals \cup
                     (IF cmd.op = "STAGE_POLICY" THEN {record} ELSE {})
                /\ policyApprovals' = policyApprovals \cup
                     (IF cmd.op = "STAGE_POLICY_APPROVAL" THEN {record} ELSE {})
                /\ evaluationProposals' = evaluationProposals \cup
                     (IF cmd.op = "STAGE_EVALUATION" THEN {record} ELSE {})
                /\ evaluationApprovals' = evaluationApprovals \cup
                     (IF cmd.op = "STAGE_APPROVAL" THEN {record} ELSE {})
        /\ UNCHANGED <<now, definitions, published, universes, subject, finalization>>

PrepareFinalize(c) ==
    LET cmd == Command(c)
        s == subject[cmd.version]
        approval == Approval(cmd.version, cmd.eval, s)
        retained == finalization[cmd.version]
        definition == Definition(cmd.version, s.by, approval)
    IN  /\ May(c, "FINALIZE")
        /\ IF s = None THEN Refused(c)
           ELSE IF approval = None THEN Refused(c)
           ELSE IF Actor[c] # approval.by THEN Refused(c)
           ELSE IF retained # None
           THEN Replay(c, retained, retained.definition = definition /\ retained.approval = approval)
           ELSE Prepared(c, [approval |-> approval, definition |-> definition, at |-> now])
        /\ UNCHANGED <<now, tables>>

\* The definition, its first membership, its universe and the receipt in one
\* transaction; a loser with fresh verification evidence gets the one receipt.
SaveFinalize(c) ==
    LET record == client[c].record
        v == record.definition.version
        p == record.approval.proposal
        retained == finalization[v]
    IN  /\ Saving(c, "FINALIZE")
        /\ IF retained # None
           THEN /\ Replay(c, retained, /\ retained.definition = record.definition
                                       /\ retained.approval = record.approval)
                /\ UNCHANGED <<definitions, published, universes, finalization>>
           ELSE /\ Answered(c, record)
                /\ definitions' = [definitions EXCEPT ![v] = record.definition]
                /\ published' = [published EXCEPT ![v] = Append(@, Revision(p.target, None, p.eval))]
                /\ universes' = universes \cup {p.universe}
                /\ finalization' = [finalization EXCEPT ![v] = record]
        /\ UNCHANGED <<now, policyProposals, policyApprovals, evaluationProposals,
                       evaluationApprovals, subject>>

-----------------------------------------------------------------------------
Init ==
    /\ now = 0
    /\ definitions = [v \in Versions |->
         IF v = Initial THEN Definition(v, None, None) ELSE None]
    /\ published = [v \in Versions |->
         IF v = Initial THEN <<Revision("m0", None, None)>> ELSE <<>>]
    /\ universes = {} /\ policyProposals = {} /\ policyApprovals = {}
    /\ evaluationProposals = {} /\ evaluationApprovals = {}
    /\ subject = [v \in Versions |-> None]
    /\ finalization = [v \in Versions |-> None]
    /\ \E load \in Workloads :
         client = [c \in Clients |-> [queue |-> load[c], record |-> None, answer |-> None]]

Next ==
    \/ Tick
    \/ \E c \in Clients :
         \/ SaveDefinition(c) \/ SaveRevision(c) \/ SaveUniverse(c)
         \/ PreparePolicyProposal(c) \/ SavePolicyProposal(c)
         \/ PreparePolicyApproval(c) \/ SavePolicyApproval(c)
         \/ PrepareEvaluation(c) \/ SaveEvaluation(c)
         \/ PrepareApproval(c) \/ SaveApproval(c)
         \/ PrepareSubject(c) \/ SaveSubject(c)
         \/ ProposeSubjectPolicy(c) \/ ApproveSubjectPolicy(c)
         \/ EvaluateSubject(c) \/ ApproveSubjectEvaluation(c) \/ RefuseControl(c)
         \/ SaveControl(c)
         \/ PrepareFinalize(c) \/ SaveFinalize(c)

Spec == Init /\ [][Next]_vars

-----------------------------------------------------------------------------
\* Where an approved month stands in the membership of its version.
PublishedAt(a) ==
    LET p == a.proposal
    IN  {i \in DOMAIN published[p.version] :
            published[p.version][i] = Revision(p.target, p.parent, p.eval)}

PublishedBefore(a, b) == \A i \in PublishedAt(a), j \in PublishedAt(b) : i < j

\* The approvals of a month are one chain from one root: two commands that read
\* the same tip, or start the same month on the legacy and the staged path, never
\* both succeed, and an amendment was published after what it amends.  Each
\* published month stands directly on the revision that was evaluated: nothing
\* was published between the evaluation's parent and it.  A month is amended
\* only while it is the last approved month, so that its amendments stand before
\* every later month of the version.
MonthIsOneChain ==
    /\ \A m \in Months :
         LET chain == ApprovalsOf(m)
         IN  /\ chain # {} => \E root \in chain : root.proposal.amends = None
             /\ \A a, b \in chain : a.proposal.amends = b.proposal.amends => a = b
             /\ \A a \in chain : a.proposal.amends # None =>
                  \E b \in chain : /\ b.proposal.version = a.proposal.version
                                   /\ b.proposal.eval = a.proposal.amends
                                   /\ PublishedBefore(b, a)
             /\ \A a \in chain : a.proposal.subject = None =>
                  \E i \in PublishedAt(a) :
                      i > 1 /\ published[a.proposal.version][i - 1].rev = a.proposal.parent
    /\ \A a, b \in evaluationApprovals :
         (/\ a.proposal.amends # None
          /\ a.proposal.version = b.proposal.version
          /\ b.proposal.month > a.proposal.month) => PublishedBefore(a, b)

\* An approved month rests on a policy that was approved before the month began
\* (or admitted as historical), on one policy for the composite, on sources that
\* closed after the month ended, and on four eyes at both stages.
AuthorityIsGrounded ==
    /\ \A a, b \in policyApprovals : a.proposal.month = b.proposal.month => a = b
    /\ \A a \in evaluationApprovals :
         LET p == a.proposal
         IN  /\ p.policy \in policyApprovals
             /\ p.policy.at < p.month \/ p.historical
             /\ p.policy.by # p.policy.proposal.by /\ a.by # p.by
             /\ p.universe.complete /\ p.universe.generated > p.month
             /\ p.at > p.month /\ a.at >= p.at

\* A reserved version gets its definition only from its finalization, which
\* rests on retained controls of its subject, publishes their membership as the
\* first revision, with their universe.
ReservedUntilFinalized ==
    \A v \in Versions :
        /\ subject[v] # None =>
             ((definitions[v] # None) <=> (finalization[v] # None))
        /\ finalization[v] # None =>
             LET f == finalization[v] IN
                 /\ definitions[v] = f.definition
                 /\ f.approval \in evaluationApprovals
                 /\ f.approval.proposal \in evaluationProposals
                 /\ f.approval.proposal.subject = subject[v]
                 /\ published[v][1].rev = f.approval.proposal.target
                 /\ f.approval.proposal.universe \in universes

\* A row of one of the tables.
Stored(record) ==
    \/ record \in policyProposals \cup policyApprovals \cup evaluationProposals
                      \cup evaluationApprovals \cup universes
    \/ \E v \in Versions :
         \/ record \in {subject[v], finalization[v], definitions[v]}
         \/ \E i \in DOMAIN published[v] : published[v][i] = record

\* What a command answers is the record that is stored under its key, its own or
\* the winner's, never the record a losing command had built.
AnswersAreRetained ==
    \A c \in Clients : client[c].answer # None => Stored(client[c].answer)

=============================================================================
