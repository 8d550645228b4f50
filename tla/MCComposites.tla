---------------------------- MODULE MCComposites ----------------------------
(***************************************************************************)
(* The two stores of a composite, each on its own variables: the governed  *)
(* months (CompositeEligibility) and the publication feed                  *)
(* (CompositePublication).  A behaviour belongs to one of the two parts.   *)
(***************************************************************************)
EXTENDS CompositeEligibility, TLC

CONSTANTS ann, bob, r1, r2

VARIABLES
    part,
    definition, revisions, publications, receipts, nextSequence, lock, sender, resends,
    answers, consumer, attested

feedVars == <<definition, revisions, publications, attested, receipts, nextSequence, lock,
              sender, resends, answers, consumer>>

-----------------------------------------------------------------------------
(* Two clients and one consumer of the feed.                               *)

DefineAs(name) == [kind |-> "DEFINE", name |-> name]

SaveAs(r, members, supersedes) ==
    [kind |-> "REVISE", rev |-> r, members |-> members, policy |-> "v1", supersedes |-> supersedes]

Declare(r, expected, posture) ==
    [kind |-> "ATTEST", rev |-> r, expected |-> expected, policy |-> "v1", posture |-> posture]

Receipt(r, members, disposition) ==
    [kind |-> "RECEIPT", rev |-> r, members |-> members, disposition |-> disposition]

MCCorrects == {<<{"p"}, {"p", "q"}>>, <<{"p", "q"}, {"p"}>>}

\* One definition and the revisions of two clients, rivals and replays among them.
FeedWorkloads ==
    LET d == DefineAs("d")
        first == SaveAs(r1, {"p"}, None)
        second == SaveAs(r2, {"p", "q"}, r1)
    IN  { (ann :> <<d, first>>) @@ (bob :> <<second, second>>),
          (ann :> <<d, first>>) @@ (bob :> <<d, SaveAs(r2, {"q"}, None)>>),
          (ann :> <<d, first, SaveAs(r2, {"q"}, r1)>>) @@ (bob :> <<DefineAs("e"), first>>),
          (ann :> <<d, first, Declare(r1, {"p"}, "COMPLETE")>>)
              @@ (bob :> <<Declare(r1, {"p", "q"}, "INCOMPLETE"), Declare(r1, {"p", "q"}, "COMPLETE")>>),
          (ann :> <<d, first, Receipt(r1, {"p"}, "RECEIVED")>>)
              @@ (bob :> <<Receipt(r1, {"p"}, "RECEIVED"), Receipt(r1, {"p"}, "REJECTED"),
                          Receipt(r1, {"q"}, "RECEIVED")>>) }

F == INSTANCE CompositePublication WITH
       Clients <- {ann, bob}, Revs <- {r1, r2}, Instants <- {1, 2},
       Workloads <- FeedWorkloads, Corrects <- MCCorrects,
       MaxSequence <- 5, MaxResends <- 1, PageLimit <- 1,
       universes <- attested, client <- sender

-----------------------------------------------------------------------------
(* Version d1 exists with membership m0, version d2 is reserved by a       *)
(* subject.  Months 1, 2 and 3.                                            *)

ProposePolicy(v, m, r) == [op |-> "PROPOSE_POLICY", version |-> v, month |-> m, rev |-> r]
ApprovePolicy(v, m, r) == [op |-> "APPROVE_POLICY", version |-> v, month |-> m, rev |-> r]
Attest(v, r, n, ms, s, g) ==
    [op |-> "ATTEST", version |-> v, rev |-> r, name |-> n, months |-> ms, complete |-> TRUE,
     source |-> s, generated |-> g]
Revise(v, r, parent) == [op |-> "REVISE", version |-> v, rev |-> r, parent |-> parent]
Define(v) == [op |-> "DEFINE", version |-> v]
Evaluate(v, e, m, parent, target, u, amends) ==
    [op |-> "EVALUATE", version |-> v, eval |-> e, month |-> m, parent |-> parent,
     target |-> target, universe |-> u, amends |-> amends]
Approve(v, e) == [op |-> "APPROVE", version |-> v, eval |-> e]
Subject(v, m) == [op |-> "SUBJECT", version |-> v, month |-> m]
Stage(op, historical, source) ==
    [op |-> op, version |-> "d2", rev |-> "r1", eval |-> "s1", target |-> "n1",
     historical |-> historical, complete |-> TRUE, source |-> source, generated |-> 2]
StageAs(op, e) == [Stage(op, FALSE, "y") EXCEPT !.eval = e]
Finalize(e) == [op |-> "FINALIZE", version |-> "d2", eval |-> e]

\* Two months evaluated by rival makers, the second on the first.
TwoMonths ==
    ann :> <<ProposePolicy("d1", 1, "r1"), ProposePolicy("d1", 2, "r1"),
             Attest("d1", "m0", "u1", {1, 2}, "x", 2),
             Evaluate("d1", "e1", 1, "m0", "m1", "u1", None),
             Attest("d1", "m1", "u2", {2}, "y", 3),
             Evaluate("d1", "e2", 2, "m1", "m2", "u2", None)>>
    @@ bob :> <<ApprovePolicy("d1", 1, "r1"), ApprovePolicy("d1", 2, "r1"),
                Approve("d1", "e1"), Approve("d1", "e2")>>

\* Two makers evaluate the same month; a manual revision moves the parent.
RivalMonth ==
    ann :> <<ProposePolicy("d1", 1, "r1"), ApprovePolicy("d1", 1, "r1"),
             Attest("d1", "m0", "u1", {1}, "x", 2),
             Evaluate("d1", "e1", 1, "m0", "m1", "u1", None),
             Approve("d1", "e2"), Revise("d1", "m9", "m0")>>
    @@ bob :> <<ProposePolicy("d1", 1, "r1"), ApprovePolicy("d1", 1, "r1"),
                Evaluate("d1", "e2", 1, "m0", "m2", "u1", None), Approve("d1", "e1")>>

\* The sources closed while the month was running.
EarlyClose ==
    ann :> <<ProposePolicy("d1", 1, "r1"), Attest("d1", "m0", "u1", {1}, "x", 1),
             Evaluate("d1", "e1", 1, "m0", "m1", "u1", None)>>
    @@ bob :> <<ApprovePolicy("d1", 1, "r1"), Approve("d1", "e1")>>

\* A correction of month 1 races the evaluation of month 2 on the same parent.
Correction ==
    ann :> <<ProposePolicy("d1", 1, "r1"), ProposePolicy("d1", 2, "r1"),
             Attest("d1", "m0", "u1", {1}, "x", 2),
             Evaluate("d1", "e1", 1, "m0", "m1", "u1", None),
             Attest("d1", "m1", "u2", {1, 2}, "y", 3),
             Evaluate("d1", "e2", 1, "m1", "m2", "u2", "e1"),
             Approve("d1", "e3")>>
    @@ bob :> <<ApprovePolicy("d1", 1, "r1"), ApprovePolicy("d1", 2, "r1"),
                Approve("d1", "e1"),
                Evaluate("d1", "e3", 2, "m1", "m3", "u2", None),
                Approve("d1", "e2")>>

\* After the second month a late source restates the first.
LateCorrection ==
    ann :> <<ProposePolicy("d1", 1, "r1"), ProposePolicy("d1", 2, "r1"),
             Attest("d1", "m0", "u1", {1, 2}, "x", 2),
             Evaluate("d1", "e1", 1, "m0", "m1", "u1", None),
             Attest("d1", "m1", "u2", {2}, "y", 3),
             Evaluate("d1", "e2", 2, "m1", "m2", "u2", None),
             Attest("d1", "m2", "u3", {1}, "z", 3),
             Evaluate("d1", "e3", 1, "m2", "m3", "u3", "e1")>>
    @@ bob :> <<ApprovePolicy("d1", 1, "r1"), ApprovePolicy("d1", 2, "r1"),
                Approve("d1", "e1"), Approve("d1", "e2"), Approve("d1", "e3")>>

\* The staged path of d2 beside the monthly path of d1, for the same month.
StagedBeside ==
    ann :> <<ProposePolicy("d1", 1, "r1"), Subject("d2", 1), Stage("STAGE_POLICY", FALSE, "x"),
             Attest("d1", "m0", "u1", {1}, "x", 2),
             Evaluate("d1", "e1", 1, "m0", "m1", "u1", None),
             Stage("STAGE_EVALUATION", FALSE, "x")>>
    @@ bob :> <<ApprovePolicy("d1", 1, "r1"), Stage("STAGE_POLICY_APPROVAL", FALSE, "x"),
                Approve("d1", "e1"), Stage("STAGE_APPROVAL", FALSE, "x"), Finalize("s1")>>

\* The staged path to its end, with repeated controls, a rival definition and
\* a second evaluation that arrives after the finalization.
StagedAlone(historical) ==
    ann :> <<Subject("d2", 1), Stage("STAGE_POLICY", historical, "x"),
             Stage("STAGE_EVALUATION", historical, "x"), Define("d2"),
             StageAs("STAGE_EVALUATION", "s2"), Finalize("s1")>>
    @@ bob :> <<Define("d2"), Stage("STAGE_POLICY_APPROVAL", historical, "x"),
                Stage("STAGE_APPROVAL", historical, "x"), Finalize("s1"), Finalize("s1"),
                Define("d1")>>

\* Each actor has a second connection, on which commands are sent again while
\* the first ones are still on their way.
AnnAgain == "ann again"
BobAgain == "bob again"

Again(load, anns, bobs) == load @@ AnnAgain :> anns @@ BobAgain :> bobs

\* The maker evaluates one month twice, the checker approves its policy twice.
EvaluateTwice ==
    LET evaluate == Evaluate("d1", "e1", 1, "m0", "m1", "u1", None)
        attest == Attest("d1", "m0", "u1", {1}, "x", 2)
    IN  Again(ann :> <<ProposePolicy("d1", 1, "r1"), attest, evaluate, Revise("d1", "m0", "m0")>>
                @@ bob :> <<ApprovePolicy("d1", 1, "r1"), attest>>,
              <<evaluate>>, <<ApprovePolicy("d1", 1, "r1")>>)

\* The checker approves one month twice.
ApproveTwice ==
    Again(EarlyClose, <<Attest("d1", "m0", "u1", {1}, "x", 2)>>, <<Approve("d1", "e1")>>)

\* A subject, its controls and its finalization, each sent twice by its actor.
StagedRetries(historical) ==
    LET makes == <<Subject("d2", 1), Stage("STAGE_POLICY", historical, "x")>>
    IN  Again(ann :> makes @@ bob :> <<>>, makes, <<>>)

FinalizeTwice ==
    Again(ann :> <<Subject("d2", 1), Stage("STAGE_POLICY", TRUE, "x"), Stage("STAGE_EVALUATION", TRUE, "x")>>
            @@ bob :> <<Stage("STAGE_POLICY_APPROVAL", TRUE, "x"), Stage("STAGE_APPROVAL", TRUE, "x"),
                        Finalize("s1")>>,
          <<>>, <<Finalize("s1")>>)

\* After the staged path the version is governed month by month; an evaluation
\* may not take the name of the staged one.
StagedThenMonthly ==
    ann :> <<Subject("d2", 1), Stage("STAGE_POLICY", TRUE, "x"), Stage("STAGE_EVALUATION", TRUE, "x"),
             ProposePolicy("d2", 3, "r1"), Attest("d2", "n1", "u1", {3}, "x", 2),
             Evaluate("d2", "s1", 3, "n1", "n2", "u1", None),
             Evaluate("d2", "s2", 3, "n1", "n2", "u1", None)>>
    @@ bob :> <<Stage("STAGE_POLICY_APPROVAL", TRUE, "x"), Stage("STAGE_APPROVAL", TRUE, "x"),
                Finalize("s1"), ApprovePolicy("d2", 3, "r1"), Approve("d2", "s1")>>

MonthWorkloads ==
    {Again(load, <<>>, <<>>) : load \in
        {TwoMonths, RivalMonth, EarlyClose, Correction, LateCorrection, StagedBeside,
         StagedAlone(FALSE), StagedAlone(TRUE), StagedThenMonthly}}
    \cup {EvaluateTwice, ApproveTwice, StagedRetries(FALSE), StagedRetries(TRUE), FinalizeTwice}

MonthClients == {ann, bob, AnnAgain, BobAgain}

MonthActor == ann :> ann @@ bob :> bob @@ AnnAgain :> ann @@ BobAgain :> bob

-----------------------------------------------------------------------------
\* The part that does not run stays in one fixed state.
FeedAtRest ==
    /\ definition = None /\ revisions = None /\ publications = None /\ attested = None
    /\ receipts = None /\ nextSequence = 0 /\ lock = None /\ sender = None /\ resends = 0
    /\ answers = None /\ consumer = None

\* No version and no command.
MonthsAtRest ==
    /\ now = 0
    /\ definitions = [v \in Versions |-> None] /\ published = [v \in Versions |-> <<>>]
    /\ subject = [v \in Versions |-> None] /\ finalization = [v \in Versions |-> None]
    /\ universes = {} /\ policyProposals = {} /\ policyApprovals = {}
    /\ evaluationProposals = {} /\ evaluationApprovals = {}
    /\ client = [c \in Clients |-> [queue |-> <<>>, record |-> None, answer |-> None]]

CompositesInit ==
    \/ part = "feed" /\ F!Init /\ MonthsAtRest
    \/ part = "months" /\ Init /\ FeedAtRest

CompositesNext ==
    \/ part = "feed" /\ F!Next /\ UNCHANGED <<part, vars>>
    \/ part = "months" /\ Next /\ UNCHANGED <<part, feedVars>>

=============================================================================
