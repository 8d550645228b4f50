------------------------------ MODULE Results -------------------------------
(***************************************************************************)
(* What a step of a handler returns: a value, or the code it refuses with. *)
(***************************************************************************)
EXTENDS Integers, Sequences, FiniteSets, FiniteSetsExt, SequencesExt

Refused(code) == [refused |-> code]

Accepted(value) == [refused |-> "NO", value |-> value]

IsRefused(result) == result.refused # "NO"

\* The first refusal among checks made in order, or none.
FirstRefusal(codes) ==
    LET failing == {i \in DOMAIN codes : codes[i] # "NO"}
    IN  IF failing = {} THEN "NO" ELSE codes[Min(failing)]

\* The members of a set as a sequence in the given order.
InOrder(S, Before(_, _)) == SortSeq(FoldSet(LAMBDA x, seq : Append(seq, x), <<>>, S), Before)

=============================================================================
