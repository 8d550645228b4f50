----------------------- MODULE MCInstructionPackages -----------------------
(* Instances of InstructionPackages for TLC.                               *)
EXTENDS InstructionPackages, TLC

CONSTANTS i1, i2, v1, v2, a, b, x, y, u, w, q1, q2, k1, r1

\* A mandate whose content changes under one version, and then its version.
MCMandates == {[version |-> v1, content |-> a], [version |-> v1, content |-> b],
               [version |-> v2, content |-> a]}

Release(id, item, material, supersedes, by) ==
  LET m == [version |-> v1, content |-> a]
  IN [id |-> id, item |-> item, version |-> v1, material |-> material,
      approval |-> [id |-> id, item |-> item, mandate |-> m, material |-> material],
      supersedes |-> supersedes, correlation |-> q1, by |-> by]

First == Release(1, i1, x, None, u)

\* Rivals for one identity: the release, its retry by another operator, the same
\* under another correlation, changed material, and a release that supersedes itself.
Identity ==
  [batches |-> {<<First>>, <<[First EXCEPT !.by = w]>>,
                <<[First EXCEPT !.correlation = q2]>>,
                <<Release(1, i1, y, None, u)>>, <<Release(1, i1, x, 1, u)>>},
   consumers |-> {k1}, readers |-> {}, mandates |-> MCMandates]

\* Rivals for one item, one of them in a batch with another item.
Supersession ==
  [batches |-> {<<First>>, <<Release(2, i1, x, None, u)>>,
                <<Release(2, i1, x, 1, u), Release(3, i2, y, None, u)>>,
                <<Release(3, i1, x, 1, u)>>},
   consumers |-> {}, readers |-> {}, mandates |-> MCMandates]

\* Releases that are committed while an adapter pages through the list.
Paging ==
  [batches |-> {<<First>>, <<Release(2, i1, x, 1, u), Release(3, i2, x, None, u)>>},
   consumers |-> {}, readers |-> {r1},
   mandates |-> {[version |-> v1, content |-> a]}]

AllWorkloads == {Identity, Supersession, Paging}

OnlySupersession == {Supersession}

CallerSymmetry == Permutations(Callers)
=============================================================================
