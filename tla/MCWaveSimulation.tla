------------------------- MODULE MCWaveSimulation -------------------------
(* Instances of WaveSimulation for TLC.                                     *)
EXTENDS WaveSimulation, TLC

\* Reconcilers are interchangeable: nothing orders or names them.
Symmetry == Permutations(Reconcilers)
=============================================================================
