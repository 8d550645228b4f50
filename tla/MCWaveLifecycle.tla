--------------------------- MODULE MCWaveLifecycle ---------------------------
(* Instances of WaveLifecycle for TLC.                                      *)
EXTENDS WaveLifecycle, TLC

CONSTANTS i1, i2, x, y, a1, a2, a3

\* Nothing orders or names concurrent commands.
RequestSymmetry == Permutations(Requests)

\* Preparing the wave: every reading, simulations with inputs that differ.
Preparation ==
  [commands |-> {"source_check", "simulate", "cancel"},
   inputs |-> {x, y}, alternatives |-> {}, packs |-> {},
   readings |-> [i \in Items |-> Readings], bound |-> 7]

\* A durable simulation beside simulations on request.
Simulations ==
  [commands |-> {"source_check", "simulate", "durable", "cancel"},
   inputs |-> {x}, alternatives |-> {}, packs |-> {},
   readings |-> (i1 :> {"ready", "review", "no_twin"} @@ i2 :> {"ready"}), bound |-> 8]

\* Selecting among alternatives of one item, proof packs, and the other item
\* left behind.
Selection ==
  [commands |-> {"source_check", "durable", "select", "approve", "direct"},
   inputs |-> {x}, alternatives |-> {a1, a2, a3}, packs |-> {"READY", "BLOCKED"},
   readings |-> (i1 :> {"ready"} @@ i2 :> {"no_twin"}), bound |-> 9]

\* All the way to a handoff or a cancellation.
Delivery ==
  [commands |-> {"source_check", "durable", "select", "approve", "stage", "handoff", "cancel"},
   inputs |-> {x}, alternatives |-> {a1}, packs |-> {"READY"},
   readings |-> [i \in Items |-> {"ready"}], bound |-> 11]

AllMixes == {Preparation, Simulations, Selection, Delivery}
=============================================================================
