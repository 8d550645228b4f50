-------------------------- MODULE MCAsyncOperation --------------------------
(* Instances of AsyncOperation for TLC.                                     *)
EXTENDS AsyncOperation, TLC

CONSTANTS o1, o2

\* One operation with two scenarios, and two operations that follow each other
\* under one correlation id.
MCRequests ==
  {[o \in OpIds |-> IF o = o1 THEN {1, 2} ELSE {}], [o \in OpIds |-> {1}]}
=============================================================================
