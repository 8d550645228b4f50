----------------------- MODULE WaveSimulationContract -----------------------
(***************************************************************************)
(* What a durable simulation operation promises of its wave: every item    *)
(* gets at most one verdict, and the wave leaves SIMULATING once, when all *)
(* items have theirs, for the state those verdicts add up to.              *)
(***************************************************************************)
CONSTANT Items

VARIABLES
  verdict,  \* the final state of each item, or OPEN
  state     \* the state of the wave

Verdicts == {"SIMULATED", "SIMULATION_BLOCKED", "SOURCE_BLOCKED"}

Init ==
  /\ verdict = [i \in Items |-> "OPEN"]
  /\ state = "SIMULATING"

Settle ==
  /\ verdict' \in [Items -> Verdicts \cup {"OPEN"}]
  /\ \A i \in Items : verdict[i] # "OPEN" => verdict'[i] = verdict[i]
  /\ UNCHANGED state

ResultState ==
  IF \A i \in Items : verdict[i] = "SIMULATED" THEN "SIMULATED"
  ELSE IF \E i \in Items : verdict[i] = "SIMULATED" THEN "PARTIALLY_SIMULATED"
  ELSE "SIMULATION_FAILED"

Close ==
  /\ state = "SIMULATING"
  /\ \A i \in Items : verdict[i] # "OPEN"
  /\ state' = ResultState
  /\ UNCHANGED verdict

Next == Settle \/ Close

Spec == Init /\ [][Next]_<<verdict, state>>
=============================================================================
