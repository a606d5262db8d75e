---------------------------- MODULE MCSwarmGimbal ----------------------------
(* Two drones and the router; or one drone with its mux and joystick,      *)
(* whose gimbal moves where the swarm wants it or stays.                   *)
EXTENDS SwarmGimbal

VARIABLE scenario

ScenarioInit == Init /\ scenario \in {"router", "handover"}

Routing == scenario = "router" /\ Next /\ UNCHANGED muxVars

Handover ==
  /\ scenario = "handover"
  /\ Next
  /\ \A d \in Drones \ {Watched} : channels'[d] = Unknown
  /\ channels'[Watched].pan \in {channels[Watched].pan, mux.swarm}

ScenarioSpec ==
  /\ ScenarioInit
  /\ [][(Routing \/ Handover) /\ UNCHANGED scenario]_<<vars, scenario>>
  /\ Fairness
=============================================================================
