---------------------------- MODULE MCMotionChain ----------------------------
(* Three pilots who contend; one pilot before obstacles and with nodes     *)
(* that die; operators who try the modes on the ground.                    *)
EXTENDS MotionChain

VARIABLE scenario

ScenarioInit == Init /\ scenario \in {"pilots", "obstacles", "modes"}

Contention ==
  /\ scenario = "pilots"
  /\ PilotSpeaks \/ MuxTimer \/ ApfTimer \/ GatewayTimer \/ Transition \/ Tick

Obstacles ==
  /\ scenario = "obstacles"
  /\ Next
  /\ \A s \in Sources \ {"autonomous"} : intents'[s] = NoInput
  /\ UNCHANGED <<modeVars, fixed_wing>>

ModesTried ==
  /\ scenario = "modes"
  /\ OperatorSets
  /\ UNCHANGED avoidance_enabled

ScenarioSpec ==
  ScenarioInit
  /\ [][(Contention \/ Obstacles \/ ModesTried) /\ UNCHANGED scenario]_<<vars, scenario>>
=============================================================================
