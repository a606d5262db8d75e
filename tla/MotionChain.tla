------------------------------ MODULE MotionChain ------------------------------
(***************************************************************************)
(* The way of a velocity from the nodes that want to fly it to PX4:        *)
(* command_mux selects, apf_safety bends, px4_gateway sends.  Each of the  *)
(* three has a 20 ms timer of its own and sees only how long ago it heard  *)
(* from the one before; a message arrives within the period.               *)
(*                                                                         *)
(* Time goes by in periods, in which every node that runs ("alive") has    *)
(* its timer once, in any order ("due": not yet).  A node that dies leaves *)
(* the others with what it said last.                                      *)
(***************************************************************************)
EXTENDS MotionTypes

CONSTANTS
  Distances,   \* distances an operator sets, in metres
  MinRange     \* the least LiDAR range (70 m)

ASSUME ApfAssumption == Distances \subseteq Nat /\ MinRange \in Nat

VARIABLES
  intents, manual_override,                                    \* CommandMux
  command, have_state, obstacles, avoidance_enabled,           \* ApfSafety
  active_mode, profiles, active_lidar_range, active_parameters,
  safe_command, last_active_command, fixed_wing, setpoint,     \* Px4Gateway
  alive, due,
  led,      \* history: mux timers that found a fresh intent of the supervisor
  seen      \* history: safety timers that found an obstacle to avoid

Mux == INSTANCE CommandMux

Apf == INSTANCE ApfSafety

Gateway == INSTANCE Px4Gateway

muxVars == <<intents, manual_override>>

modeVars == <<active_mode, profiles, active_lidar_range, active_parameters>>

apfVars == <<command, have_state, obstacles, avoidance_enabled, modeVars>>

gatewayVars == <<safe_command, last_active_command, fixed_wing, setpoint>>

clockVars == <<alive, due, led, seen>>

vars == <<muxVars, apfVars, gatewayVars, clockVars>>

Nodes == {"command_mux", "apf_safety", "px4_gateway"}

Init ==
  /\ Mux!Init
  /\ Apf!Init
  /\ Gateway!Init
  /\ alive = Nodes
  /\ due = {}
  /\ led = 0
  /\ seen = 0

Settled == 4   \* bound: timers after which a history counts no more

Counted(n, holds) == IF ~holds THEN 0 ELSE IF n < Settled THEN n + 1 ELSE n

-----------------------------------------------------------------------------
(* The pilots: flight supervisor, navigation server and manual control.    *)
PilotSpeaks ==
  /\ \E s \in Sources, override \in BOOLEAN :
       /\ override => s = "manual"
       /\ \/ Mux!OnIntent(s, Intent(s, override))
          \/ ~override /\ Mux!OnIntent(s, Inactive)
  /\ UNCHANGED <<apfVars, gatewayVars, clockVars>>

MuxTimer ==
  /\ "command_mux" \in due
  /\ Mux!OnTimer
  /\ Apf!OnCommand(Mux!Selected)
  /\ due' = due \ {"command_mux"}
  /\ led' = Counted(led, Fresh(intents["supervisor"]))
  /\ UNCHANGED <<gatewayVars, alive, seen>>

ApfTimer ==
  /\ "apf_safety" \in due
  /\ Gateway!OnSafeCommand(Apf!SafeCommand)
  /\ due' = due \ {"apf_safety"}
  /\ seen' = Counted(seen, avoidance_enabled /\ Apf!SeesObstacles)
  /\ UNCHANGED <<muxVars, apfVars, alive, led>>

(* The gateway's timer publishes the vehicle state as well.                *)
GatewayTimer ==
  /\ "px4_gateway" \in due
  /\ Gateway!OnTimer
  /\ Apf!OnState
  /\ due' = due \ {"px4_gateway"}
  /\ UNCHANGED <<muxVars, alive, led, seen>>

(* The LiDAR node sends a cloud, PX4 changes the vehicle type, an operator *)
(* uses the services and parameters of apf_safety.                         *)
CloudArrives ==
  /\ \E points \in BOOLEAN : Apf!OnObstacles(points)
  /\ UNCHANGED <<muxVars, gatewayVars, clockVars>>

Transition ==
  /\ Gateway!OnStatus
  /\ UNCHANGED <<muxVars, apfVars, clockVars>>

OperatorSets ==
  /\ \/ \E enabled \in BOOLEAN : Apf!SetEnabled(enabled)
     \/ \E m \in Apf!Modes : Apf!SetMode(m)
     \/ \E range \in Distances : Apf!OnLidarRange(range)
     \/ \E range, trigger \in Distances \cup {active_lidar_range, active_parameters.trigger} :
          Apf!OnParametersSet(range, trigger)
  /\ UNCHANGED <<muxVars, gatewayVars, clockVars>>

(* The gateway is the drone's last link to PX4, whose own failsafe follows *)
(* when it dies.                                                           *)
Dies ==
  /\ \E n \in alive \ {"px4_gateway"} : alive' = alive \ {n} /\ due' = due \ {n}
  /\ UNCHANGED <<muxVars, apfVars, gatewayVars, led, seen>>

(* The next period.                                                        *)
Tick ==
  /\ due = {}
  /\ due' = alive
  /\ intents' = [s \in Sources |-> Older(intents[s])]
  /\ command' = Older(command)
  /\ obstacles' = Apf!OlderCloud
  /\ safe_command' = Older(safe_command)
  /\ setpoint' = [setpoint EXCEPT !.command = OlderCommand(@)]
  /\ UNCHANGED <<manual_override, have_state, avoidance_enabled, modeVars,
                 last_active_command, fixed_wing, alive, led, seen>>

Next ==
  \/ PilotSpeaks
  \/ MuxTimer
  \/ ApfTimer
  \/ GatewayTimer
  \/ CloudArrives
  \/ Transition
  \/ OperatorSets
  \/ Dies
  \/ Tick

Spec == Init /\ [][Next]_vars

-----------------------------------------------------------------------------
(* Properties.                                                             *)

Flown == setpoint.command

(* An intent that is not renewed stops a multicopter, within the time of   *)
(* one timeout while all nodes run, and of one more for each node of the   *)
(* two that hangs with it in its hands: no velocity is flown on for ever.  *)
SilenceStops ==
  Flown.active /\ ~setpoint.fixed_wing =>
    Flown.age <= Timeout + 3 + (Timeout + 1) * Cardinality(Nodes \ alive)

(* Once the supervisor has spoken for some periods nobody else is flown,   *)
(* neither a manual override nor a route.                                  *)
SupervisorPrevails ==
  alive = Nodes /\ led = Settled /\ Flown.active => Flown.source = "supervisor"

(* Nor is any velocity flown that does not take a visible obstacle into    *)
(* account.                                                                *)
ObstaclesAreAvoided ==
  alive = Nodes /\ seen = Settled /\ Flown.active /\ ~setpoint.fixed_wing => Flown.filtered

(* What an operator sets in one mode, and with the LiDAR range, survives   *)
(* the other modes.                                                        *)
ModeIsApplied == Apf!ModeIsApplied

(* The check of onParametersSet, of whatever way the parameters were set.  *)
TriggerWithinRadius == Apf!TriggerWithinRadius
=============================================================================
