------------------------------- MODULE ApfSafety -------------------------------
(***************************************************************************)
(* apf_safety_node.cpp: the node that bends a selected velocity around     *)
(* obstacles, and the modes, the LiDAR range and the parameters by which   *)
(* it does so.                                                             *)
(*                                                                         *)
(* Of a profile's parameters this is the influence radius, which the LiDAR *)
(* range replaces, and the distance at which a fixed wing starts to avoid. *)
(* What the solver computes and its hysteresis are not represented.        *)
(* An operator called Mistaken... is a wrong version of the definition     *)
(* after it, to see the properties fail; no specification uses it.         *)
(***************************************************************************)
EXTENDS MotionTypes

CONSTANTS Distances, MinRange   \* see MotionChain

VARIABLES
  command,             \* command_ and command_received_
  have_state,
  obstacles,           \* the last cloud: has it points, and since when
  avoidance_enabled,
  active_mode, profiles, active_lidar_range, active_parameters

motionVars == <<command, have_state, obstacles>>

modeVars == <<active_mode, profiles, active_lidar_range, active_parameters>>

Modes == {"stable", "normal", "sport"}

(* No cloud, or one that is past its timeout, shows nothing.               *)
NoCloud == [points |-> FALSE, since |-> 0]

Max2(a, b) == IF a > b THEN a ELSE b

(* A trigger is 10 m below the range in the files of all three modes.      *)
Parameters(range) == [radius |-> range, trigger |-> Max2(1, range - 10)]

Init ==
  /\ command = NoInput
  /\ have_state = FALSE
  /\ obstacles = NoCloud
  /\ avoidance_enabled = TRUE
  /\ active_mode = "normal"
  /\ profiles = [m \in Modes |-> Parameters(MinRange)]
  /\ active_lidar_range = MinRange
  /\ active_parameters = Parameters(MinRange)

-----------------------------------------------------------------------------
(* Commands, vehicle state, clouds and the timer.                          *)

OnCommand(c) ==
  /\ command' = Received(c)
  /\ UNCHANGED <<have_state, obstacles, avoidance_enabled, modeVars>>

OnState ==
  /\ have_state' = TRUE
  /\ UNCHANGED <<command, obstacles, avoidance_enabled, modeVars>>

OnObstacles(points) ==
  /\ obstacles' = [points |-> points, since |-> 0]
  /\ UNCHANGED <<command, have_state, avoidance_enabled, modeVars>>

SeesObstacles == obstacles.points /\ obstacles.since <= Timeout

MistakenSafeCommand ==
  IF ~have_state \/ ~Fresh(command) THEN Inactive
  ELSE [command.command EXCEPT
          !.filtered = avoidance_enabled /\ SeesObstacles /\ obstacles.since < Timeout]

(* What the timer publishes: nothing to fly without a fresh command, the   *)
(* velocity as it is when there is nothing to avoid.                       *)
SafeCommand ==
  IF ~have_state \/ ~Fresh(command) THEN Inactive
  ELSE [command.command EXCEPT !.filtered = avoidance_enabled /\ SeesObstacles]

(* The callbacks leave the ages to the clock.                              *)
OlderCloud ==
  IF obstacles.points /\ obstacles.since < Timeout
  THEN [obstacles EXCEPT !.since = @ + 1]
  ELSE NoCloud

-----------------------------------------------------------------------------
(* Modes and parameters.                                                   *)

(* applyActiveParameters: the profile with the range in force.             *)
Applied(p, range) == [p EXCEPT !.radius = range]

Valid(p) == 1 <= p.radius /\ 1 <= p.trigger /\ p.trigger <= p.radius

(* setEnabled sets the parameter as well, which goes by onParametersSet    *)
(* with everything else as it is; it does not mind a refusal.              *)
SetEnabled(enabled) ==
  /\ avoidance_enabled' = enabled
  /\ profiles' = IF Valid(active_parameters)
                 THEN [profiles EXCEPT ![active_mode] = active_parameters]
                 ELSE profiles
  /\ UNCHANGED <<motionVars, active_mode, active_lidar_range, active_parameters>>

MistakenSetMode(m) ==
  /\ m \in Modes \ {active_mode}
  /\ active_mode' = m
  /\ active_parameters' = profiles[m]
  /\ UNCHANGED <<motionVars, avoidance_enabled, profiles, active_lidar_range>>

(* Another name, or the active mode, is refused.                           *)
SetMode(m) ==
  /\ m \in Modes \ {active_mode}
  /\ active_mode' = m
  /\ active_parameters' = Applied(profiles[m], active_lidar_range)
  /\ UNCHANGED <<motionVars, avoidance_enabled, profiles, active_lidar_range>>

OnLidarRange(range) ==
  /\ range >= MinRange
  /\ active_lidar_range' = range
  /\ profiles' = [profiles EXCEPT ![active_mode] = Parameters(range)]
  /\ active_parameters' = Parameters(range)
  /\ UNCHANGED <<motionVars, avoidance_enabled, active_mode>>

(* One call may set both.  The whole set is validated, what it leaves as   *)
(* it was included, and refused as a whole.                                *)
OnParametersSet(range, trigger) ==
  /\ range \in Distances \cup {active_lidar_range}
  /\ trigger \in Distances \cup {active_parameters.trigger}
  /\ LET updated == [radius |-> range, trigger |-> trigger]
     IN  /\ Valid(updated)
         /\ profiles' = [profiles EXCEPT ![active_mode] = updated]
         /\ active_parameters' = updated
  /\ active_lidar_range' = range
  /\ UNCHANGED <<motionVars, avoidance_enabled, active_mode>>

-----------------------------------------------------------------------------
(* The solver avoids with the parameters of the mode it is said to be in,  *)
(* within the LiDAR range last set, whatever was set in which mode.        *)
ModeIsApplied ==
  active_parameters = Applied(profiles[active_mode], active_lidar_range)

(* "fixed-wing avoidance trigger must be within the APF radius"            *)
TriggerWithinRadius == active_parameters.trigger <= active_parameters.radius
=============================================================================
