----------------------------- MODULE SwarmGimbal -----------------------------
(***************************************************************************)
(* The gimbals of the swarm: swarm_gimbal_router_node.cpp turns the        *)
(* operator's commands for one drone or for all into camera targets,       *)
(* gimbal_control_node.cpp does so with the joystick of one drone, and     *)
(* that drone's gimbal_command_mux_node.cpp selects.                       *)
(*                                                                         *)
(* One of the two axes is represented: the code treats both alike.  An     *)
(* angle is a number of jog steps from home.  A drone is eligible as long  *)
(* as it is registered, connected, controllable and has a gimbal.  The mux *)
(* is that of the drone Watched, which hears a message of the router or,   *)
(* away on its link, loses it; the router may die.  Times are kept as      *)
(* whether a timeout is over.                                              *)
(* An operator called Mistaken... is a wrong version of the definition     *)
(* after it, to see the properties fail; no specification uses it.         *)
(***************************************************************************)
EXTENDS Integers, FiniteSets

CONSTANTS
  Drones, Watched,
  Limit       \* the end of the axis, in jog steps

ASSUME GimbalAssumption == Watched \in Drones /\ Limit \in Nat

VARIABLES
  alive,                                          \* the router runs
  channels,                                       \* the router, by drone
  all_held_command, held_commands, home_targets,  \* the router's commands
  pan_target,                                     \* gimbal_control
  mux, source,                                    \* the mux and what it sends
  stopped     \* history: the last accepted command was STOP for all

routerVars == <<alive, channels, all_held_command, held_commands, home_targets, stopped>>

muxVars == <<pan_target, mux, source>>

vars == <<routerVars, muxVars>>

Angles == -Limit..Limit

Clamp(angle) == IF angle > Limit THEN Limit ELSE IF angle < -Limit THEN -Limit ELSE angle

(* The directions of one axis; a command that is held moves the target.    *)
Directions == {"LEFT", "RIGHT"}

Unknown ==
  [eligible |-> FALSE, have_joint_state |-> FALSE, pan |-> 0, commanded |-> 0,
   swarm_output_active |-> FALSE]

Init ==
  /\ alive = TRUE
  /\ channels = [d \in Drones |-> Unknown]
  /\ all_held_command = "NONE"
  /\ held_commands = [d \in Drones |-> "NONE"]
  /\ home_targets = {}
  /\ stopped = FALSE
  /\ pan_target = 0
  /\ mux = [teleop |-> 0, swarm |-> 0, have_teleop |-> FALSE, have_swarm |-> FALSE, fresh |-> TRUE,
            stop_hold |-> FALSE, swarm_active |-> FALSE, swarm_hold_after_stop |-> FALSE]
  /\ source = "none"

-----------------------------------------------------------------------------
(* The mux hears the router: a target, and whether the swarm is in charge. *)

OnSwarmActive(m, active) ==
  IF active
  THEN [m EXCEPT !.swarm_active = TRUE, !.swarm_hold_after_stop = FALSE, !.fresh = TRUE]
  ELSE [m EXCEPT !.swarm_active = FALSE, !.stop_hold = TRUE, !.swarm_hold_after_stop = TRUE]

OnSwarmTarget(m, target) == [m EXCEPT !.swarm = target, !.have_swarm = TRUE, !.fresh = TRUE]

(* What the router sends to the watched drone in a step is all heard or    *)
(* all lost; "targets" are the channels that get a target, "released"      *)
(* those that only hear that the swarm has let go.                         *)
Sent(targets, released, after) ==
  /\ UNCHANGED <<pan_target, source>>
  /\ \/ UNCHANGED mux
     \/ /\ Watched \in targets
        /\ mux' = OnSwarmActive(OnSwarmTarget(mux, after[Watched].commanded),
                                after[Watched].swarm_output_active)
     \/ Watched \in released /\ mux' = OnSwarmActive(mux, FALSE)

-----------------------------------------------------------------------------
(* The router.                                                             *)

Eligible == {d \in Drones : channels[d].eligible}

(* What the gimbal has reported, if it has.                                *)
Reported(c) == IF c.have_joint_state THEN [c EXCEPT !.commanded = c.pan] ELSE c

PrepareForSwarm(c) == IF c.swarm_output_active THEN c ELSE Reported(c)

Stop(c) == [Reported(c) EXCEPT !.swarm_output_active = FALSE]

Start(c) == [c EXCEPT !.swarm_output_active = TRUE]

(* /swarm/state: a drone that is not listed is disconnected, but released  *)
(* by the timer only.                                                      *)
OnSwarmState ==
  /\ alive
  /\ \E listed \in SUBSET Drones, eligible \in SUBSET Drones :
       LET released == {d \in listed \ eligible : channels[d].swarm_output_active}
       IN  /\ eligible \subseteq listed
           /\ channels' = [d \in Drones |->
                [channels[d] EXCEPT !.eligible = d \in eligible,
                                    !.swarm_output_active = @ /\ d \notin released]]
           /\ Sent({}, released, channels')
  /\ UNCHANGED <<alive, all_held_command, held_commands, home_targets, stopped>>

OnJointState(d, angle) ==
  /\ alive
  /\ channels' = [channels EXCEPT ![d] =
       [channels[d] EXCEPT !.pan = angle, !.have_joint_state = TRUE,
                           !.commanded = IF channels[d].swarm_output_active THEN @ ELSE angle]]
  /\ UNCHANGED <<alive, all_held_command, held_commands, home_targets, stopped, muxVars>>

(* handleCommand.  A command for a drone that is not eligible, or for all  *)
(* when none is, is refused and changes nothing: a release as well.        *)
Selected(addressed) == addressed \cap Eligible

Accepts(addressed) ==
  /\ alive
  /\ Selected(addressed) # {}
  /\ addressed # Drones => Cardinality(addressed) = 1

(* A command for all forgets those for one drone.                          *)
Forgotten(addressed, all) ==
  [d \in Drones |-> IF all \/ d \in addressed THEN "NONE" ELSE held_commands[d]]

CommandHome(addressed, all) ==
  /\ Accepts(addressed)
  /\ all_held_command' = IF all THEN "NONE" ELSE all_held_command
  /\ held_commands' = Forgotten(addressed, all)
  /\ home_targets' = home_targets \cup Selected(addressed)
  /\ channels' = [d \in Drones |-> IF d \in Selected(addressed)
                                   THEN Start([channels[d] EXCEPT !.commanded = 0])
                                   ELSE channels[d]]
  /\ stopped' = FALSE
  /\ Sent(Selected(addressed), {}, channels')
  /\ UNCHANGED alive

MistakenCommandStop(addressed, all) ==
  /\ Accepts(addressed)
  /\ all_held_command' = IF all THEN "NONE" ELSE all_held_command
  /\ held_commands' = Forgotten(addressed, all)
  /\ home_targets' = home_targets \ Selected(addressed)
  /\ channels' = [d \in Drones |-> IF d \in Selected(addressed) THEN Stop(channels[d])
                                   ELSE channels[d]]
  /\ stopped' = all
  /\ Sent(Selected(addressed), {}, channels')
  /\ UNCHANGED alive

(* STOP, or the release of a direction.                                    *)
CommandStop(addressed, all) ==
  /\ Accepts(addressed)
  /\ all_held_command' = IF all THEN "NONE" ELSE all_held_command
  /\ held_commands' = Forgotten(addressed, all)
  /\ home_targets' = IF all THEN {} ELSE home_targets \ addressed
  /\ channels' = [d \in Drones |-> IF d \in Selected(addressed) THEN Stop(channels[d])
                                   ELSE channels[d]]
  /\ stopped' = all
  /\ Sent(Selected(addressed), {}, channels')
  /\ UNCHANGED alive

CommandJog(addressed, all, direction) ==
  /\ Accepts(addressed)
  /\ all_held_command' = IF all THEN direction ELSE all_held_command
  /\ held_commands' = [d \in Drones |-> IF ~all /\ d \in addressed THEN direction
                                        ELSE Forgotten(addressed, all)[d]]
  /\ home_targets' = home_targets \ Selected(addressed)
  /\ channels' = [d \in Drones |-> IF d \in Selected(addressed)
                                   THEN Start(PrepareForSwarm(channels[d]))
                                   ELSE channels[d]]
  /\ stopped' = FALSE
  /\ Sent(Selected(addressed), {}, channels')
  /\ UNCHANGED alive

HandleCommand ==
  \E all \in BOOLEAN : \E addressed \in IF all THEN {Drones} ELSE {{d} : d \in Drones} :
    \/ CommandHome(addressed, all)
    \/ CommandStop(addressed, all)
    \/ \E direction \in Directions : CommandJog(addressed, all, direction)

CommandFor(d) == IF held_commands[d] # "NONE" THEN held_commands[d] ELSE all_held_command

Jogged(c, direction) ==
  LET ready == PrepareForSwarm(c)
      step == IF direction = "LEFT" THEN 1 ELSE -1
  IN  Start([ready EXCEPT !.commanded = Clamp(@ + step)])

(* updateHome: at home, or home_timeout_s has passed ("late").             *)
AtHome(d, late) == d \in late \/ (channels[d].have_joint_state /\ channels[d].pan = 0)

Homing == Eligible \cap home_targets

Jogging == {d \in Eligible \ home_targets : CommandFor(d) # "NONE"}

Ticked(late) ==
  [d \in Drones |->
     LET c == channels[d]
     IN  IF d \in Jogging THEN Jogged(c, CommandFor(d))
         ELSE IF d \in Homing
              THEN IF AtHome(d, late) THEN Stop([c EXCEPT !.commanded = 0])
                   ELSE Start([c EXCEPT !.commanded = 0])
         ELSE IF d \in Eligible /\ c.swarm_output_active THEN Stop(c)
         ELSE [c EXCEPT !.swarm_output_active = FALSE]]

RouterTimer ==
  /\ alive
  /\ \E late \in SUBSET Homing :
       /\ channels' = Ticked(late)
       /\ home_targets' = home_targets \ {d \in Homing : AtHome(d, late)}
       /\ Sent({d \in Eligible : d \in Homing \cup Jogging \/ channels[d].swarm_output_active},
               {d \in Drones \ Eligible : channels[d].swarm_output_active}, Ticked(late))
  /\ UNCHANGED <<alive, all_held_command, held_commands, stopped>>

RouterDies ==
  /\ alive' = FALSE
  /\ alive
  /\ UNCHANGED <<channels, all_held_command, held_commands, home_targets, stopped, muxVars>>

-----------------------------------------------------------------------------
(* The drone: the joystick's target, with or without a button pressed, and *)
(* what the mux makes of it.                                               *)

OnTeleop(m, target) ==
  [m EXCEPT !.teleop = target, !.have_teleop = TRUE,
            !.swarm_hold_after_stop = @ /\ ~(m.have_teleop /\ target # m.teleop)]

GimbalControlTimer(input) ==
  /\ pan_target' = Clamp(pan_target + input)
  /\ mux' = OnTeleop(mux, pan_target')
  /\ UNCHANGED <<routerVars, source>>

UsesSwarm ==
  (mux.swarm_active /\ mux.fresh) \/ mux.stop_hold \/ mux.swarm_hold_after_stop

MistakenMuxTimer ==
  LET silent == mux.swarm_active /\ ~mux.fresh
  IN  /\ mux' = [mux EXCEPT !.swarm_hold_after_stop = @ \/ silent]
      /\ source' = IF UsesSwarm THEN IF mux.have_swarm THEN "swarm" ELSE "none"
                   ELSE IF mux.have_teleop THEN "joystick" ELSE "none"
      /\ UNCHANGED <<routerVars, pan_target>>

(* The swarm has fallen silent: its last target is held, from the next     *)
(* timer on.                                                               *)
MuxTimer ==
  LET silent == mux.swarm_active /\ ~mux.fresh
  IN  /\ mux' = [mux EXCEPT !.swarm_active = @ /\ ~silent, !.swarm_hold_after_stop = @ \/ silent]
      /\ source' = IF UsesSwarm THEN IF mux.have_swarm THEN "swarm" ELSE "none"
                   ELSE IF mux.have_teleop THEN "joystick" ELSE "none"
      /\ UNCHANGED <<routerVars, pan_target>>

(* swarm_command_timeout_sec or stop_hold_sec has passed.                  *)
TimePasses ==
  /\ mux' \in {[mux EXCEPT !.fresh = FALSE], [mux EXCEPT !.stop_hold = FALSE]}
  /\ mux' # mux
  /\ UNCHANGED <<routerVars, pan_target, source>>

-----------------------------------------------------------------------------
Next ==
  \/ OnSwarmState
  \/ \E d \in Drones, angle \in Angles : OnJointState(d, angle)
  \/ HandleCommand
  \/ RouterTimer
  \/ RouterDies
  \/ \E input \in {-1, 0, 1} : GimbalControlTimer(input)
  \/ MuxTimer
  \/ TimePasses

Spec == Init /\ [][Next]_vars

(* The mux spins its timer, and time goes by.                              *)
Fairness == WF_vars(MuxTimer) /\ WF_vars(TimePasses)

FairSpec == Spec /\ Fairness

-----------------------------------------------------------------------------
(* Properties.                                                             *)

(* Once STOP was accepted for all, the router lets no gimbal move until it *)
(* accepts another command: not one that was on its way home, not one that *)
(* was away when the STOP came and is back, whatever was held before.      *)
StopAllStops ==
  [][stopped /\ stopped' =>
       \A d \in Drones :
         /\ channels'[d].swarm_output_active => channels[d].swarm_output_active
         /\ channels'[d].commanded \in {channels[d].commanded, channels'[d].pan}]_vars

(* When the router is gone, or has let go and is asked for nothing more, a *)
(* pilot who keeps using the joystick has the gimbal to himself: no hold   *)
(* of the swarm's last target, and no lost message, keeps it from him.     *)
JoystickRegains ==
  /\ <>[](~alive \/ ~channels[Watched].swarm_output_active)
  /\ <>[][~HandleCommand]_vars
  /\ []<><<pan_target' # pan_target>>_vars
  => <>[](source = "joystick")
=============================================================================
