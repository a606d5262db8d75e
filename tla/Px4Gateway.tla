------------------------------ MODULE Px4Gateway ------------------------------
(***************************************************************************)
(* px4_gateway_node.cpp: the only node that talks to PX4.  Every period it *)
(* sends a setpoint, from the last safe command while that is fresh.       *)
(***************************************************************************)
EXTENDS MotionTypes

VARIABLES
  safe_command,          \* command_ and command_received_
  last_active_command,   \* of no particular age
  fixed_wing,            \* what VehicleStatus said of the vehicle type
  setpoint               \* the command flown, and by what type of vehicle

Init ==
  /\ safe_command = NoInput
  /\ last_active_command = Inactive
  /\ fixed_wing = FALSE
  /\ setpoint = [command |-> Inactive, fixed_wing |-> FALSE]

OnSafeCommand(c) ==
  /\ safe_command' = Received(c)
  /\ last_active_command' = IF c.active THEN [c EXCEPT !.age = MaxAge] ELSE last_active_command
  /\ UNCHANGED <<fixed_wing, setpoint>>

OnStatus ==
  /\ fixed_wing' = ~fixed_wing
  /\ UNCHANGED <<safe_command, last_active_command, setpoint>>

MistakenActiveCommand ==
  IF Fresh(safe_command) THEN safe_command.command
  ELSE IF last_active_command.active THEN last_active_command
  ELSE Inactive

(* A wing that stops falls: a fixed-wing vehicle goes on with the last     *)
(* active command, however old it is; a multicopter stops.                 *)
ActiveCommand ==
  IF Fresh(safe_command) THEN safe_command.command
  ELSE IF fixed_wing /\ last_active_command.active THEN last_active_command
  ELSE Inactive

OnTimer ==
  /\ setpoint' = [command |-> ActiveCommand, fixed_wing |-> fixed_wing]
  /\ UNCHANGED <<safe_command, last_active_command, fixed_wing>>
=============================================================================
