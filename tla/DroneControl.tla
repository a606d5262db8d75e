---------------------------- MODULE DroneControl ----------------------------
(***************************************************************************)
(* One drone in flight: its navigation server and its flight supervisor,   *)
(* which share /flight/request, and the vehicle under them.  The server    *)
(* asks for VTOL transitions; the supervisor refuses what comes while it   *)
(* is busy, and nobody tells the server.  A pilot may ask for LAND.        *)
(* The supervisor's own variables are used; no client of its action        *)
(* servers takes part.                                                     *)
(*                                                                         *)
(* "requests" is the topic's queue at the supervisor; "landUnread" says    *)
(* that the server has not read a LAND yet; "px" is PX4: its mode, the     *)
(* mode it was commanded to take, whether it lands and whether it is down  *)
(* and disarmed.  PX4 is not part of the repository: it is modelled as the *)
(* supervisor and the gateway expect it, obeying what it can.              *)
(***************************************************************************)
EXTENDS FlightSupervisor

CONSTANTS
  NavGoals,       \* the goal handles of /navigate_to
  MaxRequests     \* bound: flight requests under way when the server ticks

ASSUME RequestsAssumption == MaxRequests \in Nat

VARIABLES
  nav, navReport, navGoals, navEnded, published,   \* NavigationServer
  requests, landUnread, px

navVars == <<nav, navReport, navGoals, navEnded, published>>

droneVars == <<navVars, vars, requests, landUnread, px>>

N == INSTANCE NavigationServer WITH Goals <- NavGoals, report <- navReport,
                                    goals <- navGoals, ended <- navEnded

Transitions == {"TO_FW", "TO_MC"}

DroneInit ==
  /\ N!Init
  /\ Init
  /\ requests = <<>>
  /\ landUnread = FALSE
  /\ px = [mode |-> "MC", target |-> "MC", landing |-> FALSE, down |-> FALSE]

-----------------------------------------------------------------------------
(* PX4.                                                                    *)

Obey(command, p) ==
  CASE command = "NAV_LAND" -> [p EXCEPT !.landing = TRUE, !.target = "MC"]
    [] command = "TO_FW" /\ ~p.down -> [p EXCEPT !.target = "FW"]
    [] command = "TO_MC" -> [p EXCEPT !.target = "MC"]
    [] OTHER -> p

(* At most one command of a callback concerns the flight modelled here.    *)
Obeyed(commands, p) ==
  LET heard == {i \in DOMAIN commands : Obey(commands[i], p) # p}
  IN  IF heard = {} THEN p ELSE Obey(commands[CHOOSE i \in heard : TRUE], p)

(* PX4 changes its vehicle type at some point of a transition.             *)
VehicleTransition ==
  /\ px.mode # px.target
  /\ px' = [px EXCEPT !.mode = px.target]
  /\ UNCHANGED <<navVars, vars, requests, landUnread>>

Touchdown ==
  /\ px.landing /\ px.mode = "MC" /\ ~px.down
  /\ px' = [px EXCEPT !.down = TRUE]
  /\ UNCHANGED <<navVars, vars, requests, landUnread>>

(* What the gateway publishes on /vehicle/state.                           *)
VehicleState ==
  [armed |-> ~px.down, offboard |-> ~px.landing, mode |-> px.mode, high |-> FALSE,
   ground |-> IF px.down THEN "landed" ELSE "airborne"]

NavHears ==
  /\ N!OnState([valid |-> TRUE, mode |-> px.mode])
  /\ UNCHANGED <<vars, requests, landUnread, px>>

SupervisorHears ==
  /\ OnState(VehicleState)
  /\ UNCHANGED <<navVars, requests, landUnread, px>>

-----------------------------------------------------------------------------
(* The navigation server: its flight requests are queued.                  *)

Requested == SelectSeq(published', LAMBDA m : m \in Transitions)

NavTimer(graceOver, arrived) ==
  /\ Len(requests) < MaxRequests
  /\ N!OnTimer(graceOver, arrived)
  /\ requests' = requests \o Requested
  /\ UNCHANGED <<vars, landUnread, px>>

NavTime ==
  /\ N!PeriodPasses
  /\ UNCHANGED <<vars, requests, landUnread, px>>

NavClients ==
  /\ N!Clients
  /\ UNCHANGED <<vars, requests, landUnread, px>>

NavReadsLand ==
  /\ landUnread
  /\ N!OnFlightTermination
  /\ landUnread' = FALSE
  /\ UNCHANGED <<vars, requests, px>>

-----------------------------------------------------------------------------
(* The flight supervisor: its commands reach PX4.                          *)

(* startManualTransition drops what comes while an operation runs.         *)
Refused(request) == request \in Transitions /\ ~MayStart

SupervisorReads ==
  /\ requests # <<>>
  /\ requests' = Tail(requests)
  /\ LET request == Head(requests)
     IN  IF Refused(request) THEN UNCHANGED vars
         ELSE \/ request = "LAND" /\ StartManualLand
              \/ request \in Transitions /\ StartManualTransition(request = "TO_FW")
  /\ UNCHANGED <<navVars, landUnread, px>>

SupervisorTimer ==
  /\ OnTimer
  /\ px' = Obeyed(sent', px)
  /\ UNCHANGED <<navVars, requests, landUnread>>

SupervisorTime ==
  /\ PeriodPasses
  /\ UNCHANGED <<navVars, requests, landUnread, px>>

(* The pilot's LAND on /flight/request, read by both nodes.                *)
PilotLands ==
  /\ ~px.landing /\ ~landUnread
  /\ Len(requests) < MaxRequests
  /\ requests' = Append(requests, "LAND")
  /\ landUnread' = TRUE
  /\ UNCHANGED <<navVars, vars, px>>

-----------------------------------------------------------------------------
DroneNext ==
  \/ VehicleTransition
  \/ Touchdown
  \/ NavHears
  \/ SupervisorHears
  \/ \E graceOver, arrived \in BOOLEAN : NavTimer(graceOver, arrived)
  \/ NavTime
  \/ NavClients
  \/ NavReadsLand
  \/ SupervisorReads
  \/ SupervisorTimer
  \/ SupervisorTime
  \/ PilotLands

DroneSpec == DroneInit /\ [][DroneNext]_droneVars

(* Every node spins its timer and reads its topics, and PX4 carries out    *)
(* what it obeyed.  Nothing makes a client, the pilot or a goal move on.   *)
DroneFairness ==
  /\ WF_droneVars(VehicleTransition)
  /\ WF_droneVars(Touchdown)
  /\ WF_droneVars(NavHears)
  /\ WF_droneVars(SupervisorHears)
  /\ WF_droneVars(\E arrived \in BOOLEAN : NavTimer(TRUE, arrived))
  /\ WF_droneVars(NavTime)
  /\ WF_droneVars(NavReadsLand)
  /\ WF_droneVars(SupervisorReads)
  /\ WF_droneVars(SupervisorTimer)
  /\ WF_droneVars(SupervisorTime)

DroneFairSpec == DroneSpec /\ DroneFairness

-----------------------------------------------------------------------------
(* Properties.                                                             *)

DroneTypeOK ==
  /\ N!TypeOK
  /\ TypeOK
  /\ requests \in Seq(Transitions \cup {"LAND"})
  /\ landUnread \in BOOLEAN

(* A vehicle that lands is never sent back to fixed wing: not by a goal    *)
(* that is still active, nor by requests that were queued before the LAND. *)
LandingStaysMulticopter == px.landing => px.target = "MC"

(* The pilot's LAND is carried out, whatever the supervisor was doing and  *)
(* whatever the navigation server keeps asking of it.                      *)
LandIsCarriedOut == landUnread ~> px.down

(* A goal that is flown for ever is flown in its mode: a request that the  *)
(* supervisor refused is repeated until the vehicle is in that mode.       *)
Flown == nav.active # {} /\ ~nav.override /\ ~N!Canceling /\ ~px.landing

GoalGetsItsMode ==
  []<>(Flown => px.mode = IF nav.fixedWing THEN "FW" ELSE "MC")

=============================================================================
