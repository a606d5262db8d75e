------------------------- MODULE MCSwarmCoordinator -------------------------
(* Three scenarios of SwarmCoordinator.  Each keeps whole actions of it,   *)
(* the ones its question is about; which one is played is chosen once.     *)
EXTENDS SwarmCoordinator

VARIABLE scenario

(* The drones come up in their order, airborne and healthy.                *)
DronesGetReady ==
  \E d \in Drones :
    /\ \A e \in Drones : e < d => link[e] = "full"
    /\ \/ link[d] = "silent" /\ OnVehicleState(d, "flying", TRUE)
       \/ link[d] = "stale" /\ OnDroneHeartbeat(d, "NORMAL")

(* Routing: every operation on targets and missions, and any feedback.     *)
RoutingNext ==
  \/ AddTarget
  \/ \E t \in co.pending : RemoveTarget(t)
  \/ ClearPendingTargets
  \/ \E recalculate \in BOOLEAN : Calculate(recalculate)
  \/ StartMission
  \/ CancelActiveMission
  \/ DispatchTimeout
  \/ \E fb \in AnyFeedback : OnMissionFeedback(fb)
  \/ DronesGetReady

(* Safety: drones that are sent home, land and run low on battery while    *)
(* they are on a mission of one target, with two batteries that wait.      *)
SafetyNext ==
  \/ co.nextTarget = 1 /\ AddTarget
  \/ \E recalculate \in BOOLEAN : Calculate(recalculate)
  \/ StartMission
  \/ \E selection \in Selections : ReturnHome(selection)
  \/ \E selection \in Selections : Land(selection)
  \/ \E selection \in Selections : ForceDisarm(selection)
  \/ Timer
  \/ DronesGetReady
  \/ \E d \in Drones, b \in BatteryStates : OnDroneHeartbeat(d, b)
  \/ \E d \in Owners(co.aux) : \E fb \in AuxFeedbacks(d) : OnMissionFeedback(fb)
  \/ \E d \in Owners(co.provisional) : \E fb \in RouteFeedbacks(d, co.provisional[d]) :
       fb.state = "ACCEPTED" /\ OnMissionFeedback(fb)

(* Routes and commands of this scenario; a dispatch still times out.       *)
SafetyBudget == co.nextRoute <= 2 /\ co.nextCommand <= 3

(* Services: the operator's commands that the other two leave out, and any *)
(* link, for one drone.                                                    *)
ServicesNext ==
  \/ co.nextTarget = 1 /\ AddTarget
  \/ co.nextRoute = 1 /\ Calculate(FALSE)
  \/ StartMission
  \/ \E kind \in {"ARM", "TAKEOFF"} : FlightControl(kind, {1})
  \/ SetDroneSpeed(1)
  \/ SetDroneLidarRange(1)
  \/ DisableDrone(1)
  \/ EnableDrone(1)
  \/ \E v \in Vehicles, localized \in BOOLEAN : OnVehicleState(1, v, localized)
  \/ \E b \in BatteryStates : OnDroneHeartbeat(1, b)
  \/ \E l \in Links : LinkLoss(1, l)
  \/ DispatchTimeout
  \/ \E fb \in AnyFeedback : OnMissionFeedback(fb)

ScenarioInit == Init /\ scenario \in {"routing", "safety", "services"}

ScenarioNext ==
  /\ \/ scenario = "routing" /\ RoutingNext
     \/ scenario = "safety" /\ SafetyBudget /\ SafetyNext
     \/ scenario = "safety" /\ DispatchTimeout
     \/ scenario = "services" /\ co.nextCommand <= 2 /\ ServicesNext
  /\ UNCHANGED scenario

ScenarioSpec ==
  /\ ScenarioInit
  /\ [][ScenarioNext]_<<vars, scenario>>
  /\ WF_<<vars, scenario>>(DispatchTimeout /\ UNCHANGED scenario)
=============================================================================
