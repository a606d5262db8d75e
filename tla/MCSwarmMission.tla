--------------------------- MODULE MCSwarmMission ---------------------------
(* Two scenarios of SwarmMission.  Each keeps whole actions of it; which   *)
(* one is played is chosen once.                                           *)
EXTENDS SwarmMission

VARIABLE scenario

(* The drones come up in their order, each airborne and healthy.           *)
GetsReady(d) ==
  \/ link[d] = "silent" /\ OnVehicleState(d, "flying", TRUE)
  \/ link[d] = "stale" /\ OnDroneHeartbeat(d, "NORMAL")

DronesGetReady ==
  \E d \in Drones : (\A e \in Drones : e < d => link[e] = "full") /\ GetsReady(d)

Plan ==
  \/ Coordinate(AddTarget)
  \/ Coordinate(\E recalculate \in BOOLEAN : Calculate(recalculate))
  \/ Coordinate(StartMission)

(* Drones that plan, fly and recalculate a mission, or are sent home.      *)
RoutingNext ==
  \/ Plan
  \/ Coordinate(DispatchTimeout)
  \/ Coordinate(DronesGetReady)
  \/ Coordinate(\E d \in Drones : ReturnHome({d}))
  \/ Exchange

(* Drone 1 on a mission that is sent home, landed, disarmed or switched    *)
(* off by an operator, or sent home and landed by its battery.  The others *)
(* never come up and drop what they read.                                  *)
FlightNext ==
  \/ Plan
  \/ Coordinate(Timer)
  \/ Coordinate(ReturnHome({1}))
  \/ Coordinate(Land({1}))
  \/ Coordinate(\E kind \in {"ARM", "TAKEOFF"} : FlightControl(kind, {1}))
  \/ Coordinate(ForceDisarm({1}))
  \/ Coordinate(DisableDrone(1))
  \/ Coordinate(EnableDrone(1))
  \/ Coordinate(GetsReady(1))
  \/ Coordinate(\E b \in BatteryStates : OnDroneHeartbeat(1, b))
  \/ Exchange

Bystanders == {d \in Drones \ {1} : missionInbox[d] # <<>>}

ScenarioInit == MissionInit /\ scenario \in {"routing", "flight"}

ScenarioNext ==
  /\ \/ scenario = "routing" /\ RoutingNext
     \/ scenario = "flight" /\ Bystanders = {} /\ FlightNext
     \/ scenario = "flight" /\ \E d \in Bystanders : ReadMissionCommand(d)
  /\ UNCHANGED scenario

ScenarioSpec ==
  /\ ScenarioInit
  /\ [][ScenarioNext]_<<missionVars, scenario>>

(* What a callback published is in the inboxes already.                    *)
Unpublished ==
  <<[co EXCEPT !.out = <<>>], link, vehicle, ex, goals, missionInbox, flightInbox,
    reports, scenario>>
=============================================================================
