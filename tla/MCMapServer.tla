----------------------------- MODULE MCMapServer -----------------------------
(* One drone that comes and goes while its scans are under way; or two     *)
(* that stay, whose scans come one by one but out of order, are fused,     *)
(* expire and are published, and only one of them has misses.  The fused   *)
(* map is followed as long as each voxel lapses once; without that         *)
(* conjunct PublishedFollowsGlobal fails.                                  *)
EXTENDS MapServer

CONSTANTS
  Visitor,
  Landmark     \* bound: hit by the visitor before its first scan is applied, or never

VARIABLE scenario

ScenarioInit ==
  /\ Init
  /\ scenario \in {"sessions", "fusion"}
  /\ scenario = "sessions" => config.timeout = 0
  /\ scenario = "fusion" => config.retain

LandmarkSeen(p) == p.item = "scan" /\ Landmark \in p.free \cup p.occupied

Visits ==
  /\ scenario = "sessions"
  /\ Next
  /\ \A d \in Drones \ {Visitor} : ~drones'[d].connected /\ drones'[d].boot = 1
  /\ \A d \in Drones : ~LandmarkSeen(pending_map_clouds'[d])
  /\ clock' <= 2 /\ UNCHANGED <<cloud, octree, serializer>>

OnTheirWay == {d \in Drones : pending_map_clouds[d] # None \/ workers[d].at = "taken"}

Fusion ==
  /\ scenario = "fusion"
  /\ Next
  /\ LapsesOnce(global_fusion')
  /\ \A d \in Drones : drones'[d].connected /\ drones'[d].boot = 1
  /\ pending_map_clouds'[Visitor].item = "scan" => pending_map_clouds'[Visitor].free = {}
  /\ \A d \in Drones : LandmarkSeen(pending_map_clouds'[d]) =>
       /\ d = Visitor /\ drones[d].last_stamp = 0
       /\ pending_map_clouds'[d].occupied = {Landmark}
  /\ Cardinality(OnTheirWay' \cup {d \in Drones : workers'[d] # Idle}) <= 1
  /\ serializer' # Idle => OnTheirWay' = {}

ScenarioSpec ==
  ScenarioInit /\ [][(Visits \/ Fusion) /\ UNCHANGED scenario]_<<vars, scenario>>
=============================================================================
