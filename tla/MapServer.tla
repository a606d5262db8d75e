------------------------------ MODULE MapServer ------------------------------
(***************************************************************************)
(* swarm_global_map_server.cpp with incremental_occupancy.hpp: the global  *)
(* map of the swarm and one local map per drone.                           *)
(*                                                                         *)
(* Its threads meet at map_mutex_ and mapping_queue_mutex_: the executor,  *)
(* which hears the swarm's state and the scans and expires what a lost     *)
(* drone left; a worker per drone; a thread that publishes the clouds and  *)
(* one that serializes the global tree.  A worker inserts a scan into the  *)
(* local map, which is its own, without a lock.                            *)
(*                                                                         *)
(* A scan is the sets of free and of occupied voxels that the rays yield.  *)
(* Every scan has a stamp.  Local trees, colours and message layouts are   *)
(* not represented, nor who subscribes to what is published.               *)
(* An operator called Mistaken... is a wrong version of the definition     *)
(* after it, to see the properties fail; no specification uses it.         *)
(***************************************************************************)
EXTENDS MapFusion

CONSTANTS
  Drones,
  MaxTime,         \* bound: of the clock
  MaxGeneration    \* bound: sessions and resets of a drone

VARIABLES
  config,       \* retain_submap_on_disconnect and dynamic_obstacle_timeout_sec
  clock,
  drones,       \* drones_ and local_maps_
  pending_map_clouds,
  workers,      \* where each worker is and what it holds
  global_fusion, pending_global_changes,
  cloud,        \* the published voxels, and whether global_revision_ is theirs
  octree, serializer

vars == <<config, clock, drones, pending_map_clouds, workers, global_fusion,
          pending_global_changes, cloud, octree, serializer>>

None == [item |-> "none"]

NoChanges == <<>>

Sessions == 1..2

NewDrone(timeout) ==
  [boot |-> 0, connected |-> FALSE, subscription |-> -1, lost |-> FALSE, started |-> FALSE,
   generation |-> 0, reset_generation |-> 0, last_stamp |-> 0, keys |-> {},
   worker_generation |-> -1, local_fusion |-> NoFusion(timeout)]

Idle == [at |-> "idle"]

Init ==
  /\ config \in [retain : BOOLEAN, timeout : {0, 1}]
  /\ clock = 1
  /\ drones = [d \in Drones |-> NewDrone(config.timeout)]
  /\ pending_map_clouds = [d \in Drones |-> None]
  /\ workers = [d \in Drones |-> Idle]
  /\ global_fusion = NoFusion(config.timeout)
  /\ pending_global_changes = NoChanges
  /\ cloud = [keys |-> {}, current |-> FALSE]
  /\ octree = {}
  /\ serializer = Idle

-----------------------------------------------------------------------------
(* The executor thread.                                                    *)

(* resetContribution, of a drone; its worker is woken by a marker.         *)
Reset(m) ==
  [m EXCEPT !.generation = @ + 1, !.reset_generation = @ + 1, !.last_stamp = 0, !.keys = {}]

Marker(m) == [item |-> "reset", generation |-> m.generation]

Marked(after) ==
  [d \in Drones |->
     IF after[d].reset_generation # drones[d].reset_generation /\ after[d].started
     THEN Marker(after[d]) ELSE pending_map_clouds[d]]

(* What /swarm/state says of a drone: its session, and whether it is       *)
(* registered, connected and has a LiDAR.                                  *)
Rebooted(m, boot) ==
  LET fresh == IF m.boot \notin {0, boot} THEN [Reset(m) EXCEPT !.subscription = -1] ELSE m
  IN  [fresh EXCEPT !.boot = boot]

Connected(m) ==
  LET up == IF m.connected THEN m ELSE [m EXCEPT !.generation = @ + 1, !.connected = TRUE]
  IN  [up EXCEPT !.lost = FALSE, !.started = TRUE,
                 !.subscription = IF @ = -1 THEN up.generation ELSE @]

Disconnected(m) ==
  LET down == [m EXCEPT !.generation = @ + 1, !.connected = FALSE, !.subscription = -1,
                        !.lost = TRUE]
  IN  IF ~m.connected THEN m
      ELSE IF config.retain THEN down ELSE Reset(down)

Reported(m, r) ==
  IF r.up THEN Connected(Rebooted(m, r.boot)) ELSE Disconnected(Rebooted(m, r.boot))

OnSwarmState ==
  /\ \E state \in [Drones -> [boot : Sessions, up : BOOLEAN]] :
       drones' = [d \in Drones |-> Reported(drones[d], state[d])]
  /\ \A d \in Drones : drones'[d].generation <= MaxGeneration
  /\ pending_map_clouds' = Marked(drones')
  /\ UNCHANGED <<config, clock, workers, global_fusion, pending_global_changes, cloud,
                 octree, serializer>>

(* expireRetainedSubmaps: submap_timeout_sec has passed for some.          *)
ExpireRetainedSubmaps ==
  /\ config.retain
  /\ \E expired \in SUBSET {d \in Drones : ~drones[d].connected /\ drones[d].lost} :
       drones' = [d \in Drones |-> IF d \in expired
                                   THEN [Reset(drones[d]) EXCEPT !.lost = FALSE]
                                   ELSE drones[d]]
  /\ \A d \in Drones : drones'[d].generation <= MaxGeneration
  /\ pending_map_clouds' = Marked(drones')
  /\ UNCHANGED <<config, clock, workers, global_fusion, pending_global_changes, cloud,
                 octree, serializer>>

Current(m, generation) == m.connected /\ m.generation = generation

(* A newer scan takes the place of one that waits.                         *)
OnMapCloud(d) ==
  /\ Current(drones[d], drones[d].subscription)
  /\ \E stamp \in drones[d].last_stamp + 1 .. clock, free, occupied \in SUBSET Voxels :
       /\ free \cap occupied = {} /\ free \cup occupied # {}
       /\ pending_map_clouds' = [pending_map_clouds EXCEPT ![d] =
            [item |-> "scan", generation |-> drones[d].subscription, stamp |-> stamp,
             free |-> free, occupied |-> occupied]]
  /\ UNCHANGED <<config, clock, drones, workers, global_fusion, pending_global_changes,
                 cloud, octree, serializer>>

-----------------------------------------------------------------------------
(* The worker of a drone.                                                  *)

WorkerTakes(d) ==
  /\ workers[d] = Idle /\ pending_map_clouds[d] # None
  /\ workers' = [workers EXCEPT ![d] = [at |-> "taken", pending |-> pending_map_clouds[d]]]
  /\ pending_map_clouds' = [pending_map_clouds EXCEPT ![d] = None]
  /\ UNCHANGED <<config, clock, drones, global_fusion, pending_global_changes, cloud,
                 octree, serializer>>

Obsolete(m, p) ==
  p.item = "scan" /\ (~Current(m, p.generation) \/ p.stamp <= m.last_stamp)

(* The worker's own map, begun anew after a reset.                         *)
Renewed(m) ==
  IF m.worker_generation = m.reset_generation THEN m
  ELSE [m EXCEPT !.local_fusion = NoFusion(config.timeout),
                 !.worker_generation = m.reset_generation]

(* processMapCloud up to the insertion.  A malformed or empty scan is      *)
(* dropped.                                                                *)
WorkerInserts(d) ==
  LET p == workers[d].pending
      m == Renewed(drones[d])
  IN  /\ workers[d].at = "taken"
      /\ \/ /\ Obsolete(drones[d], p)
            /\ workers' = [workers EXCEPT ![d] = Idle]
            /\ UNCHANGED drones
         \/ /\ ~Obsolete(drones[d], p)
            /\ workers' = [workers EXCEPT ![d] = Idle]
            /\ drones' = [drones EXCEPT ![d] = m]
         \/ /\ ~Obsolete(drones[d], p) /\ p.item = "scan"
            /\ LET scanned == IntegrateScan(m.local_fusion, p.free, p.occupied, p.stamp)
               IN  /\ drones' = [drones EXCEPT ![d] = [m EXCEPT !.local_fusion = scanned.fusion]]
                   /\ workers' = [workers EXCEPT ![d] =
                        [at |-> "inserted", pending |-> p, changes |-> scanned.transitions,
                         reset_generation |-> m.reset_generation]]
      /\ UNCHANGED <<config, clock, pending_map_clouds, global_fusion,
                     pending_global_changes, cloud, octree, serializer>>

(* queueGlobalChanges.                                                     *)
QueueGlobalChanges(changes) ==
  /\ pending_global_changes' = Merged(changes, pending_global_changes)
  /\ cloud' = [cloud EXCEPT !.current = @ /\ changes = NoChanges]

On(changes) == {v \in DOMAIN changes : changes[v]}

(* A set of voxels after a number of transitions.                          *)
After(keys, changes) == (keys \ DOMAIN changes) \cup On(changes)

MistakenWorkerApplies(d) ==
  LET w == workers[d]
      scanned == IntegrateScan(global_fusion, w.pending.free, w.pending.occupied, w.pending.stamp)
  IN  /\ w.at = "inserted"
      /\ workers' = [workers EXCEPT ![d] = Idle]
      /\ drones' = [drones EXCEPT ![d].keys = After(@, w.changes),
                                  ![d].last_stamp = w.pending.stamp]
      /\ global_fusion' = scanned.fusion
      /\ QueueGlobalChanges(scanned.transitions)
      /\ UNCHANGED <<config, clock, pending_map_clouds, octree, serializer>>

(* The rest of processMapCloud, unless the contribution has been reset.    *)
WorkerApplies(d) ==
  LET w == workers[d]
      scanned == IntegrateScan(global_fusion, w.pending.free, w.pending.occupied, w.pending.stamp)
  IN  /\ w.at = "inserted"
      /\ workers' = [workers EXCEPT ![d] = Idle]
      /\ IF w.reset_generation = drones[d].reset_generation
         THEN /\ drones' = [drones EXCEPT ![d].keys = After(@, w.changes),
                                          ![d].last_stamp = w.pending.stamp]
              /\ global_fusion' = scanned.fusion
              /\ QueueGlobalChanges(scanned.transitions)
         ELSE UNCHANGED <<drones, global_fusion, pending_global_changes, cloud>>
      /\ UNCHANGED <<config, clock, pending_map_clouds, octree, serializer>>

-----------------------------------------------------------------------------
(* The publishing threads.                                                 *)

(* publishMaps: the clouds, when the revision is a new one.                *)
PublishMaps ==
  LET decayed == Decay(global_fusion, clock)
      same == cloud.current /\ decayed.transitions = NoChanges
  IN  /\ global_fusion' = decayed.fusion
      /\ pending_global_changes' = Merged(decayed.transitions, pending_global_changes)
      /\ cloud' = [keys |-> IF same THEN cloud.keys ELSE OccupiedKeys(decayed.fusion),
                   current |-> TRUE]
      /\ UNCHANGED <<config, clock, drones, pending_map_clouds, workers, octree, serializer>>

(* octomapPublishLoop, before and after it lets go of the lock.            *)
SerializerSwaps ==
  /\ serializer = Idle
  /\ serializer' = [at |-> "swapped", changes |-> pending_global_changes,
                    empty |-> Empty(global_fusion)]
  /\ pending_global_changes' = NoChanges
  /\ UNCHANGED <<config, clock, drones, pending_map_clouds, workers, global_fusion, cloud, octree>>

(* updateGlobalOccupiedTree.                                               *)
Updated(tree, changes, empty) == IF empty THEN {} ELSE After(tree, changes)

SerializerUpdates ==
  /\ serializer.at = "swapped"
  /\ octree' = Updated(octree, serializer.changes, serializer.empty)
  /\ serializer' = Idle
  /\ UNCHANGED <<config, clock, drones, pending_map_clouds, workers, global_fusion,
                 pending_global_changes, cloud>>

Tick ==
  /\ clock < MaxTime
  /\ clock' = clock + 1
  /\ UNCHANGED <<config, drones, pending_map_clouds, workers, global_fusion,
                 pending_global_changes, cloud, octree, serializer>>

-----------------------------------------------------------------------------
Next ==
  \/ OnSwarmState
  \/ ExpireRetainedSubmaps
  \/ \E d \in Drones : OnMapCloud(d) \/ WorkerTakes(d) \/ WorkerInserts(d) \/ WorkerApplies(d)
  \/ PublishMaps
  \/ SerializerSwaps \/ SerializerUpdates
  \/ Tick

Spec == Init /\ [][Next]_vars

-----------------------------------------------------------------------------
(* Properties.                                                             *)

InHand(d) ==
  IF workers[d].at = "inserted" /\ workers[d].reset_generation = drones[d].reset_generation
  THEN workers[d].changes ELSE NoChanges

(* "Session/reset generations prevent in-flight scans from restoring a     *)
(* cleared local contribution": what is shown of a drone is what its own   *)
(* tree has gathered since the last reset, and nothing as long as its      *)
(* worker has not begun a new tree.                                        *)
LocalMapsAreTheirDrones ==
  \A d \in Drones :
    LET m == drones[d]
    IN  IF m.worker_generation = m.reset_generation
        THEN After(m.keys, InHand(d)) = OccupiedKeys(m.local_fusion)
        ELSE m.keys = {}

SerializedSoon ==
  After(IF serializer = Idle THEN octree
        ELSE Updated(octree, serializer.changes, serializer.empty),
        pending_global_changes)

(* The tree that is published, with the changes on their way to it, and    *)
(* the cloud that counts as up to date are the global map: no transition   *)
(* of a voxel is lost or reversed between the workers, the expiry of hits, *)
(* the count of occupied voxels and the two publishers, as long as every   *)
(* voxel lapses once (LapsesOnce).                                         *)
PublishedFollowsGlobal ==
  /\ SerializedSoon = OccupiedKeys(global_fusion)
  /\ cloud.current => cloud.keys = OccupiedKeys(global_fusion)
=============================================================================
