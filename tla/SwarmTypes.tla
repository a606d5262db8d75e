------------------------------ MODULE SwarmTypes ------------------------------
(***************************************************************************)
(* The vocabulary the ground station and the drones share: the drones, the *)
(* SwarmMissionCommand broadcast and the SwarmMissionFeedback message.     *)
(***************************************************************************)
EXTENDS Naturals, Sequences, FiniteSets

CONSTANT NumDrones    \* the drones are 1..NumDrones, in the order of drones_

ASSUME DronesAssumption == NumDrones \in Nat \ {0}

Drones == 1..NumDrones

(* The n-th smallest of a set of numbers: loops visit drones and queues so. *)
Nth(S, n) == CHOOSE e \in S : Cardinality({f \in S : f < e}) = n - 1

(* What a queue holds at the positions "kept", in its order.               *)
Picked(queue, kept) == [n \in 1..Cardinality(kept) |-> queue[Nth(kept, n)]]

(* What a broadcast asks a drone to fly: the id of its route and how many  *)
(* targets the route has.  NoOrder (id 0) stands for "no route for you".   *)
Order == [id: Nat, legs: Nat]

NoOrder == [id |-> 0, legs |-> 0]

NoOrders == [d \in Drones |-> NoOrder]

(* An EXECUTE carries the purpose of its routes, here as three kinds.      *)
HomeKinds == {"HOME", "LOW_BATTERY_RTH"}

ExecuteKinds == {"EXECUTE"} \cup HomeKinds

FlightKinds == {"ARM", "TAKEOFF", "LAND", "FORCE_DISARM"}

SettingKinds == {"SET_SPEED", "SET_LIDAR_RANGE"}

Kinds == ExecuteKinds \cup FlightKinds \cup SettingKinds \cup {"CANCEL"}

(* "to" is target_drone_ids; an empty list there means every drone here.   *)
Broadcasts ==
  [kind: Kinds, command: Nat, mission: Nat, revision: Nat,
   to: SUBSET Drones, orders: [Drones -> Order]]

Broadcast(kind, command, mission, revision, to, orders) ==
  [kind |-> kind, command |-> command, mission |-> mission,
   revision |-> revision, to |-> to, orders |-> orders]

Failures == {"CANCELED", "REJECTED", "FAILED"}

Acceptances == {"ACCEPTED", "EXECUTING", "SUCCEEDED"}

FeedbackStates == Acceptances \cup Failures

Terminal == Failures \cup {"SUCCEEDED"}

Feedbacks ==
  [command: Nat, mission: Nat, revision: Nat, drone: Drones, route: Nat,
   state: FeedbackStates, completed: Nat]

Feedback(command, mission, revision, d, route, state, completed) ==
  [command |-> command, mission |-> mission, revision |-> revision, drone |-> d,
   route |-> route, state |-> state, completed |-> completed]
=============================================================================
