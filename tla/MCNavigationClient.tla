------------------------- MODULE MCNavigationClient -------------------------
(* Three goals of the operator through both queues while the vehicle's     *)
(* state may be invalid; two that the other client preempts; one against   *)
(* the other client, the pilots and the vehicle's transitions.             *)
EXTENDS NavigationClient

VARIABLE scenario

ScenarioInit ==
  /\ ClientInit
  /\ scenario \in {"queue", "preempted", "contention"}

SteadyFlight ==
  /\ report'.mode = "FW" \/ UNCHANGED report
  /\ ~nav'.override /\ ~nav'.suppress

Queueing ==
  /\ scenario = "queue"
  /\ ClientNext
  /\ SteadyFlight
  /\ goals'[Rival] = "free"

Preemption ==
  /\ scenario = "preempted"
  /\ ClientNext
  /\ SteadyFlight
  /\ next_goal_id' <= 3 /\ takeoff' = takeoff
  /\ nav'.active = {Rival} => nav'.fixedWing

Contention ==
  /\ scenario = "contention"
  /\ ClientNext
  /\ next_goal_id' <= 2 /\ takeoff' = takeoff

ScenarioSpec ==
  /\ ScenarioInit
  /\ [][(Queueing \/ Preemption \/ Contention) /\ UNCHANGED scenario]_<<allVars, scenario>>
  /\ Fairness
=============================================================================
