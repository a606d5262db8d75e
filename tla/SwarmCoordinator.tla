-------------------------- MODULE SwarmCoordinator --------------------------
(***************************************************************************)
(* The routing core of swarm_coordinator_node.cpp: the target buffer, the  *)
(* route books, the EXECUTE/feedback handshake, return-home and landing.   *)
(*                                                                         *)
(* The node is spun by one thread, so a callback is one atomic step.  Its  *)
(* memory is the record "co"; every helper of the node is an operator from *)
(* such a record to the next one, and a callback composes them in the      *)
(* order of the source.  co.out holds what the callback published.         *)
(*                                                                         *)
(* An operator called Mistaken... is a wrong version of the definition that *)
(* follows it, as a slip in the code would make it: no specification uses  *)
(* it; it is there to see the properties fail.                             *)
(*                                                                         *)
(* What the drones report is the environment: "link" (how fresh the last   *)
(* vehicle state and lease are) and "vehicle" (what that state said).      *)
(***************************************************************************)
EXTENDS SwarmTypes

CONSTANTS
  MaxTargets,   \* bound: targets an operator submits
  MaxRoutes,    \* bound: route tokens an operator's calculations consume
  MaxCommands,  \* bound: command ids after which operators and batteries rest
  MaxEvents     \* bound: safety events queued at a time

ASSUME BoundsAssumption ==
  /\ MaxTargets \in Nat
  /\ MaxRoutes \in Nat
  /\ MaxCommands \in Nat
  /\ MaxEvents \in Nat

VARIABLES
  co,        \* the coordinator's memory
  link,      \* link[d]: what the coordinator still hears from drone d
  vehicle    \* vehicle[d]: the last vehicle state received from drone d

vars == <<co, link, vehicle>>

(* "silent": no fresh vehicle state; "unlocalized": a fresh one without a  *)
(* valid position; "stale": a fresh, localized one but no lease or         *)
(* readiness; "full": heartbeat, lease and readiness too                   *)
Links == {"silent", "unlocalized", "stale", "full"}

(* "flying": armed, Offboard and airborne; "armed": armed but not all of   *)
(* those; "grounded": landed and disarmed                                  *)
Vehicles == {"grounded", "armed", "flying"}

BatteryStates == {"NORMAL", "RETURN_HOME", "EMERGENCY_LAND"}

-----------------------------------------------------------------------------
(* Routes and route books.  A book maps each drone to its route; NoRoute   *)
(* (id 0, which no route has) stands for a missing key of the std::map.    *)

Route ==
  [id: Nat, targets: Seq(Nat), completed: Nat, accepted: BOOLEAN, finished: BOOLEAN]

NoRoute ==
  [id |-> 0, targets |-> <<>>, completed |-> 0, accepted |-> FALSE, finished |-> FALSE]

NoRoutes == [d \in Drones |-> NoRoute]

Aux == [id: Nat, command: Nat, mission: Nat]

NoAux == [id |-> 0, command |-> 0, mission |-> 0]

Owners(book) == {d \in Drones : book[d].id # 0}

Stops(route) == {route.targets[i] : i \in DOMAIN route.targets}

CompletedStops(route) ==
  {route.targets[i] : i \in {j \in DOMAIN route.targets : j <= route.completed}}

UnfinishedStops(route) ==
  {route.targets[i] : i \in {j \in DOMAIN route.targets : j > route.completed}}

BookStops(book) == UNION {Stops(book[d]) : d \in Drones}

RemainingOrder(route) ==
  IF route.completed >= Len(route.targets) THEN <<>>
  ELSE SubSeq(route.targets, route.completed + 1, Len(route.targets))

-----------------------------------------------------------------------------
(* Health of a drone as the guards of the node test it.                    *)

Connected(d) == link[d] \in {"stale", "full"}

DroneHealthy(s, d) ==
  s.enabled[d] /\ ~s.excluded[d] /\ s.batteryOk[d] /\ link[d] = "full"

DroneReadyForMission(s, d) ==
  DroneHealthy(s, d) /\ vehicle[d] = "flying" /\ ~s.landing[d]

(* What a service call names: every drone, or one of them.                 *)
Selections == {Drones} \cup {{d} : d \in Drones}

-----------------------------------------------------------------------------
(* Publishing.  An EXECUTE carries the order of every drone with a route.  *)

Orders(book) == [d \in Drones |-> [id |-> book[d].id, legs |-> Len(book[d].targets)]]

PublishNew(s, kind, mission, revision, to) ==
  [s EXCEPT !.nextCommand = @ + 1,
            !.out = Append(@, Broadcast(kind, s.nextCommand, mission, revision,
                                        to, NoOrders))]

MistakenCancelRevision(s, mission, revision, to) ==
  IF mission = 0 THEN s ELSE PublishNew(s, "CANCEL", mission, revision - 1, to)

PublishCancelCommand(s, mission, revision, to) ==
  IF mission = 0 THEN s ELSE PublishNew(s, "CANCEL", mission, revision, to)

PublishFlightCommand(s, kind, to) ==
  PublishNew(s, kind, s.activeMission, s.activeRevision, to)

-----------------------------------------------------------------------------
(* The helpers that move routes and targets between the books.             *)

InvalidatePlannedRoutes(s) ==
  [s EXCEPT !.planned = NoRoutes, !.plannedRecalc = FALSE]

MistakenRestore(s) == [s EXCEPT !.active = {}]

RestoreActiveTargets(s) ==
  [s EXCEPT !.pending = @ \cup s.active, !.active = {}]

DetachDroneRoutes(s, ds) ==
  [s EXCEPT
     !.active = @ \ UNION {Stops(s.current[d]) : d \in ds},
     !.pending = @ \cup UNION {UnfinishedStops(s.current[d]) : d \in ds},
     !.current = [d \in Drones |-> IF d \in ds THEN NoRoute ELSE @[d]],
     !.provisional = [d \in Drones |-> IF d \in ds THEN NoRoute ELSE @[d]],
     !.busy = [d \in Drones |-> d \notin ds /\ @[d]]]

MistakenEraseAux(s, ds) ==
  [s EXCEPT !.returnHome = [d \in Drones |-> d \notin ds /\ @[d]]]

EraseAux(s, ds) ==
  [s EXCEPT !.aux = [d \in Drones |-> IF d \in ds THEN NoAux ELSE @[d]],
            !.returnHome = [d \in Drones |-> d \notin ds /\ @[d]]]

SetLanding(s, ds, value) ==
  [s EXCEPT !.landing = [d \in Drones |-> IF d \in ds THEN value ELSE @[d]]]

MistakenRelease(s) ==
  [s EXCEPT !.busy = [d \in Drones |->
     @[d] /\ d \in Owners(s.current) \cup Owners(s.provisional)]]

ReleaseUnassignedDrones(s) ==
  [s EXCEPT !.busy = [d \in Drones |->
     @[d] /\ d \in Owners(s.current) \cup Owners(s.provisional) \cup Owners(s.aux)]]

ClearMission(s) ==
  InvalidatePlannedRoutes(
    [RestoreActiveTargets(s) EXCEPT !.current = NoRoutes, !.provisional = NoRoutes,
                                    !.phase = "IDLE", !.recalculation = FALSE])

AbortActiveMission(s, publishCancel) ==
  LET cleared == ClearMission(s)
  IN  ReleaseUnassignedDrones(
        IF publishCancel
        THEN PublishCancelCommand(cleared, s.activeMission, s.activeRevision, Drones)
        ELSE cleared)

FinishMission(s) ==
  InvalidatePlannedRoutes(
    [s EXCEPT !.busy = [d \in Drones |-> d \in Owners(s.aux)],
              !.current = NoRoutes, !.active = {}])

AllFinished(book) ==
  Owners(book) # {} /\ \A d \in Owners(book) : book[d].finished

MistakenCommitPhase(s) ==
  LET unfinished == UNION {UnfinishedStops(s.provisional[d]) : d \in Drones}
  IN  [s EXCEPT !.active = @ \cup unfinished, !.pending = @ \ unfinished,
                !.current = s.provisional, !.provisional = NoRoutes,
                !.recalculation = FALSE]

MistakenCommitPending(s) ==
  [s EXCEPT !.active = @ \cup UNION {UnfinishedStops(s.provisional[d]) : d \in Drones},
            !.current = s.provisional, !.provisional = NoRoutes,
            !.phase = "IDLE", !.recalculation = FALSE]

CommitProvisional(s) ==
  LET unfinished == UNION {UnfinishedStops(s.provisional[d]) : d \in Drones}
      committed == [s EXCEPT !.active = @ \cup unfinished,
                             !.pending = @ \ unfinished,
                             !.current = s.provisional,
                             !.provisional = NoRoutes,
                             !.phase = "IDLE",
                             !.recalculation = FALSE]
  IN  IF AllFinished(s.provisional) THEN FinishMission(committed) ELSE committed

MistakenSilentFailure(s) ==
  LET dropped == [s EXCEPT !.provisional = NoRoutes, !.phase = "IDLE",
                           !.recalculation = FALSE]
  IN  IF s.recalculation THEN AbortActiveMission(dropped, FALSE)
      ELSE ReleaseUnassignedDrones(dropped)

MistakenEndlessFailure(s) ==
  IF Owners(s.provisional) = {} THEN s
  ELSE LET dropped == [s EXCEPT !.provisional = NoRoutes]
       IN  ReleaseUnassignedDrones(PublishCancelCommand(dropped, s.activeMission,
                                                        s.activeRevision, Drones))

FailProvisional(s) ==
  IF Owners(s.provisional) = {} THEN s
  ELSE LET dropped == [s EXCEPT !.provisional = NoRoutes, !.phase = "IDLE",
                                !.recalculation = FALSE]
           canceled == PublishCancelCommand(dropped, s.activeMission,
                                            s.activeRevision, Drones)
       IN  IF s.recalculation THEN AbortActiveMission(canceled, FALSE)
           ELSE ReleaseUnassignedDrones(canceled)

-----------------------------------------------------------------------------
(* CALCULATE and RECALCULATE.  The solver is modelled by its contract: it  *)
(* partitions the targets into non-empty orders, uses every drone when     *)
(* there are enough targets, and may find no feasible solution.            *)

Sequencings(targets) ==
  {order \in UNION {[1..n -> targets] : n \in 0..Cardinality(targets)} :
     \A i, j \in DOMAIN order : order[i] = order[j] => i = j}

RouteSolutions(eligible, targets) ==
  {plan \in [eligible -> Sequencings(targets)] :
     /\ \A d, e \in eligible : \A i \in DOMAIN plan[d], j \in DOMAIN plan[e] :
          plan[d][i] = plan[e][j] => d = e
     /\ \A t \in targets : \E d \in eligible : \E i \in DOMAIN plan[d] : plan[d][i] = t
     /\ Cardinality(targets) >= Cardinality(eligible) =>
          \A d \in eligible : plan[d] # <<>>}

RoutableTargets(s, recalculate) ==
  s.pending \cup (IF recalculate THEN s.active ELSE {})

EligibleDrones(s) ==
  {d \in Drones : DroneHealthy(s, d) /\ (~s.busy[d] \/ d \in Owners(s.current))}

CanCalculate(s, recalculate) ==
  /\ s.phase = "IDLE"
  /\ recalculate <=> (Owners(s.current) # {})
  /\ RoutableTargets(s, recalculate) # {}
  /\ EligibleDrones(s) # {}

Token(s, ds, d) == s.nextRoute + Cardinality({e \in ds : e < d})

SameRemainingRoute(route, order) ==
  route.id # 0 /\ RemainingOrder(route) = order

PlannedRoute(s, plan, d) ==
  LET used == {e \in DOMAIN plan : plan[e] # <<>>}
  IN  IF d \notin used THEN NoRoute
      ELSE IF SameRemainingRoute(s.current[d], plan[d])
      THEN [s.current[d] EXCEPT !.accepted = FALSE]
      ELSE [id |-> Token(s, used, d), targets |-> plan[d], completed |-> 0,
            accepted |-> FALSE, finished |-> FALSE]

CalculateRoutes(s, recalculate, plan) ==
  [s EXCEPT !.planned = [d \in Drones |-> PlannedRoute(s, plan, d)],
            !.plannedRecalc = recalculate,
            !.plannedFrom = RoutableTargets(s, recalculate),
            !.nextRoute = @ + Cardinality({d \in DOMAIN plan : plan[d] # <<>>})]

-----------------------------------------------------------------------------
(* START_MISSION revalidates the plan and broadcasts it.                   *)

MistakenRevalidation(s) ==
  /\ s.phase = "IDLE"
  /\ Owners(s.planned) # {}
  /\ s.plannedRecalc <=> (Owners(s.current) # {})
  /\ BookStops(s.planned) = RoutableTargets(s, s.plannedRecalc)

CanDispatch(s) ==
  /\ s.phase = "IDLE"
  /\ Owners(s.planned) # {}
  /\ s.plannedRecalc <=> (Owners(s.current) # {})
  /\ \A d \in Owners(s.planned) :
       DroneReadyForMission(s, d) /\ (~s.busy[d] \/ d \in Owners(s.current))
  /\ BookStops(s.planned) = RoutableTargets(s, s.plannedRecalc)

MistakenRevision(s) == 1

NextRevision(s) == IF s.plannedRecalc THEN s.activeRevision + 1 ELSE 1

DispatchPlannedMission(s) ==
  LET mission == IF s.plannedRecalc THEN s.activeMission ELSE s.nextMission
      revision == NextRevision(s)
  IN  [s EXCEPT
         !.nextMission = IF s.plannedRecalc THEN @ ELSE @ + 1,
         !.activeMission = mission,
         !.activeRevision = revision,
         !.activeCommand = s.nextCommand,
         !.nextCommand = @ + 1,
         !.provisional = s.planned,
         !.planned = NoRoutes,
         !.recalculation = s.plannedRecalc,
         !.plannedRecalc = FALSE,
         !.phase = "WAITING",
         !.busy = [d \in Drones |-> @[d] \/ d \in Owners(s.planned)],
         !.out = Append(@, Broadcast("EXECUTE", s.nextCommand, mission, revision,
                                     Owners(s.planned), Orders(s.planned)))]

-----------------------------------------------------------------------------
(* HOME: one two-leg route per connected drone, in a mission of its own.   *)

HomeLegs == 2  \* the approach and the precision leg

HomeEligible(s, selection) ==
  {d \in selection : Connected(d) /\ s.enabled[d]}

StartHomeMission(s, ds, purpose) ==
  LET detached == DetachDroneRoutes(InvalidatePlannedRoutes(s), ds)
      home(d) == [id |-> Token(s, ds, d), command |-> s.nextCommand,
                  mission |-> s.nextMission]
  IN  [detached EXCEPT
         !.nextCommand = @ + 1,
         !.nextMission = @ + 1,
         !.nextRoute = @ + Cardinality(ds),
         !.aux = [d \in Drones |-> IF d \in ds THEN home(d) ELSE @[d]],
         !.busy = [d \in Drones |-> d \in ds \/ @[d]],
         !.returnHome = [d \in Drones |-> d \in ds \/ @[d]],
         !.out = Append(@, Broadcast(purpose, s.nextCommand, s.nextMission, 1, ds,
                   [d \in Drones |-> IF d \in ds
                      THEN [id |-> home(d).id, legs |-> HomeLegs] ELSE NoOrder]))]

-----------------------------------------------------------------------------
(* One callback: the budget of the model, a fresh outbox, the new memory.  *)

Begin == [co EXCEPT !.out = <<>>]

OperatorAwake == co.nextCommand <= MaxCommands

Become(s) == co' = s /\ UNCHANGED <<link, vehicle>>

AddTarget ==
  /\ co.nextTarget <= MaxTargets
  /\ LET s == Begin
     IN  Become(InvalidatePlannedRoutes(
           [s EXCEPT !.pending = @ \cup {s.nextTarget}, !.nextTarget = @ + 1]))

RemoveTarget(t) ==
  /\ co.phase = "IDLE"
  /\ t \in co.pending
  /\ LET s == Begin
     IN  Become(InvalidatePlannedRoutes(
           [s EXCEPT !.pending = @ \ {t}, !.withdrawn = @ \cup {t}]))

ClearPendingTargets ==
  /\ co.phase = "IDLE"
  /\ LET s == Begin
     IN  Become(InvalidatePlannedRoutes(
           [s EXCEPT !.pending = {}, !.withdrawn = @ \cup s.pending]))

Calculate(recalculate) ==
  /\ OperatorAwake
  /\ co.nextRoute <= MaxRoutes
  /\ CanCalculate(co, recalculate)
  /\ \E plan \in RouteSolutions(EligibleDrones(co), RoutableTargets(co, recalculate)) :
       Become(CalculateRoutes(Begin, recalculate, plan))

StartMission ==
  /\ OperatorAwake
  /\ CanDispatch(co)
  /\ Become(DispatchPlannedMission(Begin))

CancelActiveMission ==
  /\ OperatorAwake
  /\ Owners(co.current) \cup Owners(co.provisional) # {}
  /\ Become(AbortActiveMission(Begin, TRUE))

ReturnHome(selection) ==
  /\ OperatorAwake
  /\ co.phase = "IDLE"
  /\ HomeEligible(co, selection) # {}
  /\ Become(StartHomeMission(Begin, HomeEligible(co, selection), "HOME"))

SetDroneSpeed(d) ==
  /\ OperatorAwake
  /\ Become(PublishNew(InvalidatePlannedRoutes(Begin), "SET_SPEED",
                       co.activeMission, co.activeRevision, {d}))

SetDroneLidarRange(d) ==
  /\ OperatorAwake
  /\ Become(PublishNew(Begin, "SET_LIDAR_RANGE", co.activeMission,
                       co.activeRevision, {d}))

(* A LAND cancels the route it detaches under the mission and revision the *)
(* drone holds it by, one CANCEL per drone, and then broadcasts the LAND.  *)
LandCancellation(s, d) ==
  IF d \in Owners(s.aux) THEN [mission |-> s.aux[d].mission, revision |-> 1]
  ELSE IF d \in Owners(s.current) \cup Owners(s.provisional)
  THEN [mission |-> s.activeMission, revision |-> s.activeRevision]
  ELSE [mission |-> 0, revision |-> 0]

PublishCancellations(s, from, ds) ==
  LET held == {d \in ds : LandCancellation(from, d).mission # 0}
      cancel(i) ==
        LET d == Nth(held, i)
            c == LandCancellation(from, d)
        IN  Broadcast("CANCEL", s.nextCommand + i - 1, c.mission, c.revision, {d},
                      NoOrders)
  IN  [s EXCEPT !.nextCommand = @ + Cardinality(held),
                !.out = @ \o [i \in 1..Cardinality(held) |-> cancel(i)]]

Land(selection) ==
  LET ds == {d \in selection : Connected(d) /\ co.enabled[d]}
      s == Begin
      detached == InvalidatePlannedRoutes(
                    SetLanding(EraseAux(DetachDroneRoutes(s, ds), ds), ds, TRUE))
  IN  /\ OperatorAwake
      /\ co.phase = "IDLE"
      /\ ds # {}
      /\ Become(PublishFlightCommand(PublishCancellations(detached, s, ds), "LAND", ds))

(* ARM and TAKEOFF: refused as a whole while one selected drone is landing *)
(* and, for a TAKEOFF, while one of them is not armed.                     *)
FlightControl(kind, selection) ==
  LET ds == {d \in selection : DroneHealthy(co, d)}
  IN  /\ OperatorAwake
      /\ co.phase = "IDLE"
      /\ ds # {}
      /\ \A d \in ds : ~co.landing[d]
      /\ kind = "TAKEOFF" => \A d \in ds : vehicle[d] # "grounded"
      /\ Become(PublishFlightCommand(
           InvalidatePlannedRoutes(
             SetLanding(EraseAux(DetachDroneRoutes(Begin, ds), ds), ds, FALSE)),
           kind, ds))

(* FORCE DISARM needs no position, and interrupts a dispatch that awaits   *)
(* feedback.                                                               *)
ForceDisarm(selection) ==
  LET ds == {d \in selection : link[d] # "silent" /\ vehicle[d] # "grounded"}
      s == IF co.phase = "IDLE" THEN Begin ELSE AbortActiveMission(Begin, TRUE)
  IN  /\ OperatorAwake
      /\ ds # {}
      /\ Become(PublishFlightCommand(
           InvalidatePlannedRoutes(
             SetLanding(EraseAux(DetachDroneRoutes(s, ds), ds), ds, FALSE)),
           "FORCE_DISARM", ds))

DisableDrone(d) ==
  LET s == Begin
      isAux == d \in Owners(s.aux)
      held == isAux \/ d \in Owners(s.current) \cup Owners(s.provisional)
      off == EraseAux(DetachDroneRoutes(
               InvalidatePlannedRoutes([s EXCEPT !.enabled[d] = FALSE]), {d}), {d})
  IN  /\ OperatorAwake
      /\ co.phase = "IDLE"
      /\ co.enabled[d]
      /\ Become(IF ~held THEN off
                ELSE IF isAux
                THEN PublishCancelCommand(off, s.aux[d].mission, 1, {d})
                ELSE PublishCancelCommand(off, s.activeMission, s.activeRevision, {d}))

EnableDrone(d) ==
  /\ co.phase = "IDLE"
  /\ co.excluded[d] => co.batteryOk[d]
  /\ ~co.enabled[d] \/ co.excluded[d]
  /\ Become(InvalidatePlannedRoutes(
       [Begin EXCEPT !.enabled[d] = TRUE, !.excluded[d] = FALSE,
                     !.returnHome[d] = FALSE]))

-----------------------------------------------------------------------------
(* Feedback.                                                               *)

Fed(route, fb) ==
  [route EXCEPT
     !.completed = IF fb.state = "SUCCEEDED" THEN Len(route.targets) ELSE fb.completed,
     !.accepted = @ \/ fb.state \in Acceptances,
     !.finished = @ \/ fb.state = "SUCCEEDED"]

RemoveCompletedTargets(s, route) ==
  [s EXCEPT !.active = @ \ CompletedStops(route),
            !.reported = @ \cup CompletedStops(route)]

MatchesAux(s, fb) ==
  /\ s.aux[fb.drone].id # 0
  /\ fb.command = s.aux[fb.drone].command
  /\ fb.mission = s.aux[fb.drone].mission
  /\ fb.revision = 1
  /\ fb.route = s.aux[fb.drone].id

CurrentBroadcast(s, fb) ==
  /\ fb.command = s.activeCommand
  /\ fb.mission = s.activeMission
  /\ fb.revision = s.activeRevision

AuxFeedback(s, fb) ==
  IF fb.state \in Terminal
  THEN [EraseAux(s, {fb.drone}) EXCEPT !.busy[fb.drone] = FALSE]
  ELSE s

ProvisionalFeedback(s, fb) ==
  LET route == Fed(s.provisional[fb.drone], fb)
      fed == RemoveCompletedTargets([s EXCEPT !.provisional[fb.drone] = route], route)
  IN  IF fb.state \in Failures THEN FailProvisional(fed)
      ELSE IF \A d \in Owners(fed.provisional) : fed.provisional[d].accepted
      THEN CommitProvisional(fed)
      ELSE fed

MistakenMissionFeedback(s, fb) ==
  LET route == Fed(s.current[fb.drone], fb)
      fed == RemoveCompletedTargets([s EXCEPT !.current[fb.drone] = route], route)
  IN  IF fb.state \in {"REJECTED", "CANCELED"} THEN AbortActiveMission(fed, TRUE)
      ELSE IF AllFinished(fed.current) THEN FinishMission(fed)
      ELSE fed

MissionFeedback(s, fb) ==
  LET route == Fed(s.current[fb.drone], fb)
      fed == RemoveCompletedTargets([s EXCEPT !.current[fb.drone] = route], route)
  IN  IF fb.state \in Failures THEN AbortActiveMission(fed, TRUE)
      ELSE IF AllFinished(fed.current) THEN FinishMission(fed)
      ELSE fed

FeedbackResult(s, fb) ==
  IF MatchesAux(s, fb) THEN AuxFeedback(s, fb)
  ELSE IF s.phase = "WAITING" /\ CurrentBroadcast(s, fb)
  THEN IF fb.route # 0 /\ s.provisional[fb.drone].id = fb.route
       THEN ProvisionalFeedback(s, fb) ELSE s
  ELSE IF /\ fb.mission = s.activeMission
          /\ fb.revision = s.activeRevision
          /\ fb.route # 0
          /\ s.current[fb.drone].id = fb.route
  THEN MissionFeedback(s, fb)
  ELSE s

OnMissionFeedback(fb) == Become(FeedbackResult(Begin, fb))

-----------------------------------------------------------------------------
(* Battery safety: the heartbeat queues an event, the timer handles it.    *)

EventsOfOthers(s, d) ==
  Picked(s.events, {i \in DOMAIN s.events : s.events[i].drone # d})

MistakenQueue(s, event) == Append(EventsOfOthers(s, event.drone), event)

(* An emergency goes to the front, in place of what the drone had queued.  *)
Queued(s, event) ==
  IF event.battery = "EMERGENCY_LAND" THEN <<event>> \o EventsOfOthers(s, event.drone)
  ELSE Append(s.events, event)

OnDroneHeartbeat(d, battery) ==
  LET s == [Begin EXCEPT !.batteryOk[d] = (battery = "NORMAL")]
      raised == [s EXCEPT !.excluded[d] = TRUE,
                          !.returnHome[d] = (battery = "RETURN_HOME"),
                          !.lastEvent[d] = battery,
                          !.events = Queued(s, [drone |-> d, battery |-> battery])]
      raises == battery # "NORMAL" /\ co.lastEvent[d] # battery
  IN  /\ raises => OperatorAwake /\ Len(co.events) < MaxEvents
      /\ co' = IF raises THEN raised
               ELSE IF battery = "NORMAL" THEN [s EXCEPT !.lastEvent[d] = "NORMAL"]
               ELSE s
      /\ link' = [link EXCEPT ![d] = IF @ = "stale" THEN "full" ELSE @]
      /\ UNCHANGED vehicle

SafetyResponse(s, event) ==
  LET d == event.drone
      homing == HomeEligible(s, {d})
      home == StartHomeMission(s, homing, "LOW_BATTERY_RTH")
      landed == EraseAux(DetachDroneRoutes(s, {d}), {d})
  IN  IF event.battery = "EMERGENCY_LAND"
      THEN PublishFlightCommand([landed EXCEPT !.excluded[d] = TRUE], "LAND", {d})
      ELSE [(IF homing = {} THEN s ELSE home)
              EXCEPT !.excluded[d] = TRUE, !.returnHome[d] = (homing # {})]

(* The recovered targets are planned and dispatched in the same callback,  *)
(* unless no plan is found or the plan does not pass the revalidation.     *)
Recovered(s) ==
  LET recalculate == Owners(s.current) # {}
      planned == IF ~CanCalculate(s, recalculate) \/ s.nextRoute > MaxRoutes THEN {}
                 ELSE {CalculateRoutes(s, recalculate, plan) :
                         plan \in RouteSolutions(EligibleDrones(s),
                                                 RoutableTargets(s, recalculate))}
  IN  IF s.pending = {} THEN {s}
      ELSE {s} \cup {IF CanDispatch(p) THEN DispatchPlannedMission(p) ELSE p : p \in planned}

HandleSafetyEvent ==
  /\ co.phase = "IDLE"
  /\ co.events # <<>>
  /\ \E s \in Recovered(SafetyResponse([Begin EXCEPT !.events = Tail(@)],
                                       Head(co.events))) : Become(s)

DispatchTimeout ==
  /\ co.phase = "WAITING"
  /\ Become(FailProvisional(Begin))

-----------------------------------------------------------------------------
(* The environment: vehicle states arrive, drones fall silent.             *)

OnVehicleState(d, v, localized) ==
  /\ vehicle' = [vehicle EXCEPT ![d] = v]
  /\ link' = [link EXCEPT ![d] = IF ~localized THEN "unlocalized"
                                 ELSE IF @ = "full" THEN "full" ELSE "stale"]
  /\ co' = [Begin EXCEPT !.landing[d] = @ /\ v # "grounded"]

LinkLoss(d, l) ==
  /\ \/ link[d] = "full" /\ l \in {"stale", "silent"}
     \/ link[d] \in {"stale", "unlocalized"} /\ l = "silent"
  /\ link' = [link EXCEPT ![d] = l]
  /\ co' = Begin
  /\ UNCHANGED vehicle

(* The feedback a drone could send that the node does not drop at once.  A *)
(* drone that tells of the active revision has adopted its EXECUTE, so it  *)
(* tells the command id of that broadcast (SwarmMission checks that).      *)
AuxFeedbacks(d) ==
  {Feedback(co.aux[d].command, co.aux[d].mission, 1, d, co.aux[d].id, state, 0) :
     state \in FeedbackStates}

RouteFeedbacks(d, route) ==
  {Feedback(co.activeCommand, co.activeMission, co.activeRevision, d, route.id, state, n) :
     state \in FeedbackStates, n \in 0..Len(route.targets)}

AnyFeedback ==
  UNION {(IF co.aux[d].id = 0 THEN {} ELSE AuxFeedbacks(d))
           \cup UNION {RouteFeedbacks(d, route) :
                         route \in {co.provisional[d], co.current[d]} \ {NoRoute}} :
         d \in Drones}

-----------------------------------------------------------------------------
(* The memory of a node that has just started.                             *)
Started ==
  [pending |-> {}, active |-> {}, reported |-> {}, withdrawn |-> {},
    current |-> NoRoutes, provisional |-> NoRoutes, planned |-> NoRoutes,
    aux |-> [d \in Drones |-> NoAux],
    phase |-> "IDLE", recalculation |-> FALSE, plannedRecalc |-> FALSE,
    plannedFrom |-> {},
    nextTarget |-> 1, nextRoute |-> 1, nextCommand |-> 1, nextMission |-> 1,
    activeCommand |-> 0, activeMission |-> 0, activeRevision |-> 0,
    busy |-> [d \in Drones |-> FALSE],
    enabled |-> [d \in Drones |-> TRUE],
    excluded |-> [d \in Drones |-> FALSE],
    batteryOk |-> [d \in Drones |-> TRUE],
    returnHome |-> [d \in Drones |-> FALSE],
    landing |-> [d \in Drones |-> FALSE],
    lastEvent |-> [d \in Drones |-> "NORMAL"],
    events |-> <<>>, out |-> <<>>]

Init ==
  /\ co = Started
  /\ link = [d \in Drones |-> "silent"]
  /\ vehicle = [d \in Drones |-> "grounded"]

Operator ==
  \/ AddTarget
  \/ \E t \in co.pending : RemoveTarget(t)
  \/ ClearPendingTargets
  \/ \E recalculate \in BOOLEAN : Calculate(recalculate)
  \/ StartMission
  \/ CancelActiveMission
  \/ \E selection \in Selections : ReturnHome(selection)
  \/ \E selection \in Selections : Land(selection)
  \/ \E kind \in {"ARM", "TAKEOFF"}, selection \in Selections :
       FlightControl(kind, selection)
  \/ \E selection \in Selections : ForceDisarm(selection)
  \/ \E d \in Drones : SetDroneSpeed(d)
  \/ \E d \in Drones : SetDroneLidarRange(d)
  \/ \E d \in Drones : DisableDrone(d)
  \/ \E d \in Drones : EnableDrone(d)

Timer == DispatchTimeout \/ HandleSafetyEvent

Reports ==
  \/ \E d \in Drones, v \in Vehicles, localized \in BOOLEAN :
       OnVehicleState(d, v, localized)
  \/ \E d \in Drones, b \in BatteryStates : OnDroneHeartbeat(d, b)
  \/ \E d \in Drones, l \in Links : LinkLoss(d, l)

Next == Operator \/ Timer \/ Reports \/ \E fb \in AnyFeedback : OnMissionFeedback(fb)

Spec == Init /\ [][Next]_vars

(* The node's 100 ms wall timer keeps firing.                              *)
FairSpec == Spec /\ WF_vars(Timer)

-----------------------------------------------------------------------------
(* Types.                                                                  *)

Books == [Drones -> Route]

Events == [drone: Drones, battery: BatteryStates]

Memory ==
  [pending: SUBSET Nat, active: SUBSET Nat, reported: SUBSET Nat,
   withdrawn: SUBSET Nat, current: Books, provisional: Books, planned: Books,
   aux: [Drones -> Aux], phase: {"IDLE", "WAITING"}, recalculation: BOOLEAN,
   plannedRecalc: BOOLEAN, plannedFrom: SUBSET Nat, nextTarget: Nat \ {0},
   nextRoute: Nat \ {0}, nextCommand: Nat, nextMission: Nat, activeCommand: Nat,
   activeMission: Nat, activeRevision: Nat, busy: [Drones -> BOOLEAN],
   enabled: [Drones -> BOOLEAN], excluded: [Drones -> BOOLEAN],
   batteryOk: [Drones -> BOOLEAN], returnHome: [Drones -> BOOLEAN],
   landing: [Drones -> BOOLEAN], lastEvent: [Drones -> BatteryStates],
   events: Seq(Events), out: Seq(Broadcasts)]

(* The type invariant.                                                     *)
TypeOK ==
  /\ co \in Memory
  /\ link \in [Drones -> Links]
  /\ vehicle \in [Drones -> Vehicles]

-----------------------------------------------------------------------------
(* Safety.  The parts are predicates of a memory "s".                      *)

Assigned(s) == Owners(s.current) \cup Owners(s.provisional)

Awaited(s) == s.phase = "WAITING" <=> Owners(s.provisional) # {}

Submitted(s) == 1..(s.nextTarget - 1)

Accounted(s) ==
  Submitted(s) \subseteq s.pending \cup s.active \cup s.reported \cup s.withdrawn

(* The buffers and the books hold submitted targets only.                  *)
Known(s) ==
  /\ s.pending \cup s.active \subseteq Submitted(s)
  /\ \A book \in {s.current, s.provisional, s.planned} :
       BookStops(book) \subseteq Submitted(s)

(* No two routes of a book share a target that nobody reported complete.   *)
Separate(s, book) ==
  \A d, e \in Drones :
    d # e => Stops(book[d]) \cap Stops(book[e]) \subseteq s.reported

Placed(s) ==
  /\ s.pending \cap s.active = {}
  /\ s.active \subseteq BookStops(s.current)
  /\ Separate(s, s.current)

(* What a book says of its targets is known: the completed ones were       *)
(* reported, and all of them on a finished route.                          *)
Honest(s, book) ==
  \A d \in Drones :
    /\ book[d].id = 0 => Stops(book[d]) = {}
    /\ CompletedStops(book[d]) \subseteq s.reported
    /\ book[d].finished => Stops(book[d]) \subseteq s.reported

Sound(s, book) == Honest(s, book) /\ Separate(s, book)

(* The inductive invariant of the target buffers.                          *)
Consistent(s) ==
  /\ Awaited(s)
  /\ Accounted(s)
  /\ Known(s)
  /\ Placed(s)
  /\ s.phase = "WAITING" => s.active \subseteq BookStops(s.provisional)
  /\ Sound(s, s.current) /\ Sound(s, s.provisional) /\ Sound(s, s.planned)

Exclusive(s) ==
  /\ Owners(s.aux) \cap Assigned(s) = {}
  /\ \A d \in Owners(s.aux) \cup Assigned(s) : s.busy[d]

(* The node waits for feedback exactly while a route is provisional: a     *)
(* timeout with no provisional route would return early from               *)
(* failProvisional and leave the phase WAITING_FOR_FEEDBACK for ever.      *)
WaitsForSomeone == Awaited(co)

(* A target that was submitted and not withdrawn is waiting in the buffer, *)
(* or assigned, or was reported complete: no abort, timeout, HOME, LAND,   *)
(* OFF or recalculation drops one on the way between the buffers.          *)
NoTargetLost == Accounted(co)

(* An assigned target is on the route of a drone and nowhere else: not in  *)
(* the pending buffer, and not on a second route unless it was reported.   *)
TargetInOnePlace == Placed(co)

(* A drone is on a mission route or on its way home, never both, and is    *)
(* busy while it is either, so that no calculation gives it a second one.  *)
OneRouteAtATime == Exclusive(co)

(* Of two drones in an emergency and on low battery the one that must land *)
(* is served first, whichever heartbeat came first: no return-home event   *)
(* is handled while an emergency waits.                                    *)
EmergenciesFirst ==
  \A i, j \in DOMAIN co.events :
    i < j /\ co.events[j].battery = "EMERGENCY_LAND" =>
      co.events[i].battery = "EMERGENCY_LAND"

(* The buffers and the books agree; the invariant the proofs rest on.      *)
Consistency == Consistent(co)

(* A drone excluded by its battery is assigned no route it did not already *)
(* have, even when it was planned for before its battery fell.             *)
ExcludedGetNoWork ==
  [][\A d \in Drones :
       co.excluded[d] /\ d \in Assigned(co)' => d \in Assigned(co)]_vars

(* A drone loses a mission route that it has not flown to its end only     *)
(* with a command that reaches it: an EXECUTE, a CANCEL or a flight        *)
(* command that names it.  A recalculation told it when it was broadcast,  *)
(* before the commit that drops the route.                                 *)
Commits == co.phase = "WAITING" /\ Owners(co'.current) # {}

DetachedDronesAreTold ==
  [][\A d \in Owners(co.current) :
       /\ d \notin Owners(co'.current) /\ ~Commits
       /\ ~(Stops(co.current[d]) \subseteq co'.reported)
       => \E i \in DOMAIN co'.out : d \in co'.out[i].to]_vars

-----------------------------------------------------------------------------
(* Liveness, from the timer alone.                                         *)

(* A dispatch that the drones never answer is given up.                    *)
DispatchEnds == co.phase = "WAITING" ~> co.phase = "IDLE"
=============================================================================
