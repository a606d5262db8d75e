# drone-apf-navigation in TLA+

Specifications of the control software in this repository, model-checked with TLC and in
large part proved with TLAPS. Paths are those of the repository (`src/` here). The
specifications are written from the code; the documents of the repository are
used only where a run compares them with what the code does.

## 1. The system

Each vehicle runs a stack of ROS 2 nodes; one coordinator, the gimbal router, the map
server and an operator's dashboard run on a PC. Nodes share nothing but topics, services
and actions; most are spun by one thread (`main` of each file), so that a callback is
atomic in its node and the hard part is the order of messages between nodes. Two have
threads of their own that meet at mutexes: the navigation client (an input thread) and
the map server (a worker per drone, a serializer).

| Part | State it keeps | Operations | Talks to |
|---|---|---|---|
| Swarm coordinator (`drone_swarm/src/swarm_coordinator_node.cpp`) | pending and active targets, planned / provisional / current / auxiliary routes, dispatch phase, ids, per-drone flags, sessions, queued safety events | ADD/REMOVE/CLEAR target, CALCULATE, RECALCULATE, START, CANCEL, HOME, LAND, ARM, TAKEOFF, FORCE DISARM, ON/OFF, settings; registration, heartbeat, vehicle state, feedback; 100 ms timer | broadcasts `/swarm/mission_command`, hears `/swarm/mission_feedback`, `/swarm/drone_heartbeat`, each `vehicle/state` |
| Route executor (`drone_navigation/src/route_executor_node.cpp`) | one route with its version, leg counter, cancel flag, goal generation, last feedback | read a route, a cancel, a flight command; goal response, feedback, result; 50 ms timer | action `/navigate_to`, topic `flight/request`, action `/takeoff` |
| Swarm member (`drone_swarm/src/swarm_member_node.cpp`) | registration, battery latch, local fallbacks | 100 ms timer, vehicle state, mission command | service `/swarm/register_drone`, heartbeat, `/navigate_to`, `flight/request` |
| Flight supervisor (`drone_control/src/flight_supervisor_node.cpp`) | the operation under way and its goal, arm request | takeoff, land, transition, arm, disarm, force disarm; 50 ms timer | PX4 commands, supervisor intent |
| Navigation server (`drone_navigation/src/navigation_server_node.cpp`) | active goal, arrival hold, suppression of the hold | goal, cancel, flight request; timer | autonomous intent |
| Navigation client (`drone_navigation/src/navigation_client_node.cpp`) | two queues of goals, the active goal and its handle | input thread: goal, clear, cancel, takeoff; timer, answers | validation service, `/navigate_to`, `/takeoff` |
| Command mux, APF safety, PX4 gateway | last message of each source with its age; modes, LiDAR range and parameters | a 20 ms timer each; services and parameters | one another, `/fmu/in/*` |
| Map fusion and map server (`drone_swarm/src/swarm_global_map_server.cpp`, `global_map_fusion.cpp`) | evidence per voxel, sessions and generations per drone, queued changes, published trees | scan, decay, session changes, publication | point clouds, `/swarm/state`, map topics |
| Gimbal router, gimbal control, gimbal mux | held commands, home targets, the source in charge | command service, joystick, timers | gimbal topics |
| Automated mission, manual control, dashboard, Optuna, visualisation | see section 7 | | the nodes above |

`PROJECT.json` lists every component and whether it is modelled.

What is hard here, and where it is listed as a hazard: targets wander between
four books along a dozen paths; a dispatch can be rejected, partly answered or
time out; feedback comes late and for older commands; HOME, LAND, OFF and a low battery
cut into a mission at any moment; the answers of the action server
arrive for goals of routes that are gone; broadcasts arrive repeated and out of order;
the coordinator dies while a battery fails; a silent node is noticed by three timeouts in a row;
scans are under way while their drone reconnects or restarts; goals pass two queues while an
operator clears them.

What makes the parts correct: no target is lost or placed twice; a drone has
one route at a time; the coordinator never waits for nobody and every dispatch
ends; a drone excluded by its battery gets no work; a drone that loses its
route is told under a version it will accept; the vehicle is never under a
goal of a route that is gone; and, together, once its messages are read a
drone holds exactly what the coordinator's books say of it. On the drone, every client of
an action server gets exactly one result that its goal's state allows; a landing is left to
PX4 and is not undone; a chain of goals ends in a hold; a goal that is flown is flown in
its vehicle mode; a failing battery ends in a way home or a landing; no velocity outlives
its source. A published map is the fused map, a gimbal that was stopped stays.

## 2. The modules

| Module | What it is |
|---|---|
| `SwarmTypes` | drones, broadcasts and feedback: the vocabulary of the two topics |
| `SwarmCoordinator` | the coordinator with an environment that may report anything |
| `RouteExecutor` | the route executors with an arbitrary supply of commands and an arbitrary action server |
| `SwarmMission` | both together, joined by inboxes for commands and feedback |
| `SwarmMember` | the member node of a drone with any vehicle states, broadcasts and answers |
| `SwarmRecovery` | the member composed with the sessions and safety events of the coordinator and with the version check of the executor; deaths, restarts and retained messages |
| `ActionServer` | the abstract promise of an action server to its clients: one goal at a time, ended once, in an allowed way |
| `FlightSupervisor` | the flight supervisor with any requests, clients and vehicle states; implements `ActionServer` |
| `NavigationServer` | the navigation server with any clients, flight terminations and vehicle states; implements `ActionServer` |
| `NavigationClient` | the terminal over `NavigationServer`, with a client of another process |
| `DroneControl` | navigation server and flight supervisor of one drone on `/flight/request`, over the vehicle |
| `MotionTypes`, `CommandMux`, `ApfSafety`, `Px4Gateway` | motion commands with their ages, and the three nodes that hand them on |
| `MotionChain` | the three in a row, each with its timer, each of which may die |
| `MapFusion` | the evidence of voxels: what a hit, a miss and the passing of time make of it (operators only) |
| `MapServer` | the threads of the map server around `MapFusion` |
| `SwarmGimbal` | the gimbal router for all drones, with joystick control and mux of one |
| `MC*` | small instances, and next-state relations that keep whole actions and drop the ones a scenario is not about |
| `SwarmCoordinator_proofs`, `SwarmMission_proofs` (over the former), `DroneNodes_proofs` (route executor and member), `FlightSupervisor_proofs`, `NavigationServer_proofs` (server and terminal), `MapServer_proofs`, `MotionChain_proofs`, `SwarmGimbal_proofs` | the theorems |

**SwarmCoordinator.** The node's members are the fields of the record `co`; a
`std::map` from drone ids to routes is a function from drones, with `NoRoute` (id 0) for a missing
key. A helper of the node (`detachDroneRouteLocked`, `failProvisional`, ...) is an operator
from one memory to the next with the helper's name, and a
callback composes the helpers in the order of the source; its guard collects the early
returns. What a callback publishes is `co.out`. `Fed` is `updateRouteFromFeedbackLocked`,
`Recovered` the recalculation at the end of `handleSafetyEvent`.

Abstractions. Times are not modelled: a timeout may fire whenever the code
could see it (`DispatchTimeout`, `LinkLoss`). A drone's freshness flags are four
levels (`Links`) that the guards distinguish. `vehicle` is what the last vehicle state
said; a drone in the air that is disarmed counts as "armed", because the only guards that
look are `armed || !landed` and "armed, airborne and Offboard". Positions, costs and
speeds are left out: the solver appears by its contract (a partition of the targets into
orders, using every drone if there are enough targets, or no solution). A HOME route is
two legs whose target ids are in no buffer and are not tracked. A service call that
returns an error before it changes anything is a disabled action. `withdrawn` and
`reported` are history: the targets an operator removed, and those a drone reported
complete.

**RouteExecutor.** `ex[d]` is the memory, `goals[d]` the goals whose end the node
has not heard (each with the generation its callbacks captured), `said[d]` and `asked[d]`
what the last callback published. `completed_target_count_` and
`active_target_index_` always change together and are one field. The RECEIVED feedback is
left out: the coordinator does nothing with it. A goal may be accepted, rejected, aborted
or succeed at any moment. A restart forgets the memory and the handles on goals.

**SwarmMission.** `missionInbox` and `flightInbox` are the two
subscriptions an executor has on the command topic, `reports` the feedback
under way. The topics are reliable: messages are delayed, not lost. A command a reader
would drop unread is not put in its inbox. `ReadersInOrder` says whether
the two readers of a drone agree on the order of commands (section 4).

**SwarmMember and SwarmRecovery.** `me[d]` is the member's memory, `heard[d]` the last vehicle
state; battery percentages and warnings are the levels that the thresholds cut out. In
`SwarmRecovery`, `rec[d]` is the coordinator's record of a drone (session, lease, safety event,
auxiliary route), `ids` its counters, which start from 1 when it is started again; `ex[d]` is the
version the executor holds. `retained[d]` is what the transient-local topic replays to a member that
starts; a call under way to a coordinator that dies is lost. `answered` is history: something has been done about
the battery since it latched. The missions of `SwarmCoordinator` are left out here: a drone has its way home only.

**FlightSupervisor.** `fs` is the node's memory, `report` the last vehicle state, `goals`
the goal handles of the three action servers as their clients see them, `ended` the results
and `sent` the commands and intents of the last callback. A `shared_ptr` to a goal handle
is the set of what it points to. Altitudes are kept as whether the takeoff goal is
reached, times as whether `vehicle_command_period_s` is over (`due`). A refused goal is a
disabled action. `finishOperation` publishes before it resets; both are one callback.
`ActionServer` is instantiated with the union of the three servers: the node's `operation_`
makes them one.

**NavigationServer and NavigationClient.** `nav` is the server's memory: the active goal, whether it wants fixed wing,
the two hold flags, `hold_transition_requested_` (`asked`), `suppress_cancel_hold_`, the
override and the request period. Positions are kept as whether the goal is reached. The
geofence decides only which goals are accepted, and its second check in the timer cannot
fail: its origin is set once before the first goal and its limits are not runtime
parameters. The client's deques are sequences of the numbers that the operator sees; a step is what the input thread or
the executor thread does under `data_mutex_`, so that the two halves of its timer are two steps.
`settled` is history: the goals that were rejected, cleared or flown to an end. The rival
is any other client of the server.

**DroneControl.** The supervisor is extended, the navigation server instantiated; `requests` is the `/flight/request` topic at the
supervisor, `landUnread` a LAND that the navigation server has not read yet. PX4 is external:
it obeys what it can (a transition takes a while, a landing ends on the ground, disarmed;
once it is down it ignores a transition to fixed wing). The supervisor's own clients are left out
there (`Goals <- {}`), as are arming and takeoff: they have `FlightSupervisor`.

**MotionChain.** A command carries its source and how old the intent is that it comes from. Time
goes by in periods of 20 ms; within a period every living node has its timer once, in any order, and a
freshness check compares a number of periods with `Timeout`. The force field is one bit: the velocity takes a
visible obstacle into account (`filtered`) or not. Of a profile's parameters the radius and the fixed-wing
trigger are kept, in metres.

**MapFusion and MapServer.** A fusion is a record with the evidence of each voxel, the deadlines of hits, and the
counter of occupied voxels that the code keeps beside them. A thread's critical section is an
action; a worker's insertion into its own tree, which takes no lock, is one too. A scan is the
sets of free and of occupied voxels its rays yield. Deadlines are a bag, for each hit adds one to the queue
(`global_map_fusion.cpp:162`) and two hits of one voxel may have one stamp. Both deadlines then find the voxel expired, but the
first one erases it, unless it is confirmed (line 235): a confirmed voxel whose odds are at or below the threshold is counted out
by each of them (`Lapses`, `CountedOut`). `LapsesOnce` says of a fusion that no such voxel has two deadlines of its last
hit. It is false of some reachable states, which is the first of the further behaviours in section 5; what the run
and the theorems say of the published map is said under it or where it is shown to hold.

**SwarmGimbal.** One axis; angles are a few jog steps. The mux is that of one drone, which hears a
message of the router or loses it.

An operator called `Mistaken...` is a wrong version of the definition that follows it.
No specification uses it; it documents the slip its property was seen to catch.

## 3. The runs

Run a configuration with `tlc -config X.cfg M`.

| Run (`cfg`, module) | Question | Distinct states |
|---|---|---|
| `Coordinator`, `MCSwarmCoordinator` | two drones: is a target ever lost or placed twice, does the node wait for nobody or a dispatch never end, has a drone two routes, an excluded one work, is one dropped silently, does an emergency wait? | 282 000 |
| `Mission`, `MCSwarmMission` | coordinator and executors with delayed messages: do the books and the drones agree? | 1 611 000 |
| `ExecutorCommands`, `MCRouteExecutor` | eight commands of two missions, repeated and in any order, with late answers, timeouts and restarts | 5 600 |
| `SupervisorOperations`, `MCFlightSupervisor` | every request, goal, cancellation and vehicle state, two clients: one result per goal, landings left to PX4, answers to cancellations and transitions | 19 400 |
| `DroneTransitions`, `MCDroneControl` | navigation server, supervisor and vehicle: is a LAND carried out and never undone, and does a flown goal get its vehicle mode although requests are dropped? | 108 500 |
| `Navigation`, `MCNavigationClient` | terminal and navigation server with a rival client: one intent at a time, a hold at the end of a chain, the goals in the order typed, none forgotten in a queue? | 116 000 |
| `Recovery`, `MCSwarmRecovery` | a coordinator that dies, broken links, restarts: is a failing battery acted upon, and does a restarted member get back in? | 243 000 |
| `Motion`, `MCMotionChain` | three pilots, obstacles, deaths, modes: how old can a flown velocity be, whose is it, does it avoid what is seen, with the parameters that were set? | 1 060 000 |
| `Maps`, `MCMapServer` | workers, sessions, expiry, serializer: is what is published the fused map, and is a local map of its own session? | 432 000 |
| `Gimbal`, `MCSwarmGimbal` | two drones and a joystick: does STOP ALL stop all, and does the joystick get the gimbal back? | 534 000 |

The two further runs, `BatterySafetyIsLocal` and `TriggerBeyondRadius`, are those of section 5.

**Scenarios.** An `MC` module with a `scenario` plays one of several scenarios, chosen in the
initial state; each keeps whole actions of the specification and leaves out the ones it is not about.
`MCSwarmCoordinator`: *routing* (two targets, three commands, all operations on targets and missions,
any feedback), *safety* (HOME, LAND, FORCE DISARM, any battery of both drones, with two events
waiting) and *services* (ARM, TAKEOFF, settings, ON/OFF and any link of one drone). `MCSwarmMission`:
*routing* (two drones, recalculation, HOME) and *flight* (every command and battery for one drone while the other only
listens). `MCNavigationClient`: *queue* (three goals through both queues), *preempted* (two goals against
the rival) and *contention* (one goal against the rival, the pilots and the vehicle). `MCMotionChain`: *pilots*,
*obstacles*, *modes*. `MCMapServer`: *sessions* (a drone that comes and goes with its scans under way)
and *fusion* (two drones whose scans are fused one by one but out of the order of their stamps, with
a timeout or without one, only one of them with misses, as long as `LapsesOnce` holds of the fused map; beside the voxel that the scans see there is `Landmark`, which
an early scan may have hit, so that the counter counts more than one voxel). `MCSwarmGimbal`: *router* (two
drones) and *handover* (one drone with its mux and joystick).

**Properties.** Each is stated in words at its definition, and each was seen to fail for a mistaken
version of the code (`PROJECT.json`, "mutants"). Invariants of the coordinator: `WaitsForSomeone`,
`NoTargetLost`, `TargetInOnePlace`, `OneRouteAtATime`, `EmergenciesFirst`; its action properties:
`ExcludedGetNoWork`, `DetachedDronesAreTold`; its liveness: `DispatchEnds`. Of the executor:
`NoOrphanGoal`, `WaitsForRealGoals`, `CanceledNeverSucceeds`, `CancelEnds`. Of both: `NoForgottenRoute`,
`HomeAgreed`, `RouteAgreed`, and `AcknowledgesItsBroadcast`, which justifies the feedback that
`SwarmCoordinator` assumes of the drones (`RouteFeedbacks` carries the command id of the active
broadcast). Of member and coordinator: `CriticalIsAnswered` and `MembersRejoin`. Of the supervisor:
`GoalsAreHeld`, the action properties `LandingIsPX4s` and `NoRearmAfterLanding`, the liveness
properties `CancelsEnd` and `TransitionIsCommanded`; of the navigation server: `OneAutonomousIntent` and
`ChainEndsInHold`; of both, `ServesOneGoalAtATime`, the specification of `ActionServer` as a property.
Of the terminal: `GoalsInOrder` and `EveryGoalSettles`. Of the drone: `LandingStaysMulticopter`,
`LandIsCarriedOut` and `GoalGetsItsMode`. Of the motion chain: `SilenceStops`, `SupervisorPrevails`,
`ObstaclesAreAvoided`, `ModeIsApplied`. Of the maps: `LocalMapsAreTheirDrones`, `PublishedFollowsGlobal`. Of
the gimbals: `StopAllStops`, `JoystickRegains`.

**Bounds.** `MaxTargets` targets are submitted in all; operators and batteries act
until `MaxCommands` command ids are used; `MaxRoutes` route tokens are used before an
operator's last calculation; `MaxEvents` safety events are queued at a time; `MaxReports`
limits EXECUTING feedback under way (other feedback is never held back); `MaxGenerations`
limits the routes an executor stores. The commands of a handler that has started are never
cut off by a bound. Two targets are the smallest number with a partly flown route, two
drones the smallest with a partial acknowledgement, two commands give a mission and
its recalculation or the HOME, LAND or OFF that cuts into it, three commands a
further one after that. Two goal handles are the goal that runs and the one that
preempts it or is refused beside it; handles are used again after their end, so that
chains of goals have no bound. `MaxRequests` limits the flight requests under way when
the navigation server ticks or the pilot lands; two are a stale request and the one that
matters. `MaxGoals` goals are typed in: three are one that flies, one that is validated and one that waits.
`MaxRestarts` counts the starts of a member or of the coordinator after the first; one gives an old session and a new one.
In `Motion` a timeout is one period: a command is used while it is as old as the timeout and not afterwards, and a death of a
node falls before, at and after it; ages stop at `MaxAge`, beyond what `SilenceStops` allows. `Distances` holds the limits of
the checks and a range of either side. In `Maps` the threshold is one hit, so that a hit after a miss confirms a voxel at or below it, one hit after
another above it, and a confirmed voxel expires by its deadline or is cleared by misses; the second voxel is there because a wrong counter
shows only if it is 0 while a voxel is occupied; `MaxTime` gives a scan before, at
and after a deadline; `MaxGeneration` sessions and resets are a session, its end and its successor with the marker of a reset
between them. In `Gimbal` `Limit` is one jog step, so that an axis has both its ends and its middle. The proofs hold for all bounds.

**Deadlock** is checked except where an instance comes to rest because its bounds are used up:
`Coordinator`, `Mission`, `Recovery`, `BatterySafetyIsLocal`, `Motion`, `TriggerBeyondRadius` and `Maps`.

**VIEW.** `Mission` uses the view `Unpublished`, which leaves out what the last
callback published: it is in the inboxes already, and no action or property reads it.

## 4. Fairness and environment assumptions

* The coordinator is fair in its timer (`FairSpec`; in `Coordinator`, of the timer's timeout): the node
  has a 100 ms wall timer, and a dispatch has a deadline that passes. Nothing is
  assumed of drones or operators. Under it every dispatch ends.
* `FairSpec` of the executor assumes weak fairness of its 50 ms timer and of the action
  server's answers: each goal is accepted or rejected, and an accepted
  goal whose cancellation was requested gets a result (`NavigationServerNode::onTimer` ends a canceling
  goal at its next tick). A goal nobody cancels may fly for ever. The executor itself
  has no timeout for an answer that never comes (a listed hazard).
* `FairSpec` of the supervisor and of the navigation server assume weak fairness of the
  50 ms wall timers and of the passing of the command period or the grace time. Clients,
  the pilot and the vehicle owe nothing; `CancelsEnd` and `TransitionIsCommanded` ask for
  nothing before a first vehicle state has arrived. A pending request to arm takes every command period as
  long as PX4 refuses it, and `TransitionIsCommanded` promises nothing meanwhile.
* `NavigationClient` assumes that both nodes spin and serve what has arrived and that the supervisor ends
  every takeoff. The operator and the rival owe nothing; `EveryGoalSettles` supposes that the server
  is free again and again, for nothing ends the flight of a goal that is never reached.
* `DroneControl` adds that both nodes read their topics, that states are heard, and
  that PX4 carries out what it obeyed.
* `SwarmRecovery` assumes that the nodes of the drone spin and read what they are sent, that an
  abandoned lease runs out, that routes end, and that the vehicle comes to say what its battery is. Nothing makes the
  coordinator start again, its link come back, a heartbeat arrive or an operator act.
* `SwarmGimbal` assumes the mux's timer and the passing of its two timeouts. A pilot who keeps moving
  the joystick is a premise of `JoystickRegains`, not an assumption of the specification.
* `Mission` assumes `ReadersInOrder`: the two subscriptions of an executor hand over
  commands in the order they were published. DDS orders each reader, not two readers of
  one node. Without the assumption `NoForgottenRoute`, `HomeAgreed` and `RouteAgreed` are
  violated: an EXECUTE read after a later LAND starts the route again. No document
  of the repository promises the order, so this is a hazard and not a finding.
* `MotionChain` has no fairness: its four properties are about what is flown when timers run at
  their periods. A message arrives within the period of its sender; what a network loses on the drone
  itself is not considered. The death of the gateway ends the chain: PX4's own failsafe follows.

## 5. Where the documents and the code disagree

Two runs check what the repository says and find it violated.

* `BatterySafetyIsLocal`, `docs/architecture.md:242`: battery safety is decided locally and remains active
  if the coordinator disappears. A drone has flown home by HOME, command 1 of mission 1, and the
  coordinator is started again and counts from 1 again. When the battery fails, its
  return-home broadcast is command 1 of mission 1 too. The member, which asks for the purpose of the route only
  (`swarm_member_node.cpp:186`), takes it for its acknowledgement and gives up its fallback. The executor takes it for a
  repetition of the command it has flown (`route_executor_node.cpp:250`) and answers with its last feedback, the end of that
  route (278-279), upon which the coordinator forgets the way home. Nobody flies the drone
  home, and the coordinator raises no second event for the same battery. An executor that holds a higher mission drops the
  broadcast as stale instead (251-252), without any answer and with the same outcome.
  Without a restart of a node the promise holds: `CriticalIsAnswered`.
* `TriggerBeyondRadius`, `TriggerWithinRadius`: `onParametersSet` refuses a fixed-wing trigger
  beyond the radius of influence (`apf_safety_node.cpp:176`). `onLidarRange` writes the trigger into the profile of the active mode
  and the range into one variable for all modes; `setMode` then combines the trigger of one mode with the range
  that was set under another (`applyActiveParameters`, line 322), and the trigger may lie beyond the radius.

Other behaviours that a reader of the documents would not expect are visible in the models and have no run of their own:

* with `dynamic_obstacle_timeout_sec` above 0 (the default is 0), `decay` can lower `occupied_count_` twice for one voxel. A voxel
  is erased at its first deadline unless it is confirmed; a voxel that was confirmed while its odds are at or below the threshold stays, and a
  second deadline of the same stamp finds it expired again (`global_map_fusion.cpp:228`-`235`). The counter then
  says that the map is empty while another voxel is occupied, and the serializer clears the published tree. `integrateScan` says that it keeps the counter
  "consistent" (lines 189-191). To see it, take the conjunct `LapsesOnce(global_fusion')` out of `Fusion` in
  `MCMapServer` and run `Maps`: TLC finds `PublishedFollowsGlobal` violated, by a hit of stamp 1, a later miss that
  erases the voxel, a delayed scan of stamp 1 that revives it, so that the queue holds two deadlines of stamp 1, and the
  next decay. With a threshold of 2 and two hits to confirm, two drones' hits of one stamp do it. With the
  default odds it takes several scans of equal stamps whose misses outweigh the hits;
* HOME takes a new mission id. A drone that was home holds a newer version than the mission that
  goes on, and drops the next recalculation of that mission as stale, without feedback; the dispatch times out and the mission
  is aborted (`route_executor_node.cpp:251`; `docs/architecture.md:208`);
* a recalculation that keeps a partly flown route copies it with its completed targets; START then
  finds ids that are in no buffer and refuses the plan as changed (`swarm_coordinator_node.cpp:1337`; `docs/architecture.md:206`);
* the arrival hold asks for multicopter mode once. The supervisor drops the request while an operation runs, for instance
  when its timer has not yet seen the end of the transition to fixed wing; nobody asks again and the vehicle holds
  in fixed wing (`navigation_server_node.cpp:425`, `flight_supervisor_node.cpp:335`; `docs/architecture.md:152`). A goal that is
  *flown* does repeat its request, which is why `GoalGetsItsMode` holds;
* a target completed before the last drone acknowledged is not taken out of the pending
  buffer by the commit and is routed again (`commitProvisional`; `docs/architecture.md:209`);
* a drone that a recalculation leaves out keeps its busy flag until the mission ends
  (`commitProvisional`; `docs/architecture.md:280`);
* a drone sends its first goal as soon as it has accepted, without waiting for the
  others (`onMissionCommand`; `README.md:571`);
* LAND releases the altitude hold, and a goal that is canceled afterwards does not start it
  again, but one that is *reached* afterwards does (`scheduleArrivalHold`;
  `navigation_server_node.cpp:361`). The landing itself is not disturbed
  (`LandIsCarriedOut`, `LandingStaysMulticopter`);
* a member whose registration request is lost with a dying coordinator waits for its answer for ever
  (`swarm_member_node.cpp:316`), which is why `MembersRejoin` is about a coordinator that was not started again;
* the gimbal mux says that the joystick gets control when the swarm falls silent
  (`gimbal_command_mux_node.cpp:146`); the swarm's last target is then held until the joystick's own target changes.

## 6. What is proved

`SwarmCoordinator_proofs`, for any finite number of drones and any bounds:

* `Invariance`: `Spec => []InductiveInvariant`;
* `TypeCorrectness`, `WaitingIsForSomeone`, `TargetsAreKept`, `TargetsArePlacedOnce`,
  `RoutesAreExclusive`, `BooksAgree`: the invariants `TypeOK`, `WaitsForSomeone`,
  `NoTargetLost`, `TargetInOnePlace`, `OneRouteAtATime` and `Consistency` of the
  specification.

Assumptions: `DronesAssumption` of `SwarmTypes` and `BoundsAssumption`. The inductive invariant is
`Good(co)` and the types of `link` and `vehicle`; `Good` is `Memory` (types), `Consistent` and `Exclusive`.
`NoTargetLost` and `TargetInOnePlace` are not inductive as they
stand. A commit moves the targets of the provisional book, so that book must be known
to hold submitted targets only (`Known`) and to share none between two drones
(`Separate`); a mission that finishes empties the active set, which loses nothing
only because a finished route's targets were all reported (`Honest`) and every active
target is on a current route (`Placed`); a commit replaces the current book, which
is right only because every active target is on the provisional one too; and an
abort must end the phase together with the provisional book (`Awaited`). The same is asked of the
planned book, which becomes the provisional one.

The argument: one lemma per helper of the node says what it does to `Memory`,
`Consistent` and `Exclusive`; one lemma per action composes them in the order of the
callback; `Invariance` splits `Next` into the actions.

* `NumberedInvariance`: `Spec => []NumberedInvariant`;
* `EmergenciesAreFirst`, `ExcludedAreLeftAlone`, `DetachedAreTold`: the invariant `EmergenciesFirst` and the action
  properties `ExcludedGetNoWork` and `DetachedDronesAreTold`.

A callback of the node is a chain of calls, and what a property says of a step must be said of
everything between its first and its last call. The second half of the module therefore describes each callback as a
`Chain` of blocks of seven kinds (`Unmoved`, `Calculated`, `Dispatched`, `Aborted`, `Failed`, `Freed`, `SentHome`): each block says what changes in the books, which ids it draws and what it publishes.
`CallbackChain` shows that every operator command, timer and report is such a chain (or switches a drone on),
`FeedbackEffect` that feedback is one of three kinds of news. What is then proved of one block is proved of
every callback: that ids are drawn in order (`BlockCounted`), that an excluded drone gets no work
(`ChainNoNewWork`), that a drone whose route is taken is told (`ChainTells`). `Counted` is needed for the
last: a stale feedback or an abort must not be able to take for its own a route of another version, which shared ids would allow.
`EmergenciesFirst` needs that picking from a queue keeps its order (`PickedProperties`).

`SwarmMission_proofs`, for any finite number of drones and any bounds (`MissionAssumption` in addition):

* `MissionInvariance`: `ReadersInOrder => (MissionSpec => []MissionInvariant)`;
* `AcknowledgementsCount`: the invariant `AcknowledgesItsBroadcast` of `SwarmMission`, under the same hypothesis.

This module extends the former and is about the coordinator with its drones; the invariants of the books are taken over,
since each of its steps is one of the coordinator's `Next` or leaves the books alone. A *stamp* is the command id and version of a
broadcast, of an executor's memory or of a feedback. `Past` says of a stamp that it is not ahead of the
coordinator: its ids were drawn, its revision is not above the one in force, and if its version is the one in force its
command id is not below that of the dispatch. Every block of a callback keeps what is past and publishes in order (`Dates`), so
the inboxes hold past stamps in growing order, each above the drone's last command (`InOrder`), and what a
drone takes over or tells is a past stamp again. `ReadersInOrder` is needed for exactly this: without it a drone
can read an EXECUTE after a later flight command (a hazard listed in `PROJECT.json`).

* `AgreementInvariance`: `ReadersInOrder => (MissionSpec => []AgreementInvariant)`;
* `NoRouteIsForgotten`, `HomesAgree`, `RoutesAgree`: the invariants `NoForgottenRoute`, `HomeAgreed` and
  `RouteAgreed` of `SwarmMission`, under the same hypothesis.

Its second part is about what the three invariants say of a drone whose messages have all been read. To be inductive, the claim
must hold of every drone with whatever is under way: `Agreed(s, d, e, under, told)` relates the books `s`, the
drone's memory `e`, the commands on their way to it and the feedback on its way from it. Its parts:

| part | says |
|---|---|
| `Dated`, `Truthful` | all stamps are past; the end of a route is the last a drone tells of its command |
| `NoStray` | what a drone flies, or will fly once it has read a command under way, is on the books, or a later command under way ends it |
| `Loyal` | a drone with a route of the mission flies it from its EXECUTE on or tells its end, and nothing later is under way but the ways home of other drones |
| `HomeBound` | a drone on its way home has the command before it, flies it, or tells its end |
| `Steady` | a route that a recalculation may keep has not been canceled at the drone, and no command under way will have canceled it before the drone is told of the revision |
| `Over`, `Complete` | a route the books hold as finished is behind the drone, and its targets were reported |
| `Sensible` | a route under way can be flown, and a way home has a mission id of its own, above all the drone has heard of |

`Loyal` needs `Over`: feedback that comes late must not be taken for that of a route the drone flies again.
`Steady` is needed because an executor that is told a route it already has keeps its cancel flag
(`onMissionCommand`): a recalculation would then commit a drone to a route that it is about to give up.
To one drone each callback does one of four things (`Touches`): it leaves it alone (`Spared`), takes its route and
tells it (`Stopped`), sends it home (`SentOff`) or gives it a route of the next revision (`Tasked`). `BlockTouches` shows
that of every block, and one lemma per part carries it over each of the four (`SensibleStep` to
`SteadyStep`); `FeedbackAgrees` does the same for each kind of news, `ReadAgrees` for a command read by the drone and
`FlyAgrees` for its own steps.

`DroneNodes_proofs`, for any number of drones and any set of broadcasts: `TypeOK`,
`NoOrphanGoal`, `WaitsForRealGoals` and the action property `CanceledNeverSucceeds`. The inductive invariant
says of each drone that at most one of its goals is of the current generation (`OneCurrent`),
that the memory knows that goal's leg and stage (`CurrentIsKnown`, `KnownExists`), and
that every other goal that runs has been asked to cancel. A new route raises the generation and so
makes all goals old at once: this is right only because the one that ran is canceled in the same
callback and the one that was offered will be when it is accepted (`CancelHeldFits`,
`NewGenerationFits`, `AcceptedKeeps`). For the action property it adds that an active
route's last feedback was no success (`Honest`).

The same module, for any number of drones, any vehicle states, broadcasts and answers: `MemberTypes` and
`MemberActs`, the invariants `TypeOK` and `LatchIsActedUpon`. The second says what the node has
done about a latched battery, and is inductive with the first: each lemma takes one callback.

`FlightSupervisor_proofs` and `NavigationServer_proofs`, for any set of goals: `TypeOK`,
`GoalsAreHeld` and `OneAutonomousIntent` (`SupervisorTypes`, `SupervisorHoldsGoals`,
`NavigationTypes`, `NavigationHasOneIntent`), and that each node implements `ActionServer`
(`SupervisorServesOneGoal`, `NavigationServesOneGoal`). The inductive invariant is the
type and the claim about the handles: a callback ends the handles it holds, so only if
these are the live goals is every goal ended, and once. Every callback either leaves the
goals alone, ends all live ones in an allowed way, accepts one or cancels one
(`KeepsOrEndsAll`, `Quiet`), and these are the four kinds of steps of `ActionServer`.

`FlightSupervisor_proofs` also proves the action properties `LandingIsPX4s` and `NoRearmAfterLanding`
(`LandingBelongsToPX4`, `LandedStaysDisarmed`) by one lemma about every step taken in LAND.

It proves of `DroneControl`, for any goals and any `MaxRequests`: `LandingKeepsItsMode`, the invariant
`LandingStaysMulticopter`. It is inductive together with: until the vehicle is down, the
supervisor that asked for the landing is still in LAND (it leaves it on a report of the ground, and
such a report is true for ever), and in LAND it sends nothing but NAV_LAND.

`NavigationServer_proofs` also proves `GoalsInOrder`, for any number of goals of the terminal
(`GoalsAreFlownInOrder`). The invariant says that a goal that was typed in has a stage (pending,
validated, approved, active) until it is settled (`Accounted`), that a goal of a later stage is an
earlier goal (`QueueOrder`), and that what the server flies for the terminal is the active goal and
has not had a result (`Served`). The server's steps are used as steps of
`ActionServer` (`ServesOthers`), so that the lemmas about the server are not repeated.

`MotionChain_proofs`, for every timeout of at least one period: type correctness and the four
properties of the run `motion`. `Ages` bounds the age of the velocity at each node by what the nodes
before it may have held back (`Lag`: a period if the node runs, a timeout if it died). `Leading` and
`Avoiding` follow the supervisor's intent and an obstacle from node to node: how far it has come
depends on the count of timers since and on which timers are still due in this period
(`ReachedGateway`, `ReachedSetpoint`, `SeenInSetpoint`). The supervisor's part needs the timeout
to be at least one period: otherwise the gateway of a fixed wing would go on with an older pilot's command. The code
keeps every timeout above 0.1 s, five periods.

`SwarmGimbal_proofs`, for any number of drones and any width of the axis: `StopAllStops`. After a STOP
for all the router holds no command, of drones that are away neither, and sends no gimbal home
(`NothingIsAsked`), so its timer can only let go. The types of the channels are part of the invariant.

`MapServer_proofs`, for any finite set of voxels, any drones, odds, threshold, confirmation times and scans:

| theorem | states | under |
|---|---|---|
| `LocalMapsAreOneSession` | `LocalMapsAreTheirDrones` | |
| `EveryHitIsWatched` | a hit that makes a voxel occupied has a deadline among the `expirations` | |
| `PublishedMapsFollow` | `PublishedFollowsGlobal` | `LapsesOnce` of the fused map in every state |
| `FusedMapIsCounted` | the counter is the number of occupied voxels | the same |
| `PublishedMapsFollowUntimed` | `PublishedFollowsGlobal` | no dynamic timeout, the default |
| `PublishedMapsFollowIfHitsOccupy` | `PublishedFollowsGlobal` | `HitsOccupy`: one hit lifts any voxel above the threshold |

The hypothesis of the second pair is what section 5 shows to be needed; the last two theorems show it to follow from the configuration alone.
The default odds with a timeout are under neither: there the hypothesis is one about the scans.

`IInv` needs no hypothesis: a fusion is well typed and its hits are watched (`SoundFusion`), so that time alone never
frees a voxel without a transition (`DecayIs`), and the local maps agree with what is in hand. `CountsOccupied` is kept apart, since
only the serializer looks at the counter (it clears its tree when it is 0). `IntegrateIs` and `DecayIs`
say that the transitions of an operation take the old occupancy to the new one, whatever the deadlines, and that the counter goes along
if every voxel lapses once; `MergedIs` that queued
transitions may be merged. A local map needs that the generation of the worker's tree is never ahead of the resets,
and that a scan in hand with the current reset was inserted into the current tree (`LocalMap`).

Only model-checked: the liveness properties, those of `SwarmRecovery` among them, which are beyond the prover. Every
invariant and every other action property that a run checks is proved, `PublishedFollowsGlobal` and the
properties of `Mission` under the hypotheses named above.

## 7. What is not modelled

* The solvers beyond their contract, the force field, the path planner, the LiDAR processing and the map's
  rays: floating-point geometry. Which of the admissible results they compute is not a
  question for a model checker.
* Geofence, speeds and the other runtime parameters of the navigation server and of the safety node:
  they decide numbers, not control.
* PX4 beyond what `DroneControl` and `Px4Gateway` say of it; positions, speeds and absolute times.
* Discovery of topics by name and the reports of `publishState`: they change what is shown.
* The automated mission and manual control: further clients of the actions and topics that
  `FlightSupervisor`, `NavigationServer` and `MotionChain` serve for any client.
* Dashboard, operator terminal, visualisation and Optuna: I/O around the coordinator's services, which are modelled
  where they are served, and offline tuning.
* The history that the transient-local topic replays to an executor that restarts (a hazard); the replay to
  the member is in `SwarmRecovery`.

`PROJECT.json` gives the reason for each component, and for every hazard no property covers.

## 8. What could come next

`RouteExecutor` over `NavigationServer` instead of an arbitrary action server, with
restarts of either; an abstract buffer of targets that `SwarmCoordinator` refines.
