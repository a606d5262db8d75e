---------------------------- MODULE SwarmRecovery ----------------------------
(***************************************************************************)
(* Members that restart, a coordinator that dies, and the ways home: the   *)
(* swarm_member node with what the coordinator and the route executor keep *)
(* about the same drone.                                                   *)
(*                                                                         *)
(* Of the coordinator this is the session of each drone, its safety event  *)
(* and its auxiliary route ("rec"), with the counters that give out        *)
(* versions; of the executor the version it holds and whether it flies     *)
(* home ("ex").  Their other work is in SwarmCoordinator and RouteExecutor.*)
(* A heartbeat that arrives tells what its node last decided.  A call or a *)
(* report under way to a coordinator that dies is lost.                    *)
(* An operator called Mistaken... is a wrong version of the definition     *)
(* after it, to see the properties fail; no specification uses it.         *)
(***************************************************************************)
EXTENDS SwarmTypes, FiniteSetsExt

CONSTANTS
  MaxCommands,  \* bound: command ids after which operators and batteries rest
  MaxRestarts   \* bound: starts, after the first, of a member or the coordinator

ASSUME RecoveryAssumption ==
  MaxCommands \in Nat /\ MaxRestarts \in Nat

VARIABLES
  me, heard,       \* SwarmMember
  up,              \* the coordinator runs
  rec,             \* rec[d]: its record of drone d
  ids,             \* its counters, and how often it was started
  ex,              \* ex[d]: the version the executor holds and its way home
  orders,          \* orders[d]: broadcasts executor d has not read
  retained,        \* retained[d]: the publisher keeps a low-battery route
  call,            \* call[d]: registration requests and answers under way
  answered         \* history: a failing battery of d has been acted upon

vars == <<me, heard, up, rec, ids, ex, orders, retained, call, answered>>

M == INSTANCE SwarmMember

NoHome == [command |-> 0, mission |-> 0]

(* "fresh": the lease of the session has not run out.                      *)
NewRecord ==
  [registered |-> FALSE, boot |-> 0, fresh |-> FALSE, lastEvent |-> "NORMAL",
   event |-> "NORMAL", home |-> NoHome]

Started(starts) == [command |-> 1, mission |-> 1, starts |-> starts]

Message(stage, boot, accepted) ==
  [stage |-> stage, boot |-> boot, accepted |-> accepted]

HomeOrder(kind, d, home) ==
  Broadcast(kind, home.command, home.mission, 1, {d},
            [e \in Drones |-> IF e = d THEN [id |-> home.command, legs |-> 2]
                              ELSE NoOrder])

Init ==
  /\ M!Init
  /\ up = TRUE
  /\ rec = [d \in Drones |-> NewRecord]
  /\ ids = Started(1)
  /\ ex = [d \in Drones |-> [command |-> 0, mission |-> 0, purpose |-> "NONE"]]
  /\ orders = [d \in Drones |-> <<>>]
  /\ retained = [d \in Drones |-> FALSE]
  /\ call = [d \in Drones |-> {}]
  /\ answered = [d \in Drones |-> FALSE]

-----------------------------------------------------------------------------
(* The coordinator.                                                        *)

(* A broadcast is queued for the executor, read by the member at its next  *)
(* callback, taken as immediate, and kept for late subscribers.            *)
Publish(d, c) ==
  /\ orders' = [orders EXCEPT ![d] = Append(@, c)]
  /\ retained' = [retained EXCEPT ![d] = @ \/ M!Acknowledges(d, c)]
  /\ M!OnMissionCommand(d, c)

Silent == UNCHANGED <<orders, retained, me, heard>>

MayStart ==
  ids.starts + FoldSet(LAMBDA d, n : me[d].boot - 1 + n, 0, Drones) <= MaxRestarts

Awake == ids.command <= MaxCommands

(* startHomeMission for one drone; it is refused without a fresh and       *)
(* localized vehicle state.                                                *)
StartHome(d, kind, s) ==
  LET home == [command |-> ids.command, mission |-> ids.mission]
  IN  /\ rec' = [rec EXCEPT ![d] = [s EXCEPT !.home = home]]
      /\ ids' = [ids EXCEPT !.command = @ + 1, !.mission = @ + 1]
      /\ Publish(d, HomeOrder(kind, d, home))

ReturnHome(d) ==
  /\ up /\ Awake
  /\ StartHome(d, "HOME", rec[d])
  /\ UNCHANGED <<up, ex, call>>

HandleSafetyEvent(d) ==
  LET s == [rec[d] EXCEPT !.event = "NORMAL"]
  IN  /\ up
      /\ \/ /\ rec[d].event = "RETURN_HOME"
            /\ StartHome(d, "LOW_BATTERY_RTH", s)
         \/ /\ rec[d].event = "RETURN_HOME"
            /\ rec' = [rec EXCEPT ![d] = s]
            /\ Silent /\ UNCHANGED ids
         \/ /\ rec[d].event = "EMERGENCY_LAND"
            /\ rec' = [rec EXCEPT ![d] = [s EXCEPT !.home = NoHome]]
            /\ ids' = [ids EXCEPT !.command = @ + 1]
            /\ Publish(d, HomeOrder("LAND", d, [command |-> ids.command, mission |-> 0]))
      /\ UNCHANGED <<up, ex, call>>

(* onDroneHeartbeat drops what is not of the registered session, and       *)
(* raises an event when the requested action changes.                      *)
HeartbeatArrives(d) ==
  LET battery == me[d].battery
      raises == battery # "NORMAL" /\ battery # rec[d].lastEvent
  IN  /\ up
      /\ me[d].registered
      /\ rec[d].registered /\ rec[d].boot = me[d].boot
      /\ raises => Awake
      /\ rec' = [rec EXCEPT ![d].fresh = TRUE, ![d].lastEvent = battery,
                            ![d].event = IF raises THEN battery ELSE @]
      /\ UNCHANGED <<me, heard, up, ids, ex, orders, retained, call>>

(* No heartbeat of the session for lease_timeout_s.                        *)
LeaseExpires(d) ==
  /\ up /\ rec[d].fresh
  /\ rec' = [rec EXCEPT ![d].fresh = FALSE]
  /\ UNCHANGED <<me, heard, up, ids, ex, orders, retained, call>>

MistakenMayRegister(s, boot) == s.boot \in {0, boot} \/ ~s.registered

(* A session is taken over only after its lease, and its routes, are over. *)
MayRegister(s, boot) ==
  s.boot \in {0, boot} \/ (~s.fresh /\ s.home = NoHome)

RegisterDrone(d) ==
  \E request \in call[d] :
    LET boot == request.boot
        accepted == MayRegister(rec[d], boot)
    IN  /\ up
        /\ request.stage = "request"
        /\ call' = [call EXCEPT ![d] = (@ \ {request}) \cup
             (IF boot = me[d].boot THEN {Message("response", boot, accepted)} ELSE {})]
        /\ rec' = IF accepted
             THEN [rec EXCEPT ![d].registered = TRUE, ![d].boot = boot, ![d].fresh = TRUE]
             ELSE rec
        /\ UNCHANGED <<me, heard, up, ids, ex, orders, retained>>

Dies ==
  /\ up
  /\ up' = FALSE
  /\ rec' = [d \in Drones |-> NewRecord]
  /\ call' = [d \in Drones |-> {m \in call[d] : m.stage = "response"}]
  /\ retained' = [d \in Drones |-> FALSE]
  /\ UNCHANGED <<me, heard, ids, ex, orders>>

Starts ==
  /\ ~up /\ MayStart
  /\ up' = TRUE
  /\ ids' = Started(ids.starts + 1)
  /\ UNCHANGED <<me, heard, rec, ex, orders, retained, call>>

-----------------------------------------------------------------------------
(* The route executor: a way home replaces whatever is flown, unless its   *)
(* version is older than the one the executor holds or its command id is   *)
(* the one the executor last took: then it is a repetition, and answered   *)
(* with the last feedback.  LAND ends a route at once.                     *)

Stale(e, c) == c.mission < e.mission

Repeated(e, c) == ~Stale(e, c) /\ c.command = e.command

Adopts(e, c) == ~Stale(e, c) /\ c.command # e.command

(* The coordinator, if it is up, hears that the route of the executor has  *)
(* ended and forgets it, if that is the one it has (onMissionFeedback).    *)
HearsOfTheEnd(d) ==
  rec' = [rec EXCEPT ![d].home =
    IF @ = [command |-> ex[d].command, mission |-> ex[d].mission] THEN NoHome ELSE @]

OnMissionCommand(d) ==
  LET c == Head(orders[d])
  IN  /\ orders[d] # <<>>
      /\ orders' = [orders EXCEPT ![d] = Tail(@)]
      /\ \/ c.kind \in HomeKinds /\ Adopts(ex[d], c)
            /\ ex' = [ex EXCEPT ![d] = [command |-> c.command, mission |-> c.mission,
                                        purpose |-> c.kind]]
            /\ UNCHANGED rec
         \/ c.kind \in HomeKinds /\ Stale(ex[d], c)
            /\ UNCHANGED <<ex, rec>>
         \/ c.kind \in HomeKinds /\ Repeated(ex[d], c)
            /\ UNCHANGED ex
            /\ IF ex[d].purpose = "NONE" THEN HearsOfTheEnd(d) ELSE UNCHANGED rec
         \/ c.kind = "LAND"
            /\ ex' = [ex EXCEPT ![d].command = c.command, ![d].purpose = "NONE"]
            /\ UNCHANGED rec
      /\ UNCHANGED <<me, heard, up, ids, retained, call>>

(* The route is flown, or fails.                                           *)
RouteEnds(d) ==
  /\ ex[d].purpose # "NONE"
  /\ ex' = [ex EXCEPT ![d].purpose = "NONE"]
  /\ HearsOfTheEnd(d)
  /\ UNCHANGED <<me, heard, up, ids, orders, retained, call>>

-----------------------------------------------------------------------------
(* The member.                                                             *)

(* The navigation server is up and the vehicle localized.                  *)
Ready(late, refresh) ==
  [late |-> late, refresh |-> refresh, ready |-> TRUE, nav |-> TRUE, service |-> up]

MemberTimer(d, c) ==
  /\ M!OnTimer(d, c)
  /\ call' = IF M!SendsRequest(d)
             THEN [call EXCEPT ![d] = @ \cup {Message("request", me[d].boot, FALSE)}]
             ELSE call
  /\ UNCHANGED <<up, rec, ids, ex, orders, retained>>

MemberReadsRetained(d) ==
  /\ me[d].boot > 1 /\ retained[d]
  /\ M!OnMissionCommand(d, HomeOrder("LOW_BATTERY_RTH", d, [command |-> 1, mission |-> 1]))
  /\ UNCHANGED <<up, rec, ids, ex, orders, retained, call>>

MemberIsAnswered(d) ==
  \E m \in call[d] :
    /\ m.stage = "response"
    /\ M!OnResponse(d, m.accepted)
    /\ call' = [call EXCEPT ![d] = @ \ {m}]
    /\ UNCHANGED <<up, rec, ids, ex, orders, retained>>

(* Answers to the old process find nobody; the new one is sent what the    *)
(* coordinator's publisher retains.                                        *)
MemberRestarts(d) ==
  /\ MayStart
  /\ M!Restart(d)
  /\ call' = [call EXCEPT ![d] = {m \in @ : m.stage = "request"}]
  /\ UNCHANGED <<up, rec, ids, ex, orders, retained>>

(* The battery runs down, and is charged on the ground (Awake).            *)
Charges(r) == ~r.armed /\ Awake

MayBecome(r) ==
  CASE r.battery = "unknown" -> {"good", "critical"}
    [] r.battery = "good" -> {"good", "critical"}
    [] r.battery = "critical" ->
         {"critical", "emergency"} \cup (IF Charges(r) THEN {"good"} ELSE {})
    [] OTHER -> {"emergency"} \cup (IF Charges(r) THEN {"good"} ELSE {})

VehicleStateArrives(d) ==
  /\ \E level \in MayBecome(heard[d]), armed \in BOOLEAN :
       /\ armed /\ ~heard[d].armed => heard[d].battery \in {"unknown", "good"}
       /\ M!OnState(d, [battery |-> level, armed |-> armed], TRUE)
  /\ UNCHANGED <<up, rec, ids, ex, orders, retained, call>>

-----------------------------------------------------------------------------
(* The drone flies home, or is told to land, since its battery latched.    *)
Helped(d) ==
  \/ me'[d].fallback \/ me'[d].landSent
  \/ ex'[d].purpose # "NONE"
  \/ orders[d] # <<>> /\ orders'[d] # orders[d] /\ Head(orders[d]).kind = "LAND"

Remembers ==
  answered' = [d \in Drones |-> me'[d].latched /\ (answered[d] \/ Helped(d))]

Steps(d) ==
  \/ ReturnHome(d)
  \/ HandleSafetyEvent(d)
  \/ HeartbeatArrives(d)
  \/ LeaseExpires(d)
  \/ RegisterDrone(d)
  \/ OnMissionCommand(d)
  \/ RouteEnds(d)
  \/ \E late, refresh \in BOOLEAN : MemberTimer(d, Ready(late, refresh))
  \/ MemberReadsRetained(d)
  \/ MemberIsAnswered(d)
  \/ MemberRestarts(d)
  \/ VehicleStateArrives(d)

Next ==
  /\ Dies \/ Starts \/ \E d \in Drones : Steps(d)
  /\ Remembers

Spec == Init /\ [][Next]_vars

(* A session that the member no longer belongs to gets no heartbeats.      *)
Abandoned(d) == rec[d].boot # me[d].boot

(* The nodes spin and read what they are sent, vehicle states keep coming  *)
(* and every route ends some day.  Nothing makes the coordinator start     *)
(* again, its link come back, a heartbeat arrive or an operator act.       *)
Fairness ==
  \A d \in Drones :
    /\ WF_vars(RegisterDrone(d) /\ Remembers)
    /\ WF_vars(Abandoned(d) /\ LeaseExpires(d) /\ Remembers)
    /\ WF_vars(OnMissionCommand(d) /\ Remembers)
    /\ WF_vars(RouteEnds(d) /\ Remembers)
    /\ WF_vars(MemberTimer(d, Ready(TRUE, TRUE)) /\ Remembers)
    /\ WF_vars(MemberIsAnswered(d) /\ Remembers)
    /\ WF_vars(heard[d].battery = "unknown" /\ VehicleStateArrives(d) /\ Remembers)

FairSpec == Spec /\ Fairness

-----------------------------------------------------------------------------
(* Properties.                                                             *)

(* Battery safety is decided on board: a drone that is in the air on a     *)
(* failing battery comes to fly home or to land, whatever becomes of the   *)
(* link, of its registration and of the coordinator.                       *)
BatterySafetyIsLocal ==
  \A d \in Drones : []<>(me[d].latched /\ heard[d].armed => answered[d])

(* That is so until a node is started again.  A restarted member may take  *)
(* a retained route of an earlier flight for the answer, and a restarted   *)
(* coordinator counts from 1 again: the executor takes its answer for a    *)
(* repetition of an earlier one, or for an older version.                  *)
CriticalIsAnswered ==
  \A d \in Drones :
    []<>(me[d].latched /\ heard[d].armed /\ me[d].boot = 1 /\ ids.starts = 1
           => answered[d])

(* A drone whose node was restarted gets its id back, once the lease of    *)
(* the old session and the routes the coordinator has for it have ended;   *)
(* not of a coordinator started again, which may have died with the        *)
(* member's request: the member waits for its answer for ever.             *)
MembersRejoin ==
  \A d \in Drones :
    []<>(up /\ ids.starts = 1 => rec[d].registered /\ ~Abandoned(d))
=============================================================================
