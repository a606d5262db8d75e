---------------------------- MODULE SwarmMission ----------------------------
(***************************************************************************)
(* The coordinator and the route executors together, joined by the topics  *)
(* /swarm/mission_command and /swarm/mission_feedback.                     *)
(*                                                                         *)
(* Both topics are reliable: a message is delayed, not lost.  An executor  *)
(* reads the command topic through two subscriptions of its own (one for   *)
(* routes, one for flight commands), so each drone has two inboxes, each   *)
(* in the order of publication; ReadersInOrder says whether the two        *)
(* readers also agree with each other.                                     *)
(***************************************************************************)
EXTENDS SwarmCoordinator

CONSTANTS
  MaxReports,      \* bound: feedback of a drone under way before it tells EXECUTING
  ReadersInOrder   \* a drone's two readers agree on the order of the commands

ASSUME MissionAssumption == MaxReports \in Nat /\ ReadersInOrder \in BOOLEAN

VARIABLES
  ex, goals, said, asked,    \* RouteExecutor
  missionInbox,              \* missionInbox[d]: EXECUTE and CANCEL under way to d
  flightInbox,               \* flightInbox[d]: flight commands under way to d
  reports                    \* reports[d]: feedback under way from d

E == INSTANCE RouteExecutor WITH Commands <- {}, MaxGenerations <- 0

droneVars == <<ex, goals, said, asked>>

missionVars ==
  <<co, link, vehicle, ex, goals, said, asked, missionInbox, flightInbox, reports>>

-----------------------------------------------------------------------------
(* A broadcast reaches every drone; the ones a node would drop unread are  *)
(* not put in its inbox.                                                   *)

ForMissionReader(c, d) ==
  c.kind \in ExecuteKinds \/ (c.kind = "CANCEL" /\ d \in c.to)

ForFlightReader(c, d) == c.kind \in FlightKinds /\ d \in c.to

Deliver(out) ==
  /\ missionInbox' = [d \in Drones |->
       missionInbox[d] \o
         Picked(out, {i \in DOMAIN out : ForMissionReader(out[i], d)})]
  /\ flightInbox' = [d \in Drones |->
       flightInbox[d] \o
         Picked(out, {i \in DOMAIN out : ForFlightReader(out[i], d)})]

Coordinate(step) ==
  /\ step
  /\ Deliver(co'.out)
  /\ UNCHANGED <<droneVars, reports>>

HearFeedback(d) ==
  /\ reports[d] # <<>>
  /\ OnMissionFeedback(Head(reports[d]))
  /\ Deliver(co'.out)
  /\ reports' = [reports EXCEPT ![d] = Tail(@)]
  /\ UNCHANGED droneVars

Report(d) == reports' = [reports EXCEPT ![d] = @ \o said'[d]]

ReadMissionCommand(d) ==
  /\ missionInbox[d] # <<>>
  /\ ReadersInOrder =>
       \A i \in DOMAIN flightInbox[d] :
         flightInbox[d][i].command > Head(missionInbox[d]).command
  /\ E!OnMissionCommand(d, Head(missionInbox[d]))
  /\ missionInbox' = [missionInbox EXCEPT ![d] = Tail(@)]
  /\ Report(d)
  /\ UNCHANGED <<co, link, vehicle, flightInbox>>

ReadFlightCommand(d) ==
  /\ flightInbox[d] # <<>>
  /\ ReadersInOrder =>
       \A i \in DOMAIN missionInbox[d] :
         missionInbox[d][i].command > Head(flightInbox[d]).command
  /\ E!OnFlightCommand(d, Head(flightInbox[d]))
  /\ flightInbox' = [flightInbox EXCEPT ![d] = Tail(@)]
  /\ Report(d)
  /\ UNCHANGED <<co, link, vehicle, missionInbox>>

Fly(d) ==
  /\ E!Local(d)
  /\ \A i \in DOMAIN said'[d] : said'[d][i].state = "EXECUTING" => Len(reports[d]) < MaxReports
  /\ Report(d)
  /\ UNCHANGED <<co, link, vehicle, missionInbox, flightInbox>>

-----------------------------------------------------------------------------
MissionInit ==
  /\ Init
  /\ E!Init
  /\ missionInbox = [d \in Drones |-> <<>>]
  /\ flightInbox = [d \in Drones |-> <<>>]
  /\ reports = [d \in Drones |-> <<>>]

Exchange ==
  \E d \in Drones :
    HearFeedback(d) \/ ReadMissionCommand(d) \/ ReadFlightCommand(d) \/ Fly(d)

MissionNext ==
  Coordinate(Operator) \/ Coordinate(Timer) \/ Coordinate(Reports) \/ Exchange

MissionSpec == MissionInit /\ [][MissionNext]_missionVars

-----------------------------------------------------------------------------
(* Agreements of the coordinator's books with the memories of the drones.  *)
(* Each holds of a drone all of whose messages have been read.             *)

Quiet(d) == missionInbox[d] = <<>> /\ flightInbox[d] = <<>> /\ reports[d] = <<>>

(* The drone flies this route and nothing has asked it to stop.            *)
Holds(d, mission, revision, route) ==
  /\ ex[d].active /\ ~ex[d].cancel
  /\ <<ex[d].mission, ex[d].revision, ex[d].route>> = <<mission, revision, route>>

(* A drone that the coordinator has taken off its books stops flying: no   *)
(* abort, timeout, recalculation, HOME, LAND, disarm or OFF forgets to     *)
(* tell the drone, or tells it under a version the drone ignores.          *)
NoForgottenRoute ==
  \A d \in Drones :
    /\ Quiet(d)
    /\ co.phase = "IDLE"
    /\ d \notin Owners(co.current) \cup Owners(co.aux)
    => ~ex[d].active \/ ex[d].cancel

(* A drone that the coordinator believes on its way home is flying that    *)
(* very route, under the command id its feedback will be matched by, or is *)
(* about to tell that it gave up (matchesAuxiliaryFeedback).               *)
HomeAgreed ==
  \A d \in Owners(co.aux) :
    Quiet(d) =>
      \/ /\ Holds(d, co.aux[d].mission, 1, co.aux[d].id)
         /\ ex[d].command = co.aux[d].command
      \/ ex[d].active /\ ex[d].cancel

(* After a commit every drone of the mission flies the route the           *)
(* coordinator has for it, at the version the coordinator expects its      *)
(* feedback in.                                                            *)
RouteAgreed ==
  \A d \in Owners(co.current) :
    co.phase = "IDLE" /\ Quiet(d) /\ ~co.current[d].finished =>
      Holds(d, co.activeMission, co.activeRevision, co.current[d].id)

(* Feedback about the mission revision that awaits acknowledgement carries *)
(* the command id of its broadcast, which onMissionFeedback insists on:    *)
(* an acknowledgement is never dropped for an older command id.            *)
AcknowledgesItsBroadcast ==
  \A d \in Drones : \A i \in DOMAIN reports[d] :
    LET r == reports[d][i]
    IN  /\ co.phase = "WAITING"
        /\ r.mission = co.activeMission /\ r.revision = co.activeRevision
        /\ r.route # 0 /\ r.route = co.current[d].id
        => r.command = co.activeCommand
=============================================================================
