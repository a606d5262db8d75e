----------------------------- MODULE SwarmMember -----------------------------
(***************************************************************************)
(* swarm_member_node.cpp: the node of a drone that joins the swarm and     *)
(* keeps the drone safe on a failing battery, with the coordinator's help  *)
(* or without it.                                                          *)
(*                                                                         *)
(* "me[d]" is the memory of drone d's node and "heard[d]" what the last    *)
(* VehicleState said.  Battery levels are the intervals that the           *)
(* thresholds cut out: "good" is above the recovery level, "fair" between  *)
(* it and the critical one, "unknown" stands for no state or no valid      *)
(* battery.  BATTERY_STATE_UNKNOWN, NORMAL and LOW differ in a routing     *)
(* penalty only and are one, "NORMAL".  Times are conditions: whether the  *)
(* period since the last request, or since the latch, is over.             *)
(* An operator called Mistaken... is a wrong version of the definition     *)
(* after it, to see the properties fail; no specification uses it.         *)
(***************************************************************************)
EXTENDS SwarmTypes

VARIABLES me, heard

Levels == {"unknown", "good", "fair", "critical", "emergency"}

Reports == [battery: Levels, armed: BOOLEAN]

BatteryStates == {"NORMAL", "RETURN_HOME", "EMERGENCY_LAND"}

Memory ==
  [boot: Nat, registered: BOOLEAN, requesting: BOOLEAN, home: BOOLEAN,
   latched: BOOLEAN, emergency: BOOLEAN, acked: BOOLEAN, fallback: BOOLEAN,
   landSent: BOOLEAN, battery: BatteryStates]

Booted(boot) ==
  [boot |-> boot, registered |-> FALSE, requesting |-> FALSE, home |-> FALSE,
   latched |-> FALSE, emergency |-> FALSE, acked |-> FALSE, fallback |-> FALSE,
   landSent |-> FALSE, battery |-> "NORMAL"]

Init ==
  /\ me = [d \in Drones |-> Booted(1)]
  /\ heard = [d \in Drones |-> [battery |-> "unknown", armed |-> FALSE]]

-----------------------------------------------------------------------------
(* The conditions of a timer callback: "late" (the coordinator has had its *)
(* time), "refresh" (registration is due), "ready" (fresh and localized    *)
(* vehicle state), "nav" and "service" (the navigation server and the      *)
(* registration service are there).                                        *)
Conditions ==
  [late: BOOLEAN, refresh: BOOLEAN, ready: BOOLEAN, nav: BOOLEAN, service: BOOLEAN]

MistakenFallsBack(e, r, c) ==
  ~e.acked /\ ~e.fallback /\ r.armed /\ e.home /\ c.late /\ c.nav /\ e.registered

(* maybeSendLocalRthFallback: the node flies home by itself.               *)
FallsBack(e, r, c) ==
  ~e.acked /\ ~e.fallback /\ r.armed /\ e.home /\ c.late /\ c.nav

Recovers(e, r) == e.latched /\ ~r.armed /\ r.battery = "good"

Unlatched(e) ==
  [e EXCEPT !.latched = FALSE, !.emergency = FALSE, !.acked = FALSE,
            !.fallback = FALSE, !.landSent = FALSE, !.battery = "NORMAL"]

(* updateBatterySafety; a level that is not known changes no latch.        *)
BatterySafety(e, r, c) ==
  IF r.battery = "unknown"
  THEN IF e.latched THEN e ELSE [e EXCEPT !.battery = "NORMAL"]
  ELSE IF Recovers(e, r) THEN Unlatched(e)
  ELSE IF e.emergency \/ r.battery = "emergency"
  THEN [e EXCEPT !.latched = TRUE, !.emergency = TRUE, !.landSent = TRUE,
                 !.battery = "EMERGENCY_LAND"]
  ELSE IF e.latched
  THEN [e EXCEPT !.fallback = @ \/ FallsBack(e, r, c), !.battery = "RETURN_HOME"]
  ELSE IF r.battery = "critical"
  THEN [e EXCEPT !.latched = TRUE, !.battery = "RETURN_HOME"]
  ELSE [e EXCEPT !.battery = "NORMAL"]

Registers(e, c) == c.ready /\ c.nav /\ c.refresh /\ c.service /\ ~e.requesting

(* The 100 ms timer.  Its heartbeat tells what me[d] then says.            *)
OnTimer(d, c) ==
  LET e == BatterySafety(me[d], heard[d], c)
  IN  /\ me' = [me EXCEPT ![d] = [e EXCEPT !.requesting = @ \/ Registers(e, c)]]
      /\ UNCHANGED heard

(* What the callback published, from the memories around it.               *)
SendsRequest(d) == me'[d].requesting /\ ~me[d].requesting

-----------------------------------------------------------------------------
(* The subscriptions, the answer of the registration service, a restart.   *)

(* The first valid position after the start is taken for home.             *)
OnState(d, r, localized) ==
  /\ heard' = [heard EXCEPT ![d] = r]
  /\ me' = [me EXCEPT ![d].home = @ \/ localized]

Acknowledges(d, c) == c.kind = "LOW_BATTERY_RTH" /\ c.orders[d].id # 0

OnMissionCommand(d, c) ==
  /\ me' = [me EXCEPT ![d].acked = @ \/ (me[d].latched /\ Acknowledges(d, c))]
  /\ UNCHANGED heard

OnResponse(d, accepted) ==
  /\ me' = [me EXCEPT ![d].requesting = FALSE, ![d].registered = accepted]
  /\ UNCHANGED heard

Restart(d) ==
  /\ me' = [me EXCEPT ![d] = Booted(me[d].boot + 1)]
  /\ heard' = [heard EXCEPT ![d] = [battery |-> "unknown", armed |-> FALSE]]

Next ==
  \E d \in Drones :
    \/ \E c \in Conditions : OnTimer(d, c)
    \/ \E r \in Reports, localized \in BOOLEAN : OnState(d, r, localized)
    \/ \E c \in Broadcasts : OnMissionCommand(d, c)
    \/ \E accepted \in BOOLEAN : OnResponse(d, accepted)
    \/ Restart(d)

Spec == Init /\ [][Next]_<<me, heard>>

-----------------------------------------------------------------------------
TypeOK ==
  /\ me \in [Drones -> Memory]
  /\ heard \in [Drones -> Reports]

(* The flags of the latch are set only under it, and an emergency has had  *)
(* its LAND: what the node decides about a battery, it has acted upon.     *)
LatchIsActedUpon ==
  \A d \in Drones :
    /\ me[d].emergency => me[d].latched /\ me[d].landSent
    /\ me[d].latched <=> me[d].battery # "NORMAL"
    /\ me[d].acked \/ me[d].fallback \/ me[d].landSent => me[d].latched
=============================================================================
