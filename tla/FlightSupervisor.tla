-------------------------- MODULE FlightSupervisor --------------------------
(***************************************************************************)
(* flight_supervisor_node.cpp: the one owner of arming, takeoff, landing   *)
(* and VTOL transition of a drone.  Its operations come from three action  *)
(* servers and from /flight/request, and preempt or refuse each other.     *)
(*                                                                         *)
(* "fs" is the node's memory, "report" the last VehicleState, "goals" the  *)
(* handles of the three action servers as their clients see them, "ended"  *)
(* the results and "sent" the vehicle commands and motion intents that the *)
(* last callback published.  One thread spins the node: a callback is one  *)
(* atomic step.  manual_operation_ is never read and land_started_at_ only *)
(* words a warning: neither is modelled.  Times are kept as whether        *)
(* vehicle_command_period_s has passed since the last command.             *)
(* An operator called Mistaken... is a wrong version of the definition     *)
(* after it, to see the properties fail; no specification uses it.         *)
(***************************************************************************)
EXTENDS Naturals, Sequences

CONSTANT Goals     \* the goal handles, used again after their end

VARIABLES fs, report, goals, ended, sent

vars == <<fs, report, goals, ended, sent>>

Operations == {"TAKEOFF", "LAND", "TRANSITION"}

(* "ground" merges landed_valid and landed, "high" says that the altitude  *)
(* of the takeoff goal is reached within its tolerance.                    *)
Modes == {"MC", "FW", "OTHER"}

Reports ==
  [armed: BOOLEAN, offboard: BOOLEAN, mode: Modes, high: BOOLEAN,
   ground: {"unknown", "airborne", "landed"}]

NoReport == [armed |-> FALSE, offboard |-> FALSE, mode |-> "NONE",
             high |-> FALSE, ground |-> "unknown"]

HaveState == report # NoReport

Memory ==
  [operation: Operations \cup {"IDLE"}, held: [Operations -> SUBSET Goals],
   arming: BOOLEAN, toFixedWing: BOOLEAN, landSent: BOOLEAN, due: BOOLEAN]

(* A goal handle pointer is the set of what it points to: {} is null.      *)
NoHandles == [o \in Operations |-> {}]

NoResults == [g \in Goals |-> "none"]

Init ==
  /\ fs = [operation |-> "IDLE", held |-> NoHandles, arming |-> FALSE,
           toFixedWing |-> FALSE, landSent |-> FALSE, due |-> TRUE]
  /\ report = NoReport
  /\ goals = [g \in Goals |-> "free"]
  /\ ended = NoResults
  /\ sent = <<>>

-----------------------------------------------------------------------------
(* The ends of goals.                                                      *)

Handles(operations) == UNION {fs.held[o] : o \in operations}

EndGoals(set, result) ==
  /\ goals' = [g \in Goals |-> IF g \in set THEN "free" ELSE goals[g]]
  /\ ended' = [g \in Goals |-> IF g \in set THEN result[g] ELSE "none"]

KeepGoals == UNCHANGED goals /\ ended' = NoResults

(* LAND and FORCE DISARM: is_canceling() chooses between the two results.  *)
Interruption ==
  [g \in Goals |-> IF goals[g] = "canceling" THEN "canceled" ELSE "aborted"]

MistakenFinished(f) ==
  [f EXCEPT !.operation = "IDLE", !.landSent = FALSE]

(* finishOperation: arming, toFixedWing and due are kept.                  *)
Finished(f) ==
  [f EXCEPT !.operation = "IDLE", !.held = NoHandles, !.landSent = FALSE]

MistakenFinishOperation(f, o, result) ==
  /\ fs' = IF fs.held[o] = {} THEN f ELSE Finished(f)
  /\ EndGoals(Handles({o}), [g \in Goals |-> result])

(* The running operation of kind o ends; a manual one has no goal.         *)
FinishOperation(f, o, result) ==
  /\ fs' = Finished(f)
  /\ EndGoals(Handles({o}), [g \in Goals |-> result])

MistakenCanceling(o) == FALSE

Canceling(o) == \E g \in fs.held[o] : goals[g] = "canceling"

-----------------------------------------------------------------------------
(* /flight/arm and /flight/request.                                        *)

RequestArmOffboard ==
  /\ fs' = [fs EXCEPT !.arming = TRUE]
  /\ sent' = <<>>
  /\ KeepGoals /\ UNCHANGED report

Disarm ==
  /\ fs' = [fs EXCEPT !.arming = FALSE]
  /\ sent' = <<"DISARM">>
  /\ KeepGoals /\ UNCHANGED report

ForceDisarm ==
  /\ fs' = [Finished(fs) EXCEPT !.arming = FALSE]
  /\ EndGoals(Handles(Operations), Interruption)
  /\ sent' = <<"INACTIVE", "FORCE_DISARM">>
  /\ UNCHANGED report

Preemptible == fs.operation # "LAND"

StartManualLand ==
  /\ UNCHANGED report
  /\ sent' = <<>>
  /\ IF ~Preemptible THEN UNCHANGED fs /\ KeepGoals
     ELSE /\ EndGoals(Handles({"TAKEOFF", "TRANSITION"}), Interruption)
          /\ fs' = [fs EXCEPT !.held["TAKEOFF"] = {}, !.held["TRANSITION"] = {},
                              !.operation = "LAND", !.arming = FALSE,
                              !.landSent = FALSE, !.due = TRUE]

MistakenMayStart == TRUE

(* Every other operation is refused while one runs.                        *)
MayStart == fs.operation = "IDLE"

StartManualTransition(fixedWing) ==
  /\ MayStart
  /\ fs' = [fs EXCEPT !.operation = "TRANSITION", !.toFixedWing = fixedWing, !.due = TRUE]
  /\ sent' = <<>>
  /\ KeepGoals /\ UNCHANGED report

-----------------------------------------------------------------------------
(* The action servers.  A goal that is refused changes nothing.            *)

AcceptGoal(g, f) ==
  /\ MayStart
  /\ goals[g] = "free"
  /\ goals' = [goals EXCEPT ![g] = "executing"]
  /\ ended' = NoResults
  /\ fs' = f
  /\ sent' = <<>>
  /\ UNCHANGED report

AcceptTakeoff(g) ==
  /\ HaveState /\ report.armed
  /\ AcceptGoal(g, [fs EXCEPT !.operation = "TAKEOFF", !.held["TAKEOFF"] = {g},
                              !.arming = FALSE, !.due = TRUE])

AcceptLand(g) ==
  AcceptGoal(g, [fs EXCEPT !.operation = "LAND", !.held["LAND"] = {g}, !.arming = FALSE,
                           !.landSent = FALSE, !.due = TRUE])

AcceptTransition(g, fixedWing) ==
  AcceptGoal(g, [fs EXCEPT !.operation = "TRANSITION", !.held["TRANSITION"] = {g},
                           !.toFixedWing = fixedWing, !.due = TRUE])

(* Every cancellation of a goal that runs is accepted; the timer acts on it. *)
CancelGoal(g) ==
  /\ goals[g] = "executing"
  /\ goals' = [goals EXCEPT ![g] = "canceling"]
  /\ ended' = NoResults
  /\ sent' = <<>>
  /\ UNCHANGED <<fs, report>>

-----------------------------------------------------------------------------
(* The 50 ms timer, once a VehicleState has arrived.  processArmOffboard   *)
(* runs first, in IDLE and TRANSITION only, and shares with the operation  *)
(* the one period between vehicle commands (commandDue).                   *)

MistakenArmingTime == fs.operation # "TAKEOFF"

ArmingTime == fs.operation \in {"IDLE", "TRANSITION"}

Armed == report.armed /\ report.offboard

ArmCommands ==
  IF fs.arming /\ ArmingTime /\ ~Armed /\ fs.due
  THEN IF report.armed THEN <<"OFFBOARD">> ELSE <<"OFFBOARD", "ARM">>
  ELSE <<>>

MistakenDue(f) ==
  [f EXCEPT !.arming = @ /\ ~(ArmingTime /\ Armed), !.due = FALSE]

ProcessArmOffboard(f) ==
  [f EXCEPT !.arming = @ /\ ~(ArmingTime /\ Armed), !.due = @ /\ ArmCommands = <<>>]

(* What the operation does in the same tick; "f" is the memory it finds.   *)
IdleTick(f) ==
  /\ fs.operation = "IDLE"
  /\ fs' = f
  /\ sent' = Append(ArmCommands, "INACTIVE")
  /\ KeepGoals

ProcessTakeoff(f) ==
  LET ready == report.mode = "MC" /\ report.offboard
      wish == IF report.mode # "MC" THEN <<"TO_MC">>
              ELSE IF ~report.offboard THEN <<"OFFBOARD">> ELSE <<>>
      climb == ArmCommands \o <<"CLIMB">> \o (IF f.due THEN wish ELSE <<>>)
  IN  /\ fs.operation = "TAKEOFF"
      /\ f.held["TAKEOFF"] # {}
      /\ \/ /\ Canceling("TAKEOFF")
            /\ FinishOperation(f, "TAKEOFF", "canceled")
            /\ sent' = Append(ArmCommands, "INACTIVE")
         \/ /\ ~Canceling("TAKEOFF") /\ ~report.armed
            /\ FinishOperation(f, "TAKEOFF", "aborted")
            /\ sent' = Append(ArmCommands, "INACTIVE")
         \/ /\ ~Canceling("TAKEOFF") /\ report.armed /\ ready /\ report.high
            /\ FinishOperation(f, "TAKEOFF", "succeeded")
            /\ sent' = Append(climb, "INACTIVE")
         \/ /\ ~Canceling("TAKEOFF") /\ report.armed /\ ~(ready /\ report.high)
            /\ fs' = [f EXCEPT !.due = @ /\ wish = <<>>]
            /\ sent' = climb
            /\ KeepGoals

MistakenLandingMemory(f) == f

LandingMemory(f) == [f EXCEPT !.arming = FALSE]

ProcessLand(f) ==
  LET landing == LandingMemory(f)
      land == ArmCommands \o (IF fs.landSent THEN <<>> ELSE <<"NAV_LAND">>)
      down == report.ground = "landed" /\ ~report.armed
  IN  /\ fs.operation = "LAND"
      /\ \/ /\ Canceling("LAND")
            /\ FinishOperation(landing, "LAND", "canceled")
            /\ sent' = Append(ArmCommands, "INACTIVE")
         \/ /\ ~Canceling("LAND") /\ down
            /\ FinishOperation(landing, "LAND", "succeeded")
            /\ sent' = Append(land, "INACTIVE")
         \/ /\ ~Canceling("LAND") /\ ~down
            /\ fs' = [landing EXCEPT !.landSent = TRUE]
            /\ sent' = land
            /\ KeepGoals

ProcessTransition(f) ==
  LET reached == report.mode = IF fs.toFixedWing THEN "FW" ELSE "MC"
      wish == IF fs.toFixedWing THEN "TO_FW" ELSE "TO_MC"
  IN  /\ fs.operation = "TRANSITION"
      /\ \/ /\ Canceling("TRANSITION")
            /\ FinishOperation(f, "TRANSITION", "canceled")
            /\ sent' = Append(ArmCommands, "INACTIVE")
         \/ /\ ~Canceling("TRANSITION") /\ reached
            /\ FinishOperation(f, "TRANSITION", "succeeded")
            /\ sent' = Append(ArmCommands, "INACTIVE")
         \/ /\ ~Canceling("TRANSITION") /\ ~reached
            /\ fs' = [f EXCEPT !.due = FALSE]
            /\ sent' = ArmCommands \o (IF f.due THEN <<wish>> ELSE <<>>)
            /\ KeepGoals

OnTimer ==
  /\ HaveState
  /\ UNCHANGED report
  /\ LET f == ProcessArmOffboard(fs)
     IN  IdleTick(f) \/ ProcessTakeoff(f) \/ ProcessLand(f) \/ ProcessTransition(f)

(* vehicle_command_period_s passes.                                        *)
PeriodPasses ==
  /\ ~fs.due
  /\ fs' = [fs EXCEPT !.due = TRUE]
  /\ sent' = <<>>
  /\ KeepGoals /\ UNCHANGED report

OnState(r) ==
  /\ report' = r
  /\ sent' = <<>>
  /\ KeepGoals /\ UNCHANGED fs

-----------------------------------------------------------------------------
OnFlightRequest ==
  \/ RequestArmOffboard
  \/ Disarm
  \/ ForceDisarm
  \/ StartManualLand
  \/ \E fixedWing \in BOOLEAN : StartManualTransition(fixedWing)

Clients ==
  \E g \in Goals :
    \/ AcceptTakeoff(g)
    \/ AcceptLand(g)
    \/ \E fixedWing \in BOOLEAN : AcceptTransition(g, fixedWing)
    \/ CancelGoal(g)

Next ==
  \/ OnTimer
  \/ PeriodPasses
  \/ OnFlightRequest
  \/ Clients
  \/ \E r \in Reports : OnState(r)

Spec == Init /\ [][Next]_vars

(* The node spins its wall timer, and time goes on.                        *)
FairSpec == Spec /\ WF_vars(OnTimer) /\ WF_vars(PeriodPasses)

-----------------------------------------------------------------------------
(* Properties.                                                             *)

TypeOK ==
  /\ fs \in Memory
  /\ report \in Reports \cup {NoReport}
  /\ goals \in [Goals -> {"free", "executing", "canceling"}]

(* Every goal that a client waits for is held by the running operation, at *)
(* most one at a time, and no handle outlives its goal: however LAND and   *)
(* FORCE DISARM cut into an operation, no client is forgotten and no goal  *)
(* is ended twice (which rclcpp answers with an exception).                *)
GoalsAreHeld ==
  /\ \A o \in Operations : fs.held[o] # {} => fs.operation = o
  /\ Handles(Operations) = {g \in Goals : goals[g] # "free"}
  /\ \A g, h \in Handles(Operations) : g = h

(* The three servers together keep the promises of one action server: a    *)
(* goal at a time, ended once, and a canceled goal never as succeeded.     *)
Server == INSTANCE ActionServer

ServesOneGoalAtATime == Server!Spec

(* "PX4 owns the complete landing sequence": while the supervisor lands,   *)
(* whatever is asked of it meanwhile, it arms nothing, changes no mode and *)
(* publishes no climb, and it asks PX4 to land once only.                  *)
LandingIsPX4s ==
  [][fs.operation = "LAND" =>
       /\ \A i \in DOMAIN sent' :
            sent'[i] \in {"NAV_LAND", "INACTIVE", "DISARM", "FORCE_DISARM"}
       /\ fs.landSent => \A i \in DOMAIN sent' : sent'[i] # "NAV_LAND"]_vars

(* A request to arm that was made before the end of a landing does not arm *)
(* the vehicle that has landed ("press ARM and then TAKEOFF").             *)
NoRearmAfterLanding ==
  [][fs.operation = "LAND" /\ fs'.operation = "IDLE" => ~fs'.arming]_vars

(* A client that cancels its goal gets an answer, if the vehicle reports.  *)
CancelsEnd ==
  \A g \in Goals : goals[g] = "canceling" /\ HaveState ~> goals[g] = "free"

(* A transition is commanded, or ends.  It is not promised while a request *)
(* to arm is pending: that request takes every vehicle command period.     *)
TransitionIsCommanded ==
  fs.operation = "TRANSITION" /\ HaveState ~>
    \/ fs.operation # "TRANSITION"
    \/ fs.arming
    \/ \E i \in DOMAIN sent : sent[i] \in {"TO_FW", "TO_MC"}
=============================================================================
