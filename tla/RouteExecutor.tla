---------------------------- MODULE RouteExecutor ----------------------------
(***************************************************************************)
(* route_executor_node.cpp: each drone's local memory of the one route it  *)
(* was given, and the sequence of /navigate_to goals that flies it.        *)
(*                                                                         *)
(* "ex[d]" is the memory of drone d's node, "goals[d]" the goals it sent   *)
(* and has not heard the end of (each with what the node asked of the      *)
(* action server since), "said[d]" the feedback and "asked[d]" the flight  *)
(* requests its last callback published.  The node is spun by one thread:  *)
(* a callback is one atomic step.  completed_target_count_ and             *)
(* active_target_index_ always change together and are one field, "done".  *)
(* An operator called Mistaken... is a wrong version of the definition     *)
(* after it, to see the properties fail; no specification uses it.         *)
(***************************************************************************)
EXTENDS SwarmTypes

CONSTANTS
  Commands,        \* the broadcasts the drones may receive, in any order
  MaxGenerations   \* bound: routes a drone stores

ASSUME CommandsAssumption == Commands \subseteq Broadcasts /\ MaxGenerations \in Nat

VARIABLES ex, goals, said, asked

vars == <<ex, goals, said, asked>>

Memory ==
  [command: Nat, mission: Nat, revision: Nat, route: Nat, legs: Nat,
   purpose: ExecuteKinds, done: Nat, active: BOOLEAN, requesting: BOOLEAN,
   child: BOOLEAN, cancel: BOOLEAN, generation: Nat,
   last: FeedbackStates \cup {"RECEIVED"}]

Idle ==
  [command |-> 0, mission |-> 0, revision |-> 0, route |-> 0, legs |-> 0,
   purpose |-> "EXECUTE", done |-> 0, active |-> FALSE, requesting |-> FALSE,
   child |-> FALSE, cancel |-> FALSE, generation |-> 0, last |-> "RECEIVED"]

(* A goal: the generation and leg it serves; "offered" until the server    *)
(* answers, then "running" until its result; "cancel" once the node sent a *)
(* cancel request for it.                                                  *)
Goal ==
  [generation: Nat, leg: Nat, stage: {"offered", "running"}, cancel: BOOLEAN]

FlightRequests == {"ARM_OFFBOARD", "TAKEOFF", "LAND", "FORCE_DISARM"}

-----------------------------------------------------------------------------
(* What a callback publishes.  A state that is not RECEIVED is fed back.   *)

MakeFeedback(e, d, state) ==
  Feedback(e.command, e.mission, e.revision, d, e.route, state, e.done)

Say(d, messages) == said' = [said EXCEPT ![d] = messages]

Ask(d, requests) == asked' = [asked EXCEPT ![d] = requests]

Remember(d, e) == ex' = [ex EXCEPT ![d] = e]

(* async_cancel_goal on the handle the node holds, if it holds one.        *)
HeldGoal(e, g) == e.child /\ g.stage = "running" /\ g.generation = e.generation

MistakenCancelHeld(d) == goals[d]

CancelHeld(d) ==
  {[g EXCEPT !.cancel = @ \/ HeldGoal(ex[d], g)] : g \in goals[d]}

(* finishRoute resets the route but keeps its ids.                         *)
Finished(e, state) ==
  [e EXCEPT !.active = FALSE, !.legs = 0, !.done = 0, !.requesting = FALSE,
            !.child = FALSE, !.cancel = FALSE, !.purpose = "EXECUTE",
            !.last = state]

FinishRoute(d, e, state) ==
  /\ Remember(d, Finished(e, state))
  /\ Say(d, <<MakeFeedback(e, d, state)>>)
  /\ Ask(d, IF state = "SUCCEEDED" /\ e.purpose = "LOW_BATTERY_RTH"
            THEN <<"LAND">> ELSE <<>>)

-----------------------------------------------------------------------------
(* /swarm/mission_command, the transient-local subscription.  It also      *)
(* forwards SET_SPEED and SET_LIDAR_RANGE, which leaves no state here.     *)

Stale(e, c) ==
  c.mission < e.mission \/ (c.mission = e.mission /\ c.revision < e.revision)

Unchanged(e, c, d) ==
  e.active /\ c.mission = e.mission /\ c.orders[d].id = e.route

Adopted(e, c) ==
  [e EXCEPT !.command = c.command, !.mission = c.mission,
            !.revision = c.revision, !.last = "ACCEPTED"]

MistakenReplaced(e, c, d) ==
  [Adopted(e, c) EXCEPT
     !.generation = @ + 1, !.route = c.orders[d].id, !.legs = c.orders[d].legs,
     !.purpose = c.kind, !.done = 0, !.cancel = FALSE, !.active = TRUE]

Replaced(e, c, d) ==
  [Adopted(e, c) EXCEPT
     !.generation = @ + 1, !.route = c.orders[d].id, !.legs = c.orders[d].legs,
     !.purpose = c.kind, !.done = 0, !.requesting = FALSE, !.child = FALSE,
     !.cancel = FALSE, !.active = TRUE]

(* A repeated command is answered with the last feedback again.            *)
RepeatFeedback(d) ==
  /\ Say(d, IF ex[d].last = "RECEIVED" THEN <<>>
            ELSE <<MakeFeedback(ex[d], d, ex[d].last)>>)
  /\ UNCHANGED <<ex, goals>>

AcceptRoute(d, c) ==
  IF Unchanged(ex[d], c, d)
  THEN /\ Remember(d, Adopted(ex[d], c))
       /\ Say(d, <<MakeFeedback(ex'[d], d, "ACCEPTED")>>)
       /\ UNCHANGED goals
  ELSE /\ Remember(d, Replaced(ex[d], c, d))
       /\ Say(d, <<MakeFeedback(ex'[d], d, "ACCEPTED")>>)
       /\ goals' = [goals EXCEPT ![d] = CancelHeld(d)]

(* validateRoute: of its reasons, a route without targets stands for all.  *)
RejectRoute(d, c) ==
  /\ Say(d, <<Feedback(c.command, c.mission, c.revision, d, c.orders[d].id,
                       "REJECTED", 0)>>)
  /\ UNCHANGED <<ex, goals>>

Ignore(d) == UNCHANGED <<ex, goals>> /\ Say(d, <<>>)

ExecuteCommand(d, c) ==
  /\ c.kind \in ExecuteKinds
  /\ c.orders[d].id # 0
  /\ Ask(d, <<>>)
  /\ IF c.orders[d].legs = 0 THEN RejectRoute(d, c)
     ELSE IF Stale(ex[d], c) THEN Ignore(d)
     ELSE IF c.command = ex[d].command THEN RepeatFeedback(d)
     ELSE AcceptRoute(d, c)

(* A cancellation only sets the flag and forwards it to the running goal;  *)
(* the timer or the goal's result then ends the route.                     *)
RequestCancel(d, e) ==
  /\ Remember(d, [e EXCEPT !.cancel = TRUE])
  /\ goals' = [goals EXCEPT ![d] = CancelHeld(d)]
  /\ Say(d, <<>>)

CancelRouteRemovedByRevision(d, c) ==
  /\ c.kind \in ExecuteKinds
  /\ c.orders[d].id = 0
  /\ Ask(d, <<>>)
  /\ IF ex[d].active /\ c.mission = ex[d].mission /\ c.revision > ex[d].revision
     THEN RequestCancel(d, [ex[d] EXCEPT !.command = c.command, !.revision = c.revision])
     ELSE Ignore(d)

HandleCancelCommand(d, c) ==
  /\ c.kind = "CANCEL"
  /\ Ask(d, <<>>)
  /\ IF /\ ex[d].active
        /\ c.mission = ex[d].mission
        /\ c.revision >= ex[d].revision
        /\ d \in c.to
     THEN RequestCancel(d, [ex[d] EXCEPT !.command = c.command, !.revision = c.revision])
     ELSE Ignore(d)

OnMissionCommand(d, c) ==
  \/ ExecuteCommand(d, c)
  \/ CancelRouteRemovedByRevision(d, c)
  \/ HandleCancelCommand(d, c)

-----------------------------------------------------------------------------
(* The volatile subscription of the same topic: flight commands preempt    *)
(* the route, whatever the mission they name.                              *)

RequestOf(kind) == IF kind = "ARM" THEN "ARM_OFFBOARD" ELSE kind

OnFlightCommand(d, c) ==
  /\ c.kind \in FlightKinds
  /\ d \in c.to
  /\ Remember(d, [ex[d] EXCEPT !.command = c.command, !.cancel = @ \/ ex[d].active])
  /\ goals' = [goals EXCEPT ![d] = IF ex[d].active THEN CancelHeld(d) ELSE @]
  /\ Say(d, <<>>)
  /\ \/ Ask(d, <<RequestOf(c.kind)>>)
     \/ c.kind = "TAKEOFF" /\ Ask(d, <<>>)  \* the takeoff server is not ready

-----------------------------------------------------------------------------
(* The 50 ms timer: finish the route, or send its next goal.  "late" says  *)
(* that a home route has outlived home.timeout_sec.                        *)

Overdue(d, late) ==
  late /\ ~ex[d].cancel /\ ex[d].purpose \in HomeKinds

MistakenFlown(e) == e.done >= e.legs

Flown(e) == ~e.cancel /\ e.done >= e.legs

OnTimer(d, late) ==
  LET e == [ex[d] EXCEPT !.cancel = @ \/ Overdue(d, late)]
      waiting == e.requesting \/ e.child
  IN  /\ e.active
      /\ \/ /\ e.cancel /\ ~waiting
            /\ FinishRoute(d, e, "CANCELED")
            /\ UNCHANGED goals
         \/ /\ Flown(e)
            /\ FinishRoute(d, e, "SUCCEEDED")
            /\ UNCHANGED goals
         \/ /\ Overdue(d, late) /\ waiting
            /\ Remember(d, e)
            /\ goals' = [goals EXCEPT ![d] = CancelHeld(d)]
            /\ Say(d, <<>>) /\ Ask(d, <<>>)
         \/ /\ ~e.cancel /\ e.done < e.legs /\ ~waiting
            /\ Remember(d, [e EXCEPT !.requesting = TRUE])
            /\ goals' = [goals EXCEPT ![d] = @ \cup
                 {[generation |-> e.generation, leg |-> e.done,
                   stage |-> "offered", cancel |-> FALSE]}]
            /\ Say(d, <<>>) /\ Ask(d, <<>>)

-----------------------------------------------------------------------------
(* The callbacks of a goal.  The server's answer, the end it gives a goal  *)
(* and the delay before the node hears of it are one choice.               *)

Serves(d, g) == ex[d].active /\ g.generation = ex[d].generation

Drop(d, g) == goals' = [goals EXCEPT ![d] = @ \ {g}]

MistakenLateCancel(d, g) == ex[d].cancel

(* A goal of a route that is gone is canceled as soon as it is accepted.   *)
LateCancel(d, g) == ~Serves(d, g) \/ ex[d].cancel

OnGoalAccepted(d, g) ==
  /\ g.stage = "offered"
  /\ goals' = [goals EXCEPT ![d] = (@ \ {g}) \cup
       {[g EXCEPT !.stage = "running", !.cancel = LateCancel(d, g)]}]
  /\ IF Serves(d, g)
     THEN Remember(d, [ex[d] EXCEPT !.requesting = FALSE, !.child = TRUE])
     ELSE UNCHANGED ex
  /\ Say(d, <<>>) /\ Ask(d, <<>>)

OnGoalRejected(d, g) ==
  /\ g.stage = "offered"
  /\ Drop(d, g)
  /\ IF Serves(d, g)
     THEN FinishRoute(d, ex[d], "FAILED")
     ELSE UNCHANGED ex /\ Say(d, <<>>) /\ Ask(d, <<>>)

OnGoalFeedback(d, g) ==
  /\ g.stage = "running"
  /\ Serves(d, g)
  /\ Remember(d, [ex[d] EXCEPT !.last = "EXECUTING"])
  /\ Say(d, <<MakeFeedback(ex[d], d, "EXECUTING")>>)
  /\ Ask(d, <<>>)
  /\ UNCHANGED goals

OnGoalResult(d, g, succeeded) ==
  /\ g.stage = "running"
  /\ Drop(d, g)
  /\ IF ~Serves(d, g) THEN UNCHANGED ex /\ Say(d, <<>>) /\ Ask(d, <<>>)
     ELSE IF succeeded
     THEN /\ Remember(d, [ex[d] EXCEPT !.child = FALSE, !.done = @ + 1])
          /\ Say(d, <<>>) /\ Ask(d, <<>>)
     ELSE FinishRoute(d, [ex[d] EXCEPT !.child = FALSE],
                      IF ex[d].cancel THEN "CANCELED" ELSE "FAILED")

(* A restart forgets everything.  The goals sent before may run on at the  *)
(* server, but the new node has no handle on them and hears no answer:     *)
(* they are not goals of this node any more.                               *)
Restart(d) ==
  /\ Remember(d, Idle)
  /\ goals' = [goals EXCEPT ![d] = {}]
  /\ Say(d, <<>>) /\ Ask(d, <<>>)

-----------------------------------------------------------------------------
Init ==
  /\ ex = [d \in Drones |-> Idle]
  /\ goals = [d \in Drones |-> {}]
  /\ said = [d \in Drones |-> <<>>]
  /\ asked = [d \in Drones |-> <<>>]

(* What the node does of itself, and what its action server makes it do.   *)
Local(d) ==
  \/ \E late \in BOOLEAN : OnTimer(d, late)
  \/ \E g \in goals[d] :
       \/ OnGoalAccepted(d, g)
       \/ OnGoalRejected(d, g)
       \/ OnGoalFeedback(d, g)
       \/ \E succeeded \in BOOLEAN : OnGoalResult(d, g, succeeded)

Deliveries(d) ==
  \E c \in Commands :
    \/ ex[d].generation < MaxGenerations /\ OnMissionCommand(d, c)
    \/ OnFlightCommand(d, c)

Next == \E d \in Drones : Local(d) \/ Deliveries(d) \/ Restart(d)

Spec == Init /\ [][Next]_vars

(* The executor spins its timer, and the action server answers every goal  *)
(* and ends every goal it was asked to cancel.                             *)
ServerAnswers(d) ==
  \E g \in goals[d] :
    \/ OnGoalAccepted(d, g)
    \/ OnGoalRejected(d, g)
    \/ \E succeeded \in BOOLEAN : g.cancel /\ OnGoalResult(d, g, succeeded)

Fairness ==
  \A d \in Drones :
    /\ WF_vars(\E late \in BOOLEAN : OnTimer(d, late))
    /\ WF_vars(ServerAnswers(d))

FairSpec == Spec /\ Fairness

-----------------------------------------------------------------------------
(* Properties.                                                             *)

TypeOK ==
  /\ ex \in [Drones -> Memory]
  /\ goals \in [Drones -> SUBSET Goal]
  /\ said \in [Drones -> Seq(Feedbacks)]
  /\ asked \in [Drones -> Seq(FlightRequests)]

(* A goal that nobody asked to cancel is the current leg of the route the  *)
(* node is flying: no replaced, preempted or finished route leaves the     *)
(* vehicle under a goal of its own (onMissionCommand, onFlightCommand,     *)
(* finishRoute and the late goal responses together).                      *)
NoOrphanGoal ==
  \A d \in Drones : \A g \in goals[d] :
    g.stage = "running" /\ ~g.cancel =>
      /\ ex[d].active /\ ex[d].child /\ ~ex[d].cancel
      /\ g.generation = ex[d].generation /\ g.leg = ex[d].done

(* The node waits only for goals that exist: while it believes a request   *)
(* or a goal is outstanding, exactly one of its generation is, in that     *)
(* stage; otherwise none is.                                               *)
WaitsForRealGoals ==
  \A d \in Drones :
    LET mine(stage) == {g \in goals[d] : Serves(d, g) /\ g.stage = stage}
    IN  /\ ex[d].requesting => \E g \in goals[d] : mine("offered") = {g}
        /\ ex[d].child => \E g \in goals[d] : mine("running") = {g}
        /\ ex[d].active /\ ~ex[d].requesting => mine("offered") = {}
        /\ ex[d].active /\ ~ex[d].child => mine("running") = {}
        /\ ~(ex[d].requesting /\ ex[d].child)

(* A route that was canceled, preempted or timed out never reports success *)
(* and so never triggers the LAND that ends a low-battery return.          *)
CanceledNeverSucceeds ==
  [][\A d \in Drones :
       ex[d].active /\ ex[d].cancel =>
         /\ \A i \in DOMAIN said'[d] : said'[d][i].state # "SUCCEEDED"
         /\ \A i \in DOMAIN asked'[d] : asked'[d][i] = "LAND" =>
              \E c \in Commands : c.kind = "LAND" /\ c.command = ex'[d].command]_vars

(* A route whose cancellation was accepted ends or is replaced.            *)
CancelEnds ==
  \A d \in Drones : ex[d].cancel ~> ~ex[d].cancel
=============================================================================
