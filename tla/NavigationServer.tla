-------------------------- MODULE NavigationServer --------------------------
(***************************************************************************)
(* navigation_server_node.cpp: the /navigate_to action server of a drone.  *)
(* It flies one goal, lets a newer goal preempt it, pauses while the pilot *)
(* overrides, and holds the altitude in multicopter mode when the chain of *)
(* goals has ended; LAND, DISARM and FORCE DISARM release that hold.       *)
(*                                                                         *)
(* "nav" is the node's memory, "report" the last VehicleState, "goals" the *)
(* goal handles as the clients see them, "ended" the results and           *)
(* "published" the motion intents and flight requests of the last          *)
(* callback.  One thread spins the node: a callback is one atomic step.    *)
(* active_goal_ keeps pointing at a goal that has ended, which is_active() *)
(* tells from a live one: here "active" is empty then.  The second         *)
(* validateTarget, in the timer, cannot fail: the geofence's origin is set *)
(* once, before the first goal is accepted, and its limits never change.   *)
(* Positions are kept as whether the goal is reached, times as whether the *)
(* period or the grace time is over.                                       *)
(* An operator called Mistaken... is a wrong version of the definition     *)
(* after it, to see the properties fail; no specification uses it.         *)
(***************************************************************************)
EXTENDS Naturals, Sequences

CONSTANT Goals     \* the goal handles, used again after their end

VARIABLES nav, report, goals, ended, published

vars == <<nav, report, goals, ended, published>>

Modes == {"MC", "FW", "OTHER"}

Reports == [valid: BOOLEAN, mode: Modes]

Memory ==
  [active: SUBSET Goals, fixedWing: BOOLEAN, pending: BOOLEAN, holding: BOOLEAN,
   asked: BOOLEAN, suppress: BOOLEAN, override: BOOLEAN, due: BOOLEAN]

NoResults == [g \in Goals |-> "none"]

Init ==
  /\ nav = [active |-> {}, fixedWing |-> FALSE, pending |-> FALSE, holding |-> FALSE,
            asked |-> FALSE, suppress |-> FALSE, override |-> FALSE, due |-> TRUE]
  /\ report = [valid |-> FALSE, mode |-> "MC"]
  /\ goals = [g \in Goals |-> "free"]
  /\ ended = NoResults
  /\ published = <<>>

KeepGoals == UNCHANGED goals /\ ended' = NoResults

-----------------------------------------------------------------------------
(* The action server.  A goal that is refused changes nothing.             *)

MistakenAdopted(g, fixedWing) ==
  [nav EXCEPT !.active = {g}, !.fixedWing = fixedWing, !.due = TRUE,
              !.suppress = FALSE]

Adopted(g, fixedWing) ==
  [nav EXCEPT !.active = {g}, !.fixedWing = fixedWing, !.due = TRUE,
              !.pending = FALSE, !.holding = FALSE, !.asked = FALSE,
              !.suppress = FALSE]

MistakenPreempted == {}

(* The goal that a newer one aborts, canceling or not.                     *)
Preempted == nav.active

AcceptGoal(g, fixedWing) ==
  /\ report.valid
  /\ goals[g] = "free"
  /\ nav' = Adopted(g, fixedWing)
  /\ goals' = [h \in Goals |-> IF h = g THEN "executing"
                               ELSE IF h \in Preempted THEN "free" ELSE goals[h]]
  /\ ended' = [h \in Goals |-> IF h \in Preempted THEN "aborted" ELSE "none"]
  /\ published' = <<>>
  /\ UNCHANGED report

CancelGoal(g) ==
  /\ goals[g] = "executing"
  /\ goals' = [goals EXCEPT ![g] = "canceling"]
  /\ ended' = NoResults
  /\ published' = <<>>
  /\ UNCHANGED <<nav, report>>

-----------------------------------------------------------------------------
(* The subscriptions.                                                      *)

OnState(r) ==
  /\ report' = r
  /\ published' = <<>>
  /\ KeepGoals /\ UNCHANGED nav

OnManualOverride(held) ==
  /\ nav' = [nav EXCEPT !.override = held]
  /\ published' = <<>>
  /\ KeepGoals /\ UNCHANGED report

Released ==
  [nav EXCEPT !.suppress = TRUE, !.pending = FALSE, !.holding = FALSE, !.asked = FALSE]

(* LAND, DISARM or FORCE_DISARM on /flight/request.                        *)
OnFlightTermination ==
  /\ nav' = Released
  /\ published' = <<"INACTIVE">>
  /\ KeepGoals /\ UNCHANGED report

-----------------------------------------------------------------------------
(* The 50 ms timer.                                                        *)

(* processArrivalHold, when no goal runs; "graceOver" says that            *)
(* goal_chain_grace_period_s has passed since the arrival.                 *)
ProcessArrivalHold(graceOver) ==
  LET holding == nav.holding \/ (nav.pending /\ graceOver)
      ask == holding /\ ~nav.asked /\ report.mode # "MC"
  IN  /\ nav.active = {}
      /\ nav' = [nav EXCEPT !.pending = @ /\ ~graceOver, !.holding = holding,
                            !.asked = @ \/ ask]
      /\ published' = (IF ask THEN <<"TO_MC">> ELSE <<>>)
                        \o <<IF holding THEN "HOLD" ELSE "INACTIVE">>
      /\ KeepGoals

FinishGoal(memory, result) ==
  /\ nav' = [memory EXCEPT !.active = {}]
  /\ goals' = [g \in Goals |-> IF g \in nav.active THEN "free" ELSE goals[g]]
  /\ ended' = [g \in Goals |-> IF g \in nav.active THEN result ELSE "none"]
  /\ published' = <<"INACTIVE">>

Canceling == \E g \in nav.active : goals[g] = "canceling"

(* A canceled goal is followed by a hold at once, except for a landing.    *)
CanceledHold ==
  IF nav.suppress THEN nav
  ELSE [nav EXCEPT !.pending = FALSE, !.holding = TRUE, !.asked = FALSE]

CancelTick == Canceling /\ FinishGoal(CanceledHold, "canceled")

PauseTick ==
  /\ nav.active # {} /\ ~Canceling /\ nav.override
  /\ published' = <<"INACTIVE">>
  /\ KeepGoals /\ UNCHANGED nav

Flies == nav.active # {} /\ ~Canceling /\ ~nav.override

MistakenArrived == nav

Arrived == [nav EXCEPT !.pending = TRUE, !.holding = FALSE, !.asked = FALSE]

ArriveTick == Flies /\ FinishGoal(Arrived, "succeeded")

FlyTick ==
  LET ask == nav.due /\ report.mode # IF nav.fixedWing THEN "FW" ELSE "MC"
      request == IF nav.fixedWing THEN "TO_FW" ELSE "TO_MC"
  IN  /\ Flies
      /\ nav' = [nav EXCEPT !.due = @ /\ ~ask]
      /\ published' = (IF ask THEN <<request>> ELSE <<>>) \o <<"FLY">>
      /\ KeepGoals

OnTimer(graceOver, arrived) ==
  /\ UNCHANGED report
  /\ \/ ProcessArrivalHold(graceOver)
     \/ CancelTick
     \/ PauseTick
     \/ arrived /\ ArriveTick
     \/ ~arrived /\ FlyTick

(* transition_request_period_s passes.                                     *)
PeriodPasses ==
  /\ ~nav.due
  /\ nav' = [nav EXCEPT !.due = TRUE]
  /\ published' = <<>>
  /\ KeepGoals /\ UNCHANGED report

-----------------------------------------------------------------------------
Clients ==
  \E g \in Goals :
    \/ \E fixedWing \in BOOLEAN : AcceptGoal(g, fixedWing)
    \/ CancelGoal(g)

Next ==
  \/ \E graceOver, arrived \in BOOLEAN : OnTimer(graceOver, arrived)
  \/ PeriodPasses
  \/ Clients
  \/ OnFlightTermination
  \/ \E held \in BOOLEAN : OnManualOverride(held)
  \/ \E r \in Reports : OnState(r)

Spec == Init /\ [][Next]_vars

(* The node spins its wall timer; the grace time is over some day.         *)
FairSpec == Spec /\ WF_vars(\E arrived \in BOOLEAN : OnTimer(TRUE, arrived))

-----------------------------------------------------------------------------
(* Properties.                                                             *)

TypeOK ==
  /\ nav \in Memory
  /\ report \in Reports
  /\ goals \in [Goals -> {"free", "executing", "canceling"}]

(* Exactly the goal that a client waits for is the active one, and while   *)
(* it runs no hold of an earlier goal is pending or active: one autonomous *)
(* intent at a time (handleAccepted against onTimer and its hold).         *)
OneAutonomousIntent ==
  /\ nav.active = {g \in Goals : goals[g] # "free"}
  /\ \A g, h \in nav.active : g = h
  /\ nav.active # {} => ~nav.pending /\ ~nav.holding

Server == INSTANCE ActionServer

ServesOneGoalAtATime == Server!Spec

(* When the last goal of a chain ends, no next one arrives and nobody      *)
(* lands or disarms, the node comes to hold: the drone is never left       *)
(* without an intent after an arrival or a cancellation.                   *)
ChainEndsInHold ==
  (\E g \in Goals : ended[g] \in {"succeeded", "canceled"}) ~>
    nav.holding \/ nav.active # {} \/ nav.suppress
=============================================================================
