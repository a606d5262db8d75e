--------------------------- MODULE NavigationClient ---------------------------
(***************************************************************************)
(* navigation_client_node.cpp, the terminal from which an operator flies   *)
(* one drone, composed with the navigation server that it is a client of.  *)
(*                                                                         *)
(* A thread reads the operator's lines, the executor thread runs the timer *)
(* and the answers; they meet at data_mutex_, so that a step is what one   *)
(* of them does under the lock.  A goal waits to be validated, then to be  *)
(* flown, and is named by the number the operator sees.  Another client,   *)
(* the route executor, may take the server away at any time.               *)
(*                                                                         *)
(* A request of the client is with the server ("asked"), then its answer   *)
(* is on the way back; the result of a goal is asked for by the action     *)
(* library once the goal is accepted.  Nothing is lost.  The services that *)
(* arm and set the APF only pass on an answer and are left out, as are the *)
(* terminal's lines, cruise speed and feedback.                            *)
(* An operator called Mistaken... is a wrong version of the definition     *)
(* after it, to see the properties fail; no specification uses it.         *)
(***************************************************************************)
EXTENDS NavigationServer, FiniteSets

CONSTANTS
  MaxGoals,     \* bound: goals the operator types in
  MaxTakeoffs   \* bound: takeoffs the operator asks for

Rival == 0      \* the goal of the other client

Ids == 1..MaxGoals

ASSUME ClientAssumption == MaxGoals \in Nat /\ MaxTakeoffs \in Nat /\ Goals = {Rival} \cup Ids

VARIABLES
  pending_validation, approved_goals,   \* the two deques
  active_goal, active_goal_handle,      \* sets of at most one goal
  next_goal_id,
  takeoff,       \* takeoff_in_progress_, and the takeoffs asked for
  validation,    \* the candidate validated and how far that is
  request,       \* how far the request of the active goal is
  results,       \* what became of the goals, for the client to fetch
  cancels,       \* goals whose cancellation the operator has under way
  settled        \* history: goals that came to an end before the client

queueVars == <<pending_validation, approved_goals>>

activeVars == <<active_goal, active_goal_handle, request>>

clientVars ==
  <<queueVars, activeVars, next_goal_id, takeoff, validation, results, cancels, settled>>

allVars == <<vars, clientVars>>

NoValidation == [goal |-> Rival, answer |-> "none"]

ClientInit ==
  /\ Init
  /\ pending_validation = <<>> /\ approved_goals = <<>>
  /\ active_goal = {} /\ active_goal_handle = {}
  /\ next_goal_id = 1
  /\ takeoff = [in_progress |-> FALSE, asked |-> 0]
  /\ validation = NoValidation
  /\ request = "none"
  /\ results = NoResults
  /\ cancels = {}
  /\ settled = {}

-----------------------------------------------------------------------------
(* The input thread.                                                       *)

ProposeGoal ==
  /\ next_goal_id <= MaxGoals
  /\ next_goal_id' = next_goal_id + 1
  /\ pending_validation' = Append(pending_validation, next_goal_id)
  /\ UNCHANGED <<vars, approved_goals, activeVars, takeoff, validation, results, cancels, settled>>

Waiting == {pending_validation[i] : i \in DOMAIN pending_validation}
             \cup {approved_goals[i] : i \in DOMAIN approved_goals}

(* Not the goal that is being validated just now.                          *)
ClearWaitingGoals ==
  /\ Waiting # {}
  /\ settled' = settled \cup Waiting
  /\ pending_validation' = <<>> /\ approved_goals' = <<>>
  /\ UNCHANGED <<vars, activeVars, next_goal_id, takeoff, validation, results, cancels>>

(* A goal that is requested has no handle yet: "no active goal to cancel". *)
CancelActiveGoal ==
  /\ ~active_goal_handle \subseteq cancels
  /\ cancels' = cancels \cup active_goal_handle
  /\ UNCHANGED <<vars, queueVars, activeVars, next_goal_id, takeoff, validation, results, settled>>

RequestTakeoff ==
  /\ ~takeoff.in_progress /\ takeoff.asked < MaxTakeoffs
  /\ takeoff' = [in_progress |-> TRUE, asked |-> takeoff.asked + 1]
  /\ UNCHANGED <<vars, queueVars, activeVars, next_goal_id, validation, results, cancels, settled>>

-----------------------------------------------------------------------------
(* The timer, in two steps: the lock is free between them.                 *)

MistakenProcessValidationQueue ==
  /\ validation = NoValidation /\ pending_validation # <<>>
  /\ validation' = [goal |-> pending_validation[Len(pending_validation)], answer |-> "asked"]
  /\ pending_validation' = SubSeq(pending_validation, 1, Len(pending_validation) - 1)
  /\ UNCHANGED <<vars, approved_goals, activeVars, next_goal_id, takeoff, results, cancels, settled>>

ProcessValidationQueue ==
  /\ validation = NoValidation /\ pending_validation # <<>>
  /\ validation' = [goal |-> Head(pending_validation), answer |-> "asked"]
  /\ pending_validation' = Tail(pending_validation)
  /\ UNCHANGED <<vars, approved_goals, activeVars, next_goal_id, takeoff, results, cancels, settled>>

DispatchNextGoal ==
  /\ ~takeoff.in_progress /\ request = "none" /\ active_goal = {} /\ approved_goals # <<>>
  /\ active_goal' = {Head(approved_goals)}
  /\ approved_goals' = Tail(approved_goals)
  /\ request' = "asked"
  /\ UNCHANGED <<vars, pending_validation, active_goal_handle, next_goal_id, takeoff,
                 validation, results, cancels, settled>>

-----------------------------------------------------------------------------
(* The answers.                                                            *)

(* The answer to ValidateGoal.                                             *)
OnValidation ==
  /\ validation.answer \in {"valid", "invalid"}
  /\ validation' = NoValidation
  /\ IF validation.answer = "valid"
     THEN approved_goals' = Append(approved_goals, validation.goal) /\ UNCHANGED settled
     ELSE settled' = settled \cup {validation.goal} /\ UNCHANGED approved_goals
  /\ UNCHANGED <<vars, pending_validation, activeVars, next_goal_id, takeoff, results, cancels>>

MistakenOnGoalResponse ==
  /\ request \in {"accepted", "rejected"}
  /\ request' = "none"
  /\ active_goal_handle' = IF request = "accepted" THEN active_goal ELSE {}
  /\ settled' = IF request = "accepted" THEN settled ELSE settled \cup active_goal
  /\ UNCHANGED <<vars, queueVars, active_goal, next_goal_id, takeoff, validation, results, cancels>>

(* goal_response_callback.                                                 *)
OnGoalResponse ==
  /\ request \in {"accepted", "rejected"}
  /\ request' = "none"
  /\ IF request = "accepted"
     THEN active_goal_handle' = active_goal /\ UNCHANGED <<active_goal, settled>>
     ELSE active_goal_handle' = {} /\ active_goal' = {} /\ settled' = settled \cup active_goal
  /\ UNCHANGED <<vars, queueVars, next_goal_id, takeoff, validation, results, cancels>>

(* result_callback.                                                        *)
OnResult(g) ==
  /\ g \in active_goal_handle /\ results[g] # "none"
  /\ active_goal' = {} /\ active_goal_handle' = {}
  /\ settled' = settled \cup {g}
  /\ UNCHANGED <<vars, queueVars, request, next_goal_id, takeoff, validation, results, cancels>>

(* The supervisor has refused the takeoff, or it is over.                  *)
OnTakeoffEnd ==
  /\ takeoff.in_progress
  /\ takeoff' = [takeoff EXCEPT !.in_progress = FALSE]
  /\ UNCHANGED <<vars, queueVars, activeVars, next_goal_id, validation, results, cancels, settled>>

-----------------------------------------------------------------------------
(* The server.                                                             *)

(* validateGoalService: the target lies within the limits or does not.     *)
ValidateGoalService ==
  /\ validation.answer = "asked"
  /\ \E answer \in {"valid", "invalid"} :
       /\ report.valid \/ answer = "invalid"
       /\ validation' = [validation EXCEPT !.answer = answer]
  /\ UNCHANGED <<vars, queueVars, activeVars, next_goal_id, takeoff, results, cancels, settled>>

(* What a step of the server ends, the client can fetch.                   *)
Fetchable == results' = [g \in Goals |-> IF ended'[g] # "none" THEN ended'[g] ELSE results[g]]

(* handleGoal validates again: what was valid once is so unless the        *)
(* vehicle's state is not.  The terminal's goals are for a fixed wing.     *)
HandleGoal ==
  /\ request = "asked"
  /\ \/ /\ \E g \in active_goal : AcceptGoal(g, TRUE)
        /\ Fetchable
        /\ request' = "accepted"
     \/ /\ ~report.valid
        /\ request' = "rejected"
        /\ UNCHANGED <<vars, results>>
  /\ UNCHANGED <<queueVars, active_goal, active_goal_handle, next_goal_id, takeoff,
                 validation, cancels, settled>>

(* A goal that has ended is not canceled any more.                         *)
HandleCancel ==
  /\ \E g \in cancels :
       /\ CancelGoal(g) \/ (goals[g] # "executing" /\ UNCHANGED vars)
       /\ cancels' = cancels \ {g}
  /\ Fetchable
  /\ UNCHANGED <<queueVars, activeVars, next_goal_id, takeoff, validation, settled>>

Spin(graceOver, arrived) ==
  /\ OnTimer(graceOver, arrived)
  /\ Fetchable
  /\ UNCHANGED <<queueVars, activeVars, next_goal_id, takeoff, validation, cancels, settled>>

(* The other client, the pilots and the vehicle.                           *)
Others ==
  /\ \/ \E fixedWing \in BOOLEAN : AcceptGoal(Rival, fixedWing)
     \/ CancelGoal(Rival)
     \/ OnFlightTermination
     \/ \E held \in BOOLEAN : OnManualOverride(held)
     \/ \E r \in Reports : OnState(r)
     \/ PeriodPasses
  /\ Fetchable
  /\ UNCHANGED <<queueVars, activeVars, next_goal_id, takeoff, validation, cancels, settled>>

-----------------------------------------------------------------------------
Operator == ProposeGoal \/ ClearWaitingGoals \/ CancelActiveGoal \/ RequestTakeoff

Answers == OnValidation \/ OnGoalResponse \/ (\E g \in Ids : OnResult(g)) \/ OnTakeoffEnd

ClientNext ==
  \/ Operator
  \/ ProcessValidationQueue \/ DispatchNextGoal
  \/ Answers
  \/ ValidateGoalService \/ HandleGoal \/ HandleCancel
  \/ \E graceOver, arrived \in BOOLEAN : Spin(graceOver, arrived)
  \/ Others

ClientSpec == ClientInit /\ [][ClientNext]_allVars

(* Both nodes spin their timers and serve what has arrived; the supervisor *)
(* ends every takeoff; the grace time is over some day.                    *)
Fairness ==
  /\ WF_allVars(ProcessValidationQueue) /\ WF_allVars(DispatchNextGoal)
  /\ WF_allVars(OnValidation) /\ WF_allVars(OnGoalResponse) /\ WF_allVars(OnTakeoffEnd)
  /\ \A g \in Ids : WF_allVars(OnResult(g))
  /\ WF_allVars(ValidateGoalService) /\ WF_allVars(HandleGoal)
  /\ WF_allVars(\E arrived \in BOOLEAN : Spin(TRUE, arrived))

FairClientSpec == ClientSpec /\ Fairness

-----------------------------------------------------------------------------
(* Properties.                                                             *)

(* "Goals are validated, queued, and executed in FIFO order": no goal is   *)
(* started while an earlier one still runs or waits, through both queues,  *)
(* the validation, takeoffs, clearing, canceling and the other client.     *)
GoalsInOrder ==
  [][\A g \in Ids : goals[g] = "free" /\ goals'[g] = "executing" =>
       \A h \in 1..(g - 1) : goals[h] = "free" /\ h \in settled]_allVars

(* While the server ends what it flies, every goal the operator types in   *)
(* is flown to an end, refused or cleared: the queue never stands still    *)
(* with goals in it.                                                       *)
EveryGoalSettles ==
  []<>(\A g \in Ids : goals[g] = "free") =>
    \A g \in Ids : next_goal_id > g ~> g \in settled
=============================================================================
