---------------------------- MODULE ActionServer ----------------------------
(***************************************************************************)
(* What the clients of /takeoff, /land, /transition_vtol and /navigate_to  *)
(* rely on, whatever the node behind them does: one goal runs at a time,   *)
(* every accepted goal is ended exactly once, and in a way that its state  *)
(* allows: a goal whose cancellation was accepted never ends as succeeded, *)
(* and only such a goal ends as canceled.                                  *)
(*                                                                         *)
(* "goals" is the state of every goal handle ("free" before it is used and *)
(* again after its end), "ended" the results the last callback returned.   *)
(***************************************************************************)
CONSTANT Goals

VARIABLES goals, ended

vars == <<goals, ended>>

Live == {"executing", "canceling"}

Results == {"none", "succeeded", "aborted", "canceled"}

Allowed(status) ==
  CASE status = "executing" -> {"succeeded", "aborted"}
    [] status = "canceling" -> {"canceled", "aborted"}
    [] status = "free"      -> {"none"}

NoResults == [g \in Goals |-> "none"]

Init == goals = [g \in Goals |-> "free"] /\ ended = NoResults

(* Every goal that runs is ended by this step.                             *)
EndAll ==
  /\ ended' \in [Goals -> Results]
  /\ \A g \in Goals : ended'[g] \in Allowed(goals[g])

(* A new goal ends the one it preempts, in the same step.                  *)
Accept(g) ==
  /\ goals[g] = "free"
  /\ goals' = [h \in Goals |-> IF h = g THEN "executing" ELSE "free"]
  /\ EndAll

Cancel(g) ==
  /\ goals[g] = "executing"
  /\ goals' = [goals EXCEPT ![g] = "canceling"]
  /\ ended' = NoResults

End ==
  /\ goals' = [g \in Goals |-> "free"]
  /\ EndAll

Continue == UNCHANGED goals /\ ended' = NoResults

Next == End \/ Continue \/ \E g \in Goals : Accept(g) \/ Cancel(g)

Spec == Init /\ [][Next]_vars
=============================================================================
