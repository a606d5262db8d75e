------------------------------ MODULE CommandMux ------------------------------
(***************************************************************************)
(* command_mux_node.cpp: of the three intents it selects one in every      *)
(* timer period and tells the navigation server of a manual override.      *)
(* An operator called Mistaken... is a wrong version of the definition     *)
(* after it, to see the properties fail; no specification uses it.         *)
(***************************************************************************)
EXTENDS MotionTypes

VARIABLES intents, manual_override

Init ==
  /\ intents = [s \in Sources |-> NoInput]
  /\ manual_override = FALSE

OnIntent(s, c) ==
  /\ intents' = [intents EXCEPT ![s] = Received(c)]
  /\ UNCHANGED manual_override

ManualOverride == Fresh(intents["manual"]) /\ intents["manual"].command.override

MistakenRank(s) ==
  CASE s = "supervisor" -> 2
    [] s = "autonomous" -> 1
    [] OTHER -> IF ManualOverride THEN 3 ELSE 0

(* A joystick that does not insist comes last.                             *)
Rank(s) ==
  CASE s = "supervisor" -> 3
    [] s = "autonomous" -> 1
    [] OTHER -> IF ManualOverride THEN 2 ELSE 0

Selected ==
  LET fresh == {s \in Sources : Fresh(intents[s])}
  IN  IF fresh = {} THEN Inactive
      ELSE intents[CHOOSE s \in fresh : \A r \in fresh : Rank(r) <= Rank(s)].command

(* The timer publishes Selected.                                           *)
OnTimer ==
  /\ manual_override' = ManualOverride
  /\ UNCHANGED intents
=============================================================================
