------------------------------ MODULE MotionTypes ------------------------------
(***************************************************************************)
(* MotionCommand, as the nodes between the pilots and PX4 see it.          *)
(*                                                                         *)
(* A velocity is not represented; "filtered" says that the obstacle solver *)
(* computed it.  "age" is no field of the message: it tells for how many   *)
(* timer periods the velocity has been known, and no node can read it, as  *)
(* each restamps what it passes on.                                        *)
(***************************************************************************)
EXTENDS Integers, FiniteSets

CONSTANTS
  Timeout,   \* command_timeout_s, the same in every node, in timer periods
  MaxAge     \* bound: older than this is not told apart

ASSUME MotionAssumption ==
  Timeout \in Nat \ {0} /\ MaxAge \in Nat /\ MaxAge > Timeout   \* at least 0.1 s: 5 periods

Sources == {"supervisor", "autonomous", "manual"}

Commands ==
  [active: BOOLEAN, source: Sources \cup {"none"}, override: BOOLEAN,
   filtered: BOOLEAN, age: 0..MaxAge]

Inactive ==
  [active |-> FALSE, source |-> "none", override |-> FALSE, filtered |-> FALSE,
   age |-> 0]

Intent(s, override) ==
  [Inactive EXCEPT !.active = TRUE, !.source = s, !.override = override]

(* No message yet is the same as an inactive one.                          *)
NoInput == [command |-> Inactive, since |-> 0]

Received(c) == [command |-> c, since |-> 0]

Fresh(input) == input.command.active /\ input.since <= Timeout

-----------------------------------------------------------------------------
(* One timer period later.  The age of an inactive command is nothing, and *)
(* a command that is past the timeout is not read again: it is forgotten.  *)
Later(n) == IF n < MaxAge THEN n + 1 ELSE MaxAge

OlderCommand(c) == IF c.active THEN [c EXCEPT !.age = Later(@)] ELSE c

Older(input) ==
  IF input.command.active /\ input.since < Timeout
  THEN [command |-> OlderCommand(input.command), since |-> input.since + 1]
  ELSE NoInput
=============================================================================
