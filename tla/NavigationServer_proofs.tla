----------------------- MODULE NavigationServer_proofs -----------------------
(***************************************************************************)
(* For every set of goals: the navigation server flies one goal at a time, *)
(* never beside a hold, and behaves as an ActionServer; what is proved     *)
(* about the server uses nothing that its client assumes.  For every       *)
(* number of goals: the terminal flies them in the order they were typed.  *)
(***************************************************************************)
EXTENDS NavigationClient, SequenceTheorems, TLAPS

(* Inductive: the timer ends the active goals, so only together with the   *)
(* claim that these are the live ones is every goal ended once.            *)
IInv == TypeOK /\ OneAutonomousIntent

LEMMA ActiveGoals ==
  ASSUME IInv
  PROVE  /\ nav \in Memory /\ report \in Reports
         /\ goals \in [Goals -> {"free", "executing", "canceling"}]
         /\ \A g \in Goals : g \in nav.active <=> goals[g] # "free"
         /\ \A g, h \in nav.active : g = h
         /\ nav.active # {} => ~nav.pending /\ ~nav.holding
BY DEF IInv, TypeOK, OneAutonomousIntent

(* A callback that leaves the goals alone.                                 *)
Quiet ==
  /\ KeepGoals
  /\ nav' \in Memory /\ report' \in Reports
  /\ nav'.active = nav.active
  /\ nav.active # {} => ~nav'.pending /\ ~nav'.holding

LEMMA QuietStep ==
  ASSUME IInv, Quiet
  PROVE  IInv' /\ Server!Continue
BY ActiveGoals DEF Quiet, KeepGoals, IInv, TypeOK, OneAutonomousIntent, NoResults,
                   Server!Continue, Server!NoResults

-----------------------------------------------------------------------------
(* The timer.                                                              *)

LEMMA FinishStep ==
  ASSUME IInv, NEW m \in Memory, NEW result \in {"succeeded", "aborted", "canceled"},
         FinishGoal(m, result), UNCHANGED report,
         result = "canceled" => Canceling,
         result = "succeeded" => ~Canceling
  PROVE  IInv' /\ Server!End
<1>1. /\ goals' = [g \in Goals |-> "free"]
      /\ ended' = [g \in Goals |-> IF goals[g] # "free" THEN result ELSE "none"]
  BY ActiveGoals DEF FinishGoal
<1>2. nav' \in Memory /\ nav'.active = {}
  BY DEF FinishGoal, Memory
<1>3. IInv'
  BY <1>1, <1>2, ActiveGoals DEF IInv, TypeOK, OneAutonomousIntent
<1>4. ASSUME NEW g \in Goals
      PROVE  ended'[g] \in Server!Allowed(goals[g])
  <2>1. goals[g] # "free" => (goals[g] = "canceling" <=> Canceling)
    BY ActiveGoals DEF Canceling
  <2> QED
    BY <1>1, <2>1, ActiveGoals DEF Server!Allowed
<1>5. ended' \in [Goals -> Server!Results]
  BY <1>1 DEF Server!Results
<1> QED
  BY <1>1, <1>3, <1>4, <1>5 DEF Server!End, Server!EndAll

LEMMA TimerStep ==
  ASSUME IInv, NEW graceOver \in BOOLEAN, NEW arrived \in BOOLEAN,
         OnTimer(graceOver, arrived)
  PROVE  IInv' /\ (Server!Continue \/ Server!End)
<1>0. nav \in Memory /\ UNCHANGED report
  BY ActiveGoals DEF OnTimer
<1>1. CASE ProcessArrivalHold(graceOver)
  <2>1. nav' \in Memory
    BY <1>0, <1>1 DEF ProcessArrivalHold, Memory
  <2>2. nav.active = {} /\ nav'.active = nav.active
    BY <1>0, <1>1 DEF ProcessArrivalHold, Memory
  <2>3. KeepGoals
    BY <1>1 DEF ProcessArrivalHold
  <2> QED
    BY <1>0, <2>1, <2>2, <2>3, ActiveGoals, QuietStep DEF Quiet
<1>2. CASE CancelTick
  <2>1. CanceledHold \in Memory
    BY <1>0 DEF CanceledHold, Memory
  <2> QED
    BY <1>0, <1>2, <2>1, FinishStep DEF CancelTick
<1>3. CASE PauseTick
  BY <1>0, <1>3, ActiveGoals, QuietStep DEF PauseTick, Quiet
<1>4. CASE ArriveTick
  <2>1. Arrived \in Memory
    BY <1>0 DEF Arrived, Memory
  <2> QED
    BY <1>0, <1>4, <2>1, FinishStep DEF ArriveTick, Flies
<1>5. CASE FlyTick
  <2>1. /\ nav' \in Memory /\ nav'.active = nav.active
        /\ nav'.pending = nav.pending /\ nav'.holding = nav.holding
    BY <1>0, <1>5 DEF FlyTick, Memory
  <2>2. KeepGoals
    BY <1>5 DEF FlyTick
  <2> QED
    BY <1>0, <2>1, <2>2, ActiveGoals, QuietStep DEF Quiet
<1> QED
  BY <1>1, <1>2, <1>3, <1>4, <1>5 DEF OnTimer

-----------------------------------------------------------------------------
(* The action server.                                                      *)

LEMMA AcceptStep ==
  ASSUME IInv, NEW g \in Goals, NEW fixedWing \in BOOLEAN, AcceptGoal(g, fixedWing)
  PROVE  IInv' /\ Server!Accept(g)
<1>1. /\ goals[g] = "free"
      /\ goals' = [h \in Goals |-> IF h = g THEN "executing" ELSE "free"]
      /\ ended' = [h \in Goals |-> IF goals[h] # "free" THEN "aborted" ELSE "none"]
  BY ActiveGoals DEF AcceptGoal, Preempted
<1>2. nav' \in Memory /\ nav'.active = {g} /\ ~nav'.pending /\ ~nav'.holding
  BY ActiveGoals DEF AcceptGoal, Adopted, Memory
<1>3. IInv'
  <2>1. report' = report
    BY DEF AcceptGoal
  <2>2. TypeOK'
    BY <1>1, <1>2, <2>1, ActiveGoals DEF TypeOK
  <2>3. nav'.active = {h \in Goals : goals'[h] # "free"}
    BY <1>1, <1>2
  <2> QED
    BY <1>2, <2>2, <2>3 DEF IInv, OneAutonomousIntent
<1>4. /\ ended' \in [Goals -> Server!Results]
      /\ \A h \in Goals : ended'[h] \in Server!Allowed(goals[h])
  BY <1>1, ActiveGoals DEF Server!Results, Server!Allowed
<1> QED
  BY <1>1, <1>3, <1>4 DEF Server!Accept, Server!EndAll

LEMMA CancelStep ==
  ASSUME IInv, NEW g \in Goals, CancelGoal(g)
  PROVE  IInv' /\ Server!Cancel(g)
<1>1. /\ goals[g] = "executing" /\ goals' = [goals EXCEPT ![g] = "canceling"]
      /\ UNCHANGED <<nav, report>>
  BY DEF CancelGoal
<1>2. \A h \in Goals : goals'[h] # "free" <=> goals[h] # "free"
  BY <1>1, ActiveGoals
<1>3. IInv'
  BY <1>1, <1>2 DEF IInv, TypeOK, OneAutonomousIntent
<1> QED
  BY <1>3 DEF CancelGoal, NoResults, Server!Cancel, Server!NoResults

-----------------------------------------------------------------------------
(* Every step, and the theorems.                                           *)

LEMMA EveryStep ==
  ASSUME IInv, [Next]_vars
  PROVE  IInv' /\ [Server!Next]_Server!vars
<1>0. nav \in Memory /\ report \in Reports
  BY ActiveGoals
<1>1. ASSUME NEW graceOver \in BOOLEAN, NEW arrived \in BOOLEAN,
             OnTimer(graceOver, arrived)
      PROVE  IInv' /\ Server!Next
  BY <1>1, TimerStep DEF Server!Next
<1>2. CASE PeriodPasses
  <2>1. /\ nav' \in Memory /\ nav'.active = nav.active
        /\ nav'.pending = nav.pending /\ nav'.holding = nav.holding
    BY <1>0, <1>2 DEF PeriodPasses, Memory
  <2> QED
    BY <1>0, <1>2, <2>1, ActiveGoals, QuietStep DEF PeriodPasses, Quiet, Server!Next
<1>3. CASE Clients
  BY <1>3, AcceptStep, CancelStep DEF Clients, Server!Next
<1>4. CASE OnFlightTermination
  <2>1. /\ nav' \in Memory /\ nav'.active = nav.active
        /\ ~nav'.pending /\ ~nav'.holding
    BY <1>0, <1>4 DEF OnFlightTermination, Released, Memory
  <2> QED
    BY <1>0, <1>4, <2>1, QuietStep DEF OnFlightTermination, Quiet, Server!Next
<1>5. ASSUME NEW held \in BOOLEAN, OnManualOverride(held)
      PROVE  IInv' /\ Server!Next
  <2>1. /\ nav' \in Memory /\ nav'.active = nav.active
        /\ nav'.pending = nav.pending /\ nav'.holding = nav.holding
    BY <1>0, <1>5 DEF OnManualOverride, Memory
  <2> QED
    BY <1>0, <1>5, <2>1, ActiveGoals, QuietStep DEF OnManualOverride, Quiet, Server!Next
<1>6. ASSUME NEW r \in Reports, OnState(r)
      PROVE  IInv' /\ Server!Next
  BY <1>0, <1>6, ActiveGoals, QuietStep DEF OnState, Quiet, Server!Next
<1>7. CASE UNCHANGED vars
  BY <1>7 DEF vars, IInv, TypeOK, OneAutonomousIntent, Server!vars
<1> QED
  BY <1>1, <1>2, <1>3, <1>4, <1>5, <1>6, <1>7 DEF Next

LEMMA Beginning == Init => IInv /\ Server!Init
BY DEF Init, IInv, TypeOK, Memory, Reports, Modes, OneAutonomousIntent, NoResults,
       Server!Init, Server!NoResults

(* The navigation server's memory always has its type.                     *)
THEOREM NavigationTypes == Spec => []TypeOK
<1>1. IInv /\ [Next]_vars => IInv'
  BY EveryStep
<1>2. IInv => TypeOK
  BY DEF IInv
<1> QED
  BY <1>1, <1>2, Beginning, PTL DEF Spec

(* The goal that a client waits for is the one that is flown, and no hold  *)
(* of an earlier goal runs beside it, however goals preempt each other.    *)
THEOREM NavigationHasOneIntent == Spec => []OneAutonomousIntent
<1>1. IInv /\ [Next]_vars => IInv'
  BY EveryStep
<1>2. IInv => OneAutonomousIntent
  BY DEF IInv
<1> QED
  BY <1>1, <1>2, Beginning, PTL DEF Spec

(* The navigation server implements an ActionServer: every goal ends once, *)
(* a canceled one never as succeeded.                                      *)
THEOREM NavigationServesOneGoal == Spec => ServesOneGoalAtATime
<1>1. IInv /\ [Next]_vars => IInv' /\ [Server!Next]_Server!vars
  BY EveryStep
<1> QED
  BY <1>1, Beginning, PTL DEF Spec, ServesOneGoalAtATime, Server!Spec

-----------------------------------------------------------------------------
(* The terminal: what its queues hold.                                     *)
Elements(s) == {s[i] : i \in DOMAIN s}

Increasing(s) == \A i, j \in DOMAIN s : i < j => s[i] < s[j]

Before(S, T) == \A a \in S, b \in T : a < b

Pending == Elements(pending_validation)

Approved == Elements(approved_goals)

Validated == IF validation.answer = "none" THEN {} ELSE {validation.goal}

QueueTypes ==
  /\ pending_validation \in Seq(Ids) /\ approved_goals \in Seq(Ids)
  /\ active_goal \subseteq Ids /\ active_goal_handle \subseteq active_goal
  /\ \A a, b \in active_goal : a = b
  /\ cancels \subseteq Ids
  /\ Validated \subseteq Ids
  /\ validation \in [goal : Nat, answer : {"none", "asked", "valid", "invalid"}]
  /\ next_goal_id \in Nat \ {0}

(* The stages of a goal: pending, validated, approved, active.  A goal of  *)
(* a later stage was typed in earlier.                                     *)
QueueOrder ==
  /\ Increasing(pending_validation) /\ Increasing(approved_goals)
  /\ Before(active_goal, Approved) /\ Before(active_goal, Validated) /\ Before(active_goal, Pending)
  /\ Before(Approved, Validated) /\ Before(Approved, Pending) /\ Before(Validated, Pending)
  /\ Before(active_goal, {next_goal_id}) /\ Before(Approved, {next_goal_id})
  /\ Before(Validated, {next_goal_id}) /\ Before(Pending, {next_goal_id})

(* A goal that was typed in has a stage until it is settled.               *)
Accounted ==
  \A h \in Ids : h < next_goal_id =>
    h \in settled \/ h \in active_goal \/ h \in Approved \/ h \in Validated \/ h \in Pending

(* A goal that the server flies is the active one, of which the server has *)
(* not answered "rejected"; a goal has a result once it was flown.         *)
Served ==
  \A h \in Ids :
    /\ goals[h] # "free" => h \in active_goal /\ request \in {"none", "accepted"}
    /\ results[h] # "none" =>
         /\ goals[h] = "free" /\ h < next_goal_id
         /\ h \notin Approved /\ h \notin Validated /\ h \notin Pending
         /\ ~(h \in active_goal /\ request = "asked")
    /\ ended[h] # "none" => results[h] # "none"

CInv == IInv /\ QueueTypes /\ QueueOrder /\ Accounted /\ Served

LEMMA IdsAreNumbers == Ids \subseteq Nat /\ Ids \subseteq Goals /\ Rival \notin Ids
BY ClientAssumption DEF Ids, Rival

(* What enters a queue at its end, and what leaves it at its head.         *)
LEMMA AppendElements ==
  ASSUME NEW s \in Seq(Ids), NEW x \in Ids, Increasing(s), Before(Elements(s), {x})
  PROVE  /\ Append(s, x) \in Seq(Ids) /\ Increasing(Append(s, x))
         /\ Elements(Append(s, x)) = Elements(s) \cup {x}
<1>. DEFINE t == Append(s, x)
<1>1. /\ t \in Seq(Ids) /\ Len(t) = Len(s) + 1 /\ t[Len(s) + 1] = x
      /\ \A i \in 1..Len(s) : t[i] = s[i]
  BY AppendProperties
<1>2. DOMAIN s = 1..Len(s) /\ DOMAIN t = 1..(Len(s) + 1) /\ Len(s) \in Nat
  BY <1>1
<1>3. \A i \in DOMAIN s : s[i] < x
  BY DEF Before, Elements
<1>. HIDE DEF t
<1>4. Increasing(t)
  BY <1>1, <1>2, <1>3 DEF Increasing
<1>5. Elements(t) = Elements(s) \cup {x}
  BY <1>1, <1>2 DEF Elements
<1>. QED
  BY <1>1, <1>4, <1>5 DEF t

LEMMA TailElements ==
  ASSUME NEW s \in Seq(Ids), s # <<>>, Increasing(s)
  PROVE  /\ Head(s) \in Ids /\ Tail(s) \in Seq(Ids) /\ Increasing(Tail(s))
         /\ Elements(s) = {Head(s)} \cup Elements(Tail(s))
         /\ Before({Head(s)}, Elements(Tail(s)))
<1>. DEFINE t == Tail(s)
<1>1. /\ Head(s) \in Ids /\ t \in Seq(Ids) /\ Len(t) = Len(s) - 1
      /\ \A i \in 1..Len(t) : t[i] = s[i + 1]
  BY HeadTailProperties
<1>2. /\ DOMAIN s = 1..Len(s) /\ DOMAIN t = 1..(Len(s) - 1)
      /\ Len(s) \in Nat \ {0} /\ Head(s) = s[1]
  BY <1>1
<1>. HIDE DEF t
<1>3. \A i \in DOMAIN t : t[i] = s[i + 1] /\ i + 1 \in DOMAIN s
  BY <1>1, <1>2
<1>4. Increasing(t)
  BY <1>2, <1>3 DEF Increasing
<1>5. Before({s[1]}, Elements(t))
  BY <1>2, <1>3 DEF Increasing, Before, Elements
<1>6. \A j \in DOMAIN s : j = 1 \/ (j - 1 \in DOMAIN t /\ s[j] = t[j - 1])
  BY <1>2, <1>3
<1>7. Elements(s) = {s[1]} \cup Elements(t)
  BY <1>2, <1>3, <1>6 DEF Elements
<1>. QED
  BY <1>1, <1>2, <1>4, <1>5, <1>7 DEF t

LEMMA QueuedGoals ==
  ASSUME pending_validation \in Seq(Ids), approved_goals \in Seq(Ids)
  PROVE  Pending \subseteq Ids /\ Approved \subseteq Ids
BY DEF Pending, Approved, Elements

LEMMA EmptyQueue == <<>> \in Seq(Ids) /\ Increasing(<<>>) /\ Elements(<<>>) = {}
BY DEF Increasing, Elements

-----------------------------------------------------------------------------
(* The server's steps, the acceptance of a goal of the terminal apart.     *)
ServesOthers ==
  \/ Server!Continue \/ Server!End
  \/ (\E g \in Goals : Server!Cancel(g))
  \/ Server!Accept(Rival)

QueueKept == UNCHANGED <<pending_validation, approved_goals, active_goal, next_goal_id, validation>>

LEMMA QueueKeptSame ==
  ASSUME QueueKept
  PROVE  /\ Pending' = Pending /\ Approved' = Approved /\ Validated' = Validated
         /\ QueueOrder => QueueOrder'
         /\ Accounted /\ settled \subseteq settled' => Accounted'
<1>1. Pending' = Pending /\ Approved' = Approved /\ Validated' = Validated
  BY DEF QueueKept, Pending, Approved, Validated
<1>2. QueueOrder => QueueOrder'
  BY <1>1 DEF QueueKept, QueueOrder
<1>3. Accounted /\ settled \subseteq settled' => Accounted'
  BY <1>1 DEF QueueKept, Accounted
<1>. QED
  BY <1>1, <1>2, <1>3

LEMMA ServesStep ==
  ASSUME CInv, ServesOthers, Fetchable, QueueKept, request' = request
  PROVE  /\ Served'
         /\ \A h \in Ids : goals[h] = "free" => goals'[h] # "executing"
<1>1. ASSUME NEW h \in Ids
      PROVE  /\ goals[h] = "free" => goals'[h] = "free" /\ ended'[h] = "none"
             /\ ended'[h] # "none" => goals'[h] = "free"
             /\ goals'[h] # "free" => goals[h] # "free"
  <2>1. /\ h \in Goals /\ Rival \in Goals /\ h # Rival
        /\ goals \in [Goals -> {"free", "executing", "canceling"}]
    BY IdsAreNumbers, ClientAssumption, ActiveGoals DEF CInv
  <2>2. CASE Server!Continue
    BY <2>1, <2>2 DEF Server!Continue, Server!NoResults
  <2>3. CASE Server!End
    BY <2>1, <2>3 DEF Server!End, Server!EndAll, Server!Allowed
  <2>4. CASE \E g \in Goals : Server!Cancel(g)
    BY <2>1, <2>4 DEF Server!Cancel, Server!NoResults
  <2>5. CASE Server!Accept(Rival)
    BY <2>1, <2>5 DEF Server!Accept, Server!EndAll, Server!Allowed
  <2>. QED
    BY <2>2, <2>3, <2>4, <2>5 DEF ServesOthers
<1>2. ASSUME NEW h \in Ids
      PROVE  results'[h] = IF ended'[h] # "none" THEN ended'[h] ELSE results[h]
  BY IdsAreNumbers DEF Fetchable
<1>3. /\ Pending' = Pending /\ Approved' = Approved /\ Validated' = Validated
      /\ active_goal' = active_goal /\ next_goal_id' = next_goal_id /\ request' = request
  BY QueueKeptSame DEF QueueKept
<1>4. ASSUME NEW h \in Ids, goals[h] # "free"
      PROVE  /\ h \in active_goal /\ request \in {"none", "accepted"} /\ h < next_goal_id
             /\ h \notin Approved /\ h \notin Validated /\ h \notin Pending
  <2>1. h \in active_goal /\ request \in {"none", "accepted"}
    BY <1>4 DEF CInv, Served
  <2>2. ~(h < h)
    BY IdsAreNumbers
  <2>. QED
    BY <2>1, <2>2 DEF CInv, QueueOrder, Before
<1>. QED
  BY <1>1, <1>2, <1>3, <1>4 DEF CInv, Served

(* The server's steps that are its own or another client's.                *)
LEMMA OwnSteps ==
  ASSUME IInv
  PROVE  /\ \A graceOver, arrived \in BOOLEAN :
              OnTimer(graceOver, arrived) => IInv' /\ ServesOthers
         /\ \A g \in Goals : CancelGoal(g) => IInv' /\ ServesOthers
         /\ \A fixedWing \in BOOLEAN : AcceptGoal(Rival, fixedWing) => IInv' /\ ServesOthers
         /\ OnFlightTermination => IInv' /\ ServesOthers
         /\ \A held \in BOOLEAN : OnManualOverride(held) => IInv' /\ ServesOthers
         /\ \A r \in Reports : OnState(r) => IInv' /\ ServesOthers
         /\ PeriodPasses => IInv' /\ ServesOthers
<1>1. KeepGoals => Server!Continue
  BY DEF KeepGoals, NoResults, Server!Continue, Server!NoResults
<1>2. \A graceOver, arrived \in BOOLEAN :
        OnTimer(graceOver, arrived) => IInv' /\ ServesOthers
  BY TimerStep DEF ServesOthers
<1>3. \A g \in Goals : CancelGoal(g) => IInv' /\ ServesOthers
  BY CancelStep DEF ServesOthers
<1>4. \A fixedWing \in BOOLEAN : AcceptGoal(Rival, fixedWing) => IInv' /\ ServesOthers
  BY AcceptStep, ClientAssumption DEF ServesOthers
<1>5. OnFlightTermination => IInv' /\ ServesOthers
  BY <1>1, EveryStep DEF OnFlightTermination, Next, ServesOthers
<1>6. \A held \in BOOLEAN : OnManualOverride(held) => IInv' /\ ServesOthers
  BY <1>1, EveryStep DEF OnManualOverride, Next, ServesOthers
<1>7. \A r \in Reports : OnState(r) => IInv' /\ ServesOthers
  BY <1>1, EveryStep DEF OnState, Next, ServesOthers
<1>8. PeriodPasses => IInv' /\ ServesOthers
  BY <1>1, EveryStep DEF PeriodPasses, Next, ServesOthers
<1>. QED
  BY <1>2, <1>3, <1>4, <1>5, <1>6, <1>7, <1>8

(* What no step but the acceptance of a goal of the terminal does.         *)
StartsNone == \A h \in Ids : goals[h] = "free" => goals'[h] # "executing"

LEMMA ServerSideStep ==
  ASSUME CInv, IInv', ServesOthers, Fetchable, QueueKept,
         UNCHANGED <<active_goal_handle, request, settled>>, cancels' \subseteq cancels
  PROVE  CInv' /\ StartsNone
<1>1. Served' /\ StartsNone
  BY ServesStep DEF StartsNone
<1>2. QueueOrder' /\ Accounted'
  BY QueueKeptSame DEF CInv
<1>3. QueueTypes'
  BY QueueKeptSame DEF CInv, QueueTypes, QueueKept
<1>. QED
  BY <1>1, <1>2, <1>3 DEF CInv

LEMMA SpinStep ==
  ASSUME CInv, NEW graceOver \in BOOLEAN, NEW arrived \in BOOLEAN, Spin(graceOver, arrived)
  PROVE  CInv' /\ StartsNone
BY OwnSteps, ServerSideStep
   DEF Spin, CInv, QueueKept, queueVars, activeVars

LEMMA OthersStep ==
  ASSUME CInv, Others
  PROVE  CInv' /\ StartsNone
<1>1. IInv' /\ ServesOthers
  BY OwnSteps, ClientAssumption DEF Others, CInv
<1>. QED
  BY <1>1, ServerSideStep DEF Others, QueueKept, queueVars, activeVars

(* A step that leaves the server alone.                                    *)
LEMMA ServerKept ==
  ASSUME IInv, UNCHANGED vars
  PROVE  IInv' /\ goals' = goals /\ ended' = ended /\ StartsNone
<1>1. IInv'
  BY EveryStep
<1>. QED
  BY <1>1 DEF vars, StartsNone

LEMMA CancelRequestStep ==
  ASSUME CInv, HandleCancel
  PROVE  CInv' /\ StartsNone
<1>1. PICK g \in cancels :
        /\ CancelGoal(g) \/ (goals[g] # "executing" /\ UNCHANGED vars)
        /\ cancels' = cancels \ {g}
  BY DEF HandleCancel
<1>2. /\ Fetchable /\ QueueKept /\ UNCHANGED <<active_goal_handle, request, settled>>
      /\ g \in Goals
  BY <1>1, IdsAreNumbers DEF HandleCancel, QueueKept, queueVars, activeVars, CInv, QueueTypes
<1>3. CASE CancelGoal(g)
  BY <1>1, <1>2, <1>3, OwnSteps, ServerSideStep DEF CInv
<1>4. CASE UNCHANGED vars
  <2>1. IInv' /\ goals' = goals /\ ended' = ended /\ StartsNone
    BY <1>4, ServerKept DEF CInv
  <2>2. \A h \in Ids : results'[h] # "none" <=> results[h] # "none"
    BY <1>2, <2>1, IdsAreNumbers DEF Fetchable, CInv, Served
  <2>3. Served'
    BY <1>2, <2>1, <2>2, QueueKeptSame DEF CInv, Served, QueueKept
  <2>4. QueueOrder' /\ Accounted'
    BY <1>2, QueueKeptSame DEF CInv
  <2>5. QueueTypes'
    BY <1>1, <1>2, QueueKeptSame DEF CInv, QueueTypes, QueueKept
  <2>. QED
    BY <2>1, <2>3, <2>4, <2>5 DEF CInv
<1>. QED
  BY <1>1, <1>3, <1>4

(* Only here does a goal of the terminal start: the active one, when all   *)
(* that were typed in before it are settled.                               *)
StartsInOrder ==
  \A g \in Ids : goals[g] = "free" /\ goals'[g] = "executing" =>
    \A h \in 1..(g - 1) : goals[h] = "free" /\ h \in settled

LEMMA GoalRequestStep ==
  ASSUME CInv, HandleGoal
  PROVE  CInv' /\ StartsInOrder
<1>1. /\ QueueKept /\ UNCHANGED <<active_goal_handle, settled, cancels>> /\ request = "asked"
  BY DEF HandleGoal, QueueKept, queueVars
<1>2. QueueOrder' /\ Accounted'
  BY <1>1, QueueKeptSame DEF CInv
<1>3. QueueTypes'
  BY <1>1, QueueKeptSame DEF CInv, QueueTypes, QueueKept
<1>4. CASE request' = "rejected"
  <2>1. UNCHANGED <<vars, results>>
    BY <1>4 DEF HandleGoal
  <2>2. IInv' /\ goals' = goals /\ ended' = ended /\ StartsNone
    BY <2>1, ServerKept DEF CInv
  <2>3. Served'
    BY <1>1, <1>4, <2>1, <2>2, QueueKeptSame DEF CInv, Served, QueueKept
  <2>. QED
    BY <1>2, <1>3, <2>2, <2>3 DEF CInv, StartsNone, StartsInOrder
<1>5. CASE request' = "accepted"
  <2>1. PICK g \in active_goal : AcceptGoal(g, TRUE)
    BY <1>5 DEF HandleGoal
  <2>2. Fetchable
    BY <1>5 DEF HandleGoal
  <2>3. g \in Ids /\ g \in Goals /\ g \in Nat /\ (\A h \in active_goal : h = g)
    BY <2>1, IdsAreNumbers DEF CInv, QueueTypes
  <2>4. IInv' /\ Server!Accept(g)
    BY <2>1, <2>3, AcceptStep DEF CInv
  <2>5. ASSUME NEW h \in Ids
        PROVE  /\ goals[h] = "free" /\ ended'[h] = "none"
               /\ goals'[h] # "free" => h = g
               /\ results'[h] = results[h]
    <3>1. goals[h] = "free" /\ h \in Goals
      BY <1>1, IdsAreNumbers DEF CInv, Served
    <3>2. ended'[h] = "none" /\ (goals'[h] # "free" => h = g)
      BY <2>4, <3>1 DEF Server!Accept, Server!EndAll, Server!Allowed
    <3>3. results'[h] = results[h]
      BY <2>2, <3>1, <3>2 DEF Fetchable
    <3>. QED
      BY <3>1, <3>2, <3>3
  <2>6. results[g] = "none"
    BY <1>1, <2>1, <2>3 DEF CInv, Served
  <2>7. Served'
    BY <1>1, <1>5, <2>1, <2>5, <2>6, QueueKeptSame DEF CInv, Served, QueueKept
  <2>8. ASSUME NEW h \in 1..(g - 1)
        PROVE  h \in settled /\ h \in Ids
    <3>1. h \in Ids /\ h \in Nat /\ h < g
      BY <2>3, ClientAssumption DEF Ids
    <3>2. h < next_goal_id
      BY <2>1, <2>3, <3>1 DEF CInv, QueueOrder, QueueTypes, Before
    <3>3. h \notin active_goal /\ h \notin Approved /\ h \notin Validated /\ h \notin Pending
      <4>1. ~(g < h)
        BY <2>3, <3>1
      <4>. QED
        BY <2>1, <2>3, <3>1, <4>1 DEF CInv, QueueOrder, Before
    <3>. QED
      BY <3>1, <3>2, <3>3 DEF CInv, Accounted
  <2>9. StartsInOrder
    BY <2>5, <2>8 DEF StartsInOrder
  <2>. QED
    BY <1>2, <1>3, <2>4, <2>7, <2>9 DEF CInv
<1>. QED
  BY <1>4, <1>5 DEF HandleGoal

-----------------------------------------------------------------------------
(* The terminal's own steps.                                               *)
LEMMA ClientKept ==
  ASSUME CInv, UNCHANGED <<vars, results>>, UNCHANGED active_goal, UNCHANGED request,
         next_goal_id' \in Nat, next_goal_id <= next_goal_id',
         \A h \in Ids : h \in Approved' \/ h \in Validated' \/ h \in Pending' =>
           \/ h \in Approved \/ h \in Validated \/ h \in Pending
           \/ next_goal_id <= h
  PROVE  Served'
<1>1. goals' = goals /\ ended' = ended
  BY ServerKept DEF CInv
<1>2. \A h \in Ids : h \in Nat
  BY IdsAreNumbers
<1>3. next_goal_id \in Nat
  BY DEF CInv, QueueTypes
<1>. QED
  BY <1>1, <1>2, <1>3 DEF CInv, Served

LEMMA ProposeStep ==
  ASSUME CInv, ProposeGoal
  PROVE  CInv' /\ StartsNone
<1>1. /\ next_goal_id \in Ids /\ next_goal_id \in Nat
      /\ next_goal_id' = next_goal_id + 1
      /\ pending_validation' = Append(pending_validation, next_goal_id)
      /\ UNCHANGED <<approved_goals, active_goal, active_goal_handle, request, validation,
                     results, cancels, settled>>
  <2>1. 1 <= next_goal_id
    BY DEF CInv, QueueTypes
  <2>. QED
    BY <2>1, ClientAssumption DEF ProposeGoal, activeVars, CInv, QueueTypes, Ids
<1>2. /\ pending_validation' \in Seq(Ids) /\ Increasing(pending_validation')
      /\ Pending' = Pending \cup {next_goal_id}
  BY <1>1, AppendElements DEF CInv, QueueTypes, QueueOrder, Pending
<1>3. Approved' = Approved /\ Validated' = Validated
  BY <1>1 DEF Approved, Validated
<1>4. IInv' /\ StartsNone
  BY ServerKept DEF ProposeGoal, CInv
<1>5. QueueTypes'
  BY <1>1, <1>2, <1>3 DEF CInv, QueueTypes
<1>6. \A h \in Ids : h \in Nat
  BY IdsAreNumbers
<1>7. QueueOrder'
  <2>1. /\ Pending \subseteq Nat /\ Approved \subseteq Nat
        /\ Validated \subseteq Nat /\ active_goal \subseteq Nat
    BY <1>6, QueuedGoals DEF CInv, QueueTypes
  <2>2. \A S \in SUBSET Nat : Before(S, {next_goal_id}) => Before(S, {next_goal_id + 1})
    BY <1>1 DEF Before
  <2>3. /\ Before(active_goal, Pending') /\ Before(Approved, Pending')
        /\ Before(Validated, Pending')
    BY <1>2 DEF CInv, QueueOrder, Before
  <2>4. Before(Pending', {next_goal_id + 1})
    BY <1>1, <1>2, <2>1, <2>2 DEF CInv, QueueOrder, Before
  <2>. QED
    BY <1>1, <1>2, <1>3, <2>1, <2>2, <2>3, <2>4 DEF CInv, QueueOrder
<1>8. Accounted'
  BY <1>1, <1>2, <1>3, <1>6 DEF CInv, Accounted
<1>9. Served'
  BY <1>1, <1>2, <1>3, <1>6, ClientKept DEF ProposeGoal
<1>. QED
  BY <1>4, <1>5, <1>7, <1>8, <1>9 DEF CInv

LEMMA ClearStep ==
  ASSUME CInv, ClearWaitingGoals
  PROVE  CInv' /\ StartsNone
<1>1. /\ Pending' = {} /\ Approved' = {} /\ Validated' = Validated
      /\ pending_validation' = <<>> /\ approved_goals' = <<>>
      /\ settled' = settled \cup Pending \cup Approved
      /\ UNCHANGED <<vars, active_goal, active_goal_handle, request, next_goal_id, validation,
                     results, cancels>>
  BY EmptyQueue DEF ClearWaitingGoals, Waiting, activeVars, Pending, Approved, Validated, Elements
<1>2. IInv' /\ StartsNone
  BY <1>1, ServerKept DEF CInv
<1>3. QueueTypes'
  BY <1>1, EmptyQueue DEF CInv, QueueTypes
<1>4. QueueOrder' /\ Accounted'
  BY <1>1, EmptyQueue DEF CInv, QueueOrder, Accounted, Before
<1>5. Served'
  BY <1>1, ClientKept DEF CInv, QueueTypes
<1>. QED
  BY <1>2, <1>3, <1>4, <1>5 DEF CInv

LEMMA ValidateStep ==
  ASSUME CInv, ProcessValidationQueue
  PROVE  CInv' /\ StartsNone
<1>. DEFINE g == Head(pending_validation)
<1>1. /\ validation.answer = "none" /\ pending_validation # <<>>
      /\ validation' = [goal |-> g, answer |-> "asked"]
      /\ pending_validation' = Tail(pending_validation)
      /\ UNCHANGED <<vars, approved_goals, active_goal, active_goal_handle, request,
                     next_goal_id, results, cancels, settled>>
  BY DEF ProcessValidationQueue, NoValidation, activeVars
<1>2. /\ g \in Ids /\ pending_validation' \in Seq(Ids) /\ Increasing(pending_validation')
      /\ Pending = {g} \cup Pending' /\ Before({g}, Pending')
  BY <1>1, TailElements DEF CInv, QueueTypes, QueueOrder, Pending
<1>3. Approved' = Approved /\ Validated = {} /\ Validated' = {g}
  BY <1>1 DEF Approved, Validated
<1>. HIDE DEF g
<1>4. IInv' /\ StartsNone
  BY <1>1, ServerKept DEF CInv
<1>5. QueueTypes'
  BY <1>1, <1>2, <1>3, IdsAreNumbers DEF CInv, QueueTypes
<1>6. QueueOrder'
  BY <1>1, <1>2, <1>3 DEF CInv, QueueOrder, Before
<1>7. Accounted'
  BY <1>1, <1>2, <1>3 DEF CInv, Accounted
<1>8. Served'
  BY <1>1, <1>2, <1>3, ClientKept DEF CInv, QueueTypes
<1>. QED
  BY <1>4, <1>5, <1>6, <1>7, <1>8 DEF CInv

LEMMA DispatchStep ==
  ASSUME CInv, DispatchNextGoal
  PROVE  CInv' /\ StartsNone
<1>. DEFINE g == Head(approved_goals)
<1>1. /\ active_goal = {} /\ active_goal' = {g} /\ approved_goals # <<>>
      /\ approved_goals' = Tail(approved_goals)
      /\ request' = "asked"
      /\ UNCHANGED <<vars, pending_validation, active_goal_handle, next_goal_id, validation,
                     results, cancels, settled>>
  BY DEF DispatchNextGoal
<1>2. /\ g \in Ids /\ approved_goals' \in Seq(Ids) /\ Increasing(approved_goals')
      /\ Approved = {g} \cup Approved' /\ Before({g}, Approved')
  BY <1>1, TailElements DEF CInv, QueueTypes, QueueOrder, Approved
<1>3. Pending' = Pending /\ Validated' = Validated
  BY <1>1 DEF Pending, Validated
<1>. HIDE DEF g
<1>4. IInv' /\ goals' = goals /\ ended' = ended /\ StartsNone
  BY <1>1, ServerKept DEF CInv
<1>5. QueueTypes'
  BY <1>1, <1>2, <1>3 DEF CInv, QueueTypes
<1>6. QueueOrder'
  BY <1>1, <1>2, <1>3 DEF CInv, QueueOrder, Before
<1>7. Accounted'
  BY <1>1, <1>2, <1>3 DEF CInv, Accounted
<1>8. Served'
  BY <1>1, <1>2, <1>3, <1>4 DEF CInv, Served
<1>. QED
  BY <1>4, <1>5, <1>6, <1>7, <1>8 DEF CInv

LEMMA ValidationStep ==
  ASSUME CInv, OnValidation
  PROVE  CInv' /\ StartsNone
<1>. DEFINE g == validation.goal
<1>1. /\ validation.answer # "none" /\ validation' = NoValidation
      /\ UNCHANGED <<vars, pending_validation, active_goal, active_goal_handle, request,
                     next_goal_id, results, cancels>>
  BY DEF OnValidation, activeVars
<1>2. Pending' = Pending /\ Validated = {g} /\ Validated' = {} /\ g \in Ids
  BY <1>1 DEF Pending, Validated, NoValidation, CInv, QueueTypes
<1>3. IInv' /\ StartsNone
  BY <1>1, ServerKept DEF CInv
<1>4. validation' \in [goal : Nat, answer : {"none", "asked", "valid", "invalid"}]
  BY <1>1 DEF NoValidation, Rival
<1>5. CASE approved_goals' = Append(approved_goals, g) /\ settled' = settled
  <2>1. /\ approved_goals' \in Seq(Ids) /\ Increasing(approved_goals')
        /\ Approved' = Approved \cup {g}
    BY <1>2, <1>5, AppendElements DEF CInv, QueueTypes, QueueOrder, Approved
  <2>. HIDE DEF g
  <2>2. QueueTypes'
    BY <1>1, <1>2, <1>4, <2>1 DEF CInv, QueueTypes
  <2>3. QueueOrder'
    BY <1>1, <1>2, <2>1 DEF CInv, QueueOrder, Before
  <2>4. Accounted'
    BY <1>1, <1>2, <1>5, <2>1 DEF CInv, Accounted
  <2>5. Served'
    BY <1>1, <1>2, <2>1, ClientKept DEF CInv, QueueTypes
  <2>. QED
    BY <1>3, <2>2, <2>3, <2>4, <2>5 DEF CInv
<1>6. CASE approved_goals' = approved_goals /\ settled' = settled \cup {g}
  <2>1. Approved' = Approved
    BY <1>6 DEF Approved
  <2>. HIDE DEF g
  <2>2. QueueTypes'
    BY <1>1, <1>2, <1>4, <1>6 DEF CInv, QueueTypes
  <2>3. QueueOrder'
    BY <1>1, <1>2, <1>6, <2>1 DEF CInv, QueueOrder, Before
  <2>4. Accounted'
    BY <1>1, <1>2, <1>6, <2>1 DEF CInv, Accounted
  <2>5. Served'
    BY <1>1, <1>2, <2>1, ClientKept DEF CInv, QueueTypes
  <2>. QED
    BY <1>3, <2>2, <2>3, <2>4, <2>5 DEF CInv
<1>. QED
  BY <1>5, <1>6 DEF OnValidation

(* The active goal is given up: refused, or ended on the server.           *)
LEMMA GivenUpStep ==
  ASSUME CInv, \A h \in Ids : goals[h] = "free",
         active_goal' = {}, active_goal_handle' = {}, settled' = settled \cup active_goal,
         request' # "asked",
         UNCHANGED <<vars, queueVars, next_goal_id, validation, results, cancels>>
  PROVE  CInv' /\ StartsNone
<1>1. /\ Pending' = Pending /\ Approved' = Approved /\ Validated' = Validated
      /\ UNCHANGED <<pending_validation, approved_goals, next_goal_id, results, cancels>>
  BY DEF queueVars, Pending, Approved, Validated
<1>2. IInv' /\ goals' = goals /\ ended' = ended /\ StartsNone
  BY ServerKept DEF CInv
<1>3. QueueTypes'
  BY <1>1 DEF CInv, QueueTypes
<1>4. QueueOrder'
  BY <1>1 DEF CInv, QueueOrder, Before
<1>5. Accounted'
  BY <1>1 DEF CInv, Accounted
<1>6. Served'
  BY <1>1, <1>2 DEF CInv, Served
<1>. QED
  BY <1>2, <1>3, <1>4, <1>5, <1>6 DEF CInv

LEMMA ResponseStep ==
  ASSUME CInv, OnGoalResponse
  PROVE  CInv' /\ StartsNone
<1>1. CASE request = "rejected"
  BY <1>1, GivenUpStep DEF OnGoalResponse, CInv, Served
<1>2. CASE request = "accepted"
  <2>1. /\ QueueKept /\ request' = "none" /\ active_goal_handle' = active_goal
        /\ UNCHANGED <<vars, settled, results, cancels>>
    BY <1>2 DEF OnGoalResponse, QueueKept, queueVars
  <2>2. IInv' /\ goals' = goals /\ ended' = ended /\ StartsNone
    BY <2>1, ServerKept DEF CInv
  <2>3. QueueOrder' /\ Accounted'
    BY <2>1, QueueKeptSame DEF CInv
  <2>4. QueueTypes'
    BY <2>1, QueueKeptSame DEF CInv, QueueTypes, QueueKept
  <2>5. Served'
    BY <2>1, <2>2, QueueKeptSame DEF CInv, Served, QueueKept
  <2>. QED
    BY <2>2, <2>3, <2>4, <2>5 DEF CInv
<1>. QED
  BY <1>1, <1>2 DEF OnGoalResponse

LEMMA ResultStep ==
  ASSUME CInv, NEW g \in Ids, OnResult(g)
  PROVE  CInv' /\ StartsNone
<1>1. active_goal = {g} /\ goals[g] = "free"
  BY DEF OnResult, CInv, QueueTypes, Served
<1>2. \A h \in Ids : goals[h] = "free"
  BY <1>1 DEF CInv, Served
<1>3. CASE request' # "asked"
  BY <1>1, <1>2, <1>3, GivenUpStep DEF OnResult
<1>4. CASE request' = "asked"
  <2>1. request = "asked"
    BY <1>4 DEF OnResult
  <2>. QED
    BY <1>1, <2>1 DEF OnResult, CInv, Served
<1>. QED
  BY <1>3, <1>4

(* A step of the terminal that moves no goal.                              *)
LEMMA IdleStep ==
  ASSUME CInv, UNCHANGED <<vars, pending_validation, approved_goals, active_goal,
                           active_goal_handle, request, next_goal_id, results, settled>>,
         Validated' = Validated, cancels' \subseteq Ids,
         validation' \in [goal : Nat, answer : {"none", "asked", "valid", "invalid"}]
  PROVE  CInv' /\ StartsNone
<1>1. Pending' = Pending /\ Approved' = Approved
  BY DEF Pending, Approved
<1>2. IInv' /\ goals' = goals /\ ended' = ended /\ StartsNone
  BY ServerKept DEF CInv
<1>. QED
  BY <1>1, <1>2 DEF CInv, QueueTypes, QueueOrder, Accounted, Served

LEMMA ValidateServiceStep ==
  ASSUME CInv, ValidateGoalService
  PROVE  CInv' /\ StartsNone
<1>1. PICK answer \in {"valid", "invalid"} : validation' = [validation EXCEPT !.answer = answer]
  BY DEF ValidateGoalService
<1>2. /\ Validated' = Validated
      /\ validation' \in [goal : Nat, answer : {"none", "asked", "valid", "invalid"}]
  BY <1>1 DEF ValidateGoalService, Validated, CInv, QueueTypes
<1>. QED
  BY <1>2, IdleStep DEF ValidateGoalService, queueVars, activeVars, CInv, QueueTypes

-----------------------------------------------------------------------------
LEMMA ClientStep ==
  ASSUME CInv, [ClientNext]_allVars
  PROVE  CInv' /\ StartsInOrder
<1>1. StartsNone => StartsInOrder
  BY DEF StartsNone, StartsInOrder
<1>2. CASE CancelActiveGoal
  BY <1>1, <1>2, IdleStep
     DEF CancelActiveGoal, queueVars, activeVars, Validated, CInv, QueueTypes
<1>3. CASE RequestTakeoff
  BY <1>1, <1>3, IdleStep DEF RequestTakeoff, queueVars, activeVars, Validated, CInv, QueueTypes
<1>4. CASE OnTakeoffEnd
  BY <1>1, <1>4, IdleStep DEF OnTakeoffEnd, queueVars, activeVars, Validated, CInv, QueueTypes
<1>5. CASE UNCHANGED allVars
  BY <1>1, <1>5, IdleStep
     DEF allVars, clientVars, queueVars, activeVars, Validated, CInv, QueueTypes
<1>6. CASE ProposeGoal \/ ClearWaitingGoals
  BY <1>1, <1>6, ProposeStep, ClearStep
<1>7. CASE ProcessValidationQueue \/ DispatchNextGoal
  BY <1>1, <1>7, ValidateStep, DispatchStep
<1>8. CASE OnValidation \/ OnGoalResponse \/ (\E g \in Ids : OnResult(g))
  BY <1>1, <1>8, ValidationStep, ResponseStep, ResultStep
<1>9. CASE ValidateGoalService \/ HandleGoal \/ HandleCancel
  BY <1>1, <1>9, ValidateServiceStep, GoalRequestStep, CancelRequestStep
<1>10. CASE (\E graceOver, arrived \in BOOLEAN : Spin(graceOver, arrived)) \/ Others
  BY <1>1, <1>10, SpinStep, OthersStep
<1>. QED
  BY <1>2, <1>3, <1>4, <1>5, <1>6, <1>7, <1>8, <1>9, <1>10 DEF ClientNext, Operator, Answers

LEMMA ClientBeginning == ClientInit => CInv
<1>. SUFFICES ASSUME ClientInit
              PROVE  CInv
  OBVIOUS
<1>1. IInv
  BY Beginning DEF ClientInit
<1>2. Pending = {} /\ Approved = {} /\ Validated = {}
  BY EmptyQueue DEF ClientInit, Pending, Approved, Validated, NoValidation
<1>3. QueueTypes
  BY <1>2, EmptyQueue DEF ClientInit, NoValidation, Rival, QueueTypes
<1>4. QueueOrder
  BY <1>2, EmptyQueue DEF ClientInit, QueueOrder, Before
<1>5. Accounted
  BY IdsAreNumbers DEF ClientInit, Accounted, Ids
<1>6. Served
  BY IdsAreNumbers DEF ClientInit, Init, NoResults, Served
<1>. QED
  BY <1>1, <1>3, <1>4, <1>5, <1>6 DEF CInv

(* However many goals the operator types in: the terminal's queues, the    *)
(* validation, the answers and the server never start a goal before an     *)
(* earlier one is settled, whatever is cleared, canceled or preempted.     *)
THEOREM GoalsAreFlownInOrder == ClientSpec => GoalsInOrder
<1>1. CInv /\ [ClientNext]_allVars => CInv'
  BY ClientStep
<1>2. CInv /\ [ClientNext]_allVars
        => [\A g \in Ids : goals[g] = "free" /\ goals'[g] = "executing" =>
              \A h \in 1..(g - 1) : goals[h] = "free" /\ h \in settled]_allVars
  BY ClientStep DEF StartsInOrder
<1>. QED
  BY <1>1, <1>2, ClientBeginning, PTL DEF ClientSpec, GoalsInOrder
=============================================================================
