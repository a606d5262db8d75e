----------------------- MODULE FlightSupervisor_proofs -----------------------
(***************************************************************************)
(* For every set of goals: the flight supervisor keeps its invariants, and *)
(* its three action servers together behave as one ActionServer.  For a    *)
(* drone, for every set of navigation goals and every bound on the         *)
(* requests: a drone that lands is not sent back to fixed wing.            *)
(***************************************************************************)
EXTENDS DroneControl, TLAPS, SequenceTheorems

(* Inductive: a handle that outlived its goal would be ended a second time, *)
(* and only the types say which kinds of handles there are.                *)
IInv == TypeOK /\ GoalsAreHeld

LiveGoals == {g \in Goals : goals[g] # "free"}

(* What every callback does to the goals, as their clients see it.         *)
KeepsOrEndsAll ==
  \/ KeepGoals /\ fs'.held = fs.held /\ (fs'.operation = fs.operation
                                          \/ Handles(Operations) = {})
  \/ /\ goals' = [g \in Goals |-> "free"]
     /\ fs'.held = NoHandles
     /\ ended' \in [Goals -> {"none", "succeeded", "aborted", "canceled"}]
     /\ \A g \in Goals :
          /\ goals[g] = "free" => ended'[g] = "none"
          /\ goals[g] = "executing" => ended'[g] \in {"succeeded", "aborted"}
          /\ goals[g] = "canceling" => ended'[g] \in {"canceled", "aborted"}

-----------------------------------------------------------------------------
(* The handles of the running operation.                                   *)

LEMMA HandlesOf ==
  ASSUME fs \in Memory
  PROVE  /\ \A o \in Operations : Handles({o}) = fs.held[o]
         /\ Handles({"TAKEOFF", "TRANSITION"})
              = fs.held["TAKEOFF"] \cup fs.held["TRANSITION"]
         /\ Handles(Operations)
              = fs.held["TAKEOFF"] \cup fs.held["LAND"] \cup fs.held["TRANSITION"]
BY DEF Handles, Operations

LEMMA AllLiveAreHeld ==
  ASSUME IInv
  PROVE  /\ Handles(Operations) = LiveGoals
         /\ \A o \in Operations : fs.operation = o => Handles({o}) = LiveGoals
         /\ fs.operation = "IDLE" => LiveGoals = {}
         /\ fs.operation # "LAND" => Handles({"TAKEOFF", "TRANSITION"}) = LiveGoals
<1>1. fs \in Memory
  BY DEF IInv, TypeOK
<1>2. /\ Handles(Operations) = LiveGoals
      /\ \A o \in Operations : fs.held[o] # {} => fs.operation = o
  BY DEF IInv, GoalsAreHeld, LiveGoals
<1> QED
  BY <1>1, <1>2, HandlesOf DEF Operations

(* A finished operation holds nothing, whatever it was.                    *)
LEMMA FinishedMemory ==
  ASSUME NEW f \in Memory
  PROVE  Finished(f) \in Memory /\ Finished(f).held = NoHandles
BY DEF Finished, Memory, Operations, NoHandles

LEMMA FinishEndsAll ==
  ASSUME IInv, NEW f \in Memory, NEW o \in Operations, fs.operation = o,
         NEW result \in {"succeeded", "aborted", "canceled"},
         FinishOperation(f, o, result),
         result = "canceled" => Canceling(o),
         result = "succeeded" => ~Canceling(o)
  PROVE  fs' \in Memory /\ KeepsOrEndsAll
<1>1. Handles({o}) = LiveGoals /\ fs.held[o] = LiveGoals
  BY AllLiveAreHeld, HandlesOf DEF IInv, TypeOK
<1>2. fs' \in Memory /\ fs'.held = NoHandles
  BY FinishedMemory DEF FinishOperation
<1>3. /\ goals' = [g \in Goals |-> IF g \in LiveGoals THEN "free" ELSE goals[g]]
      /\ ended' = [g \in Goals |-> IF g \in LiveGoals THEN result ELSE "none"]
  BY <1>1 DEF FinishOperation, EndGoals
<1>4. goals' = [g \in Goals |-> "free"]
  BY <1>3 DEF LiveGoals
<1>5. \A g, h \in LiveGoals : g = h
  BY <1>1, AllLiveAreHeld DEF IInv, GoalsAreHeld
<1>6. goals \in [Goals -> {"free", "executing", "canceling"}]
  BY DEF IInv, TypeOK
<1>7. ASSUME NEW g \in Goals
      PROVE  /\ goals[g] = "free" => ended'[g] = "none"
             /\ goals[g] = "executing" => ended'[g] \in {"succeeded", "aborted"}
             /\ goals[g] = "canceling" => ended'[g] \in {"canceled", "aborted"}
  <2>1. goals[g] = "free" => ended'[g] = "none"
    BY <1>3 DEF LiveGoals
  <2>2. goals[g] # "free" => g \in LiveGoals /\ ended'[g] = result
    BY <1>3 DEF LiveGoals
  <2>3. goals[g] = "canceling" => Canceling(o)
    BY <1>1 DEF Canceling, LiveGoals
  <2>4. Canceling(o) /\ goals[g] # "free" => goals[g] = "canceling"
    BY <1>1, <1>5, <2>2 DEF Canceling
  <2> QED
    BY <2>1, <2>2, <2>3, <2>4
<1>8. ended' \in [Goals -> {"none", "succeeded", "aborted", "canceled"}]
  BY <1>3
<1> QED
  BY <1>2, <1>4, <1>7, <1>8 DEF KeepsOrEndsAll

(* LAND and FORCE DISARM end what they find.                               *)
LEMMA InterruptionEndsAll ==
  ASSUME IInv, NEW S, S = LiveGoals, EndGoals(S, Interruption), fs'.held = NoHandles
  PROVE  KeepsOrEndsAll
<1>1. /\ goals' = [g \in Goals |-> IF g \in LiveGoals THEN "free" ELSE goals[g]]
      /\ ended' = [g \in Goals |-> IF g \in LiveGoals
                                   THEN IF goals[g] = "canceling" THEN "canceled" ELSE "aborted"
                                   ELSE "none"]
  BY DEF EndGoals, Interruption
<1> QED
  BY <1>1 DEF KeepsOrEndsAll, LiveGoals

-----------------------------------------------------------------------------
(* The callbacks that neither accept nor cancel a goal.                    *)

LEMMA RequestsKeepOrEnd ==
  ASSUME IInv, OnFlightRequest
  PROVE  fs' \in Memory /\ KeepsOrEndsAll /\ UNCHANGED report
<1>0. fs \in Memory
  BY DEF IInv, TypeOK
<1>1. CASE RequestArmOffboard
  BY <1>0, <1>1 DEF RequestArmOffboard, KeepsOrEndsAll, Memory
<1>2. CASE Disarm
  BY <1>0, <1>2 DEF Disarm, KeepsOrEndsAll, Memory
<1>3. CASE ForceDisarm
  <2>1. fs' \in Memory /\ fs'.held = NoHandles
    BY <1>0, <1>3, FinishedMemory DEF ForceDisarm, Memory
  <2>2. EndGoals(Handles(Operations), Interruption) /\ UNCHANGED report
    BY <1>3 DEF ForceDisarm
  <2> QED
    BY <2>1, <2>2, AllLiveAreHeld, InterruptionEndsAll
<1>4. CASE StartManualLand
  <2>0. UNCHANGED report
    BY <1>4 DEF StartManualLand
  <2>1. CASE ~Preemptible
    BY <1>0, <1>4, <2>1 DEF StartManualLand, KeepsOrEndsAll
  <2>2. CASE Preemptible
    <3>1. fs.held["LAND"] = {}
      BY <2>2 DEF Preemptible, IInv, GoalsAreHeld, Operations
    <3>2. fs' = [fs EXCEPT !.held["TAKEOFF"] = {}, !.held["TRANSITION"] = {},
                           !.operation = "LAND", !.arming = FALSE,
                           !.landSent = FALSE, !.due = TRUE]
      BY <1>4, <2>2 DEF StartManualLand
    <3>3. fs' \in Memory /\ fs'.held = NoHandles
      BY <1>0, <3>1, <3>2 DEF Memory, Operations, NoHandles
    <3>4. EndGoals(Handles({"TAKEOFF", "TRANSITION"}), Interruption)
      BY <1>4, <2>2 DEF StartManualLand
    <3> QED
      BY <2>0, <2>2, <3>3, <3>4, AllLiveAreHeld, InterruptionEndsAll DEF Preemptible
  <2> QED
    BY <2>1, <2>2
<1>5. ASSUME NEW fixedWing \in BOOLEAN, StartManualTransition(fixedWing)
      PROVE  fs' \in Memory /\ KeepsOrEndsAll /\ UNCHANGED report
  <2>1. fs' \in Memory /\ fs'.held = fs.held
    BY <1>0, <1>5 DEF StartManualTransition, Memory, Operations
  <2>2. Handles(Operations) = {}
    BY <1>5, AllLiveAreHeld DEF StartManualTransition, MayStart
  <2> QED
    BY <1>5, <2>1, <2>2 DEF StartManualTransition, KeepsOrEndsAll
<1> QED
  BY <1>1, <1>2, <1>3, <1>4, <1>5 DEF OnFlightRequest

LEMMA TimerKeepsOrEnds ==
  ASSUME IInv, OnTimer
  PROVE  fs' \in Memory /\ KeepsOrEndsAll /\ UNCHANGED report
<1> DEFINE f == ProcessArmOffboard(fs)
<1>0. fs \in Memory /\ UNCHANGED report
  BY DEF IInv, TypeOK, OnTimer
<1>1. f \in Memory /\ f.held = fs.held /\ f.operation = fs.operation
  BY <1>0 DEF ProcessArmOffboard, Memory, ArmingTime, Armed, ArmCommands
<1>2. "TAKEOFF" \in Operations /\ "LAND" \in Operations /\ "TRANSITION" \in Operations
  BY DEF Operations
<1>3. IdleTick(f) \/ ProcessTakeoff(f) \/ ProcessLand(f) \/ ProcessTransition(f)
  BY DEF OnTimer
<1> HIDE DEF f
<1>4. CASE IdleTick(f)
  BY <1>0, <1>1, <1>4 DEF IdleTick, KeepsOrEndsAll
<1>5. CASE ProcessTakeoff(f)
  <2>1. \/ Canceling("TAKEOFF") /\ FinishOperation(f, "TAKEOFF", "canceled")
        \/ FinishOperation(f, "TAKEOFF", "aborted")
        \/ ~Canceling("TAKEOFF") /\ FinishOperation(f, "TAKEOFF", "succeeded")
        \/ KeepGoals /\ \E due \in BOOLEAN : fs' = [f EXCEPT !.due = due]
    <3>1. f.due \in BOOLEAN
      BY <1>1 DEF Memory
    <3> QED
      BY <1>5, <3>1 DEF ProcessTakeoff
  <2>2. fs.operation = "TAKEOFF"
    BY <1>5 DEF ProcessTakeoff
  <2>3. CASE KeepGoals /\ \E due \in BOOLEAN : fs' = [f EXCEPT !.due = due]
    BY <1>0, <1>1, <2>3 DEF KeepsOrEndsAll, Memory
  <2> QED
    BY <1>0, <1>1, <1>2, <2>1, <2>2, <2>3, FinishEndsAll
<1>6. CASE ProcessLand(f)
  <2> DEFINE l == LandingMemory(f)
  <2>0. l \in Memory /\ l.held = fs.held /\ l.operation = fs.operation
    BY <1>1 DEF LandingMemory, Memory
  <2>1. \/ Canceling("LAND") /\ FinishOperation(l, "LAND", "canceled")
        \/ ~Canceling("LAND") /\ FinishOperation(l, "LAND", "succeeded")
        \/ KeepGoals /\ fs' = [l EXCEPT !.landSent = TRUE]
    BY <1>6 DEF ProcessLand
  <2>2. fs.operation = "LAND"
    BY <1>6 DEF ProcessLand
  <2> HIDE DEF l
  <2>3. CASE KeepGoals /\ fs' = [l EXCEPT !.landSent = TRUE]
    BY <1>0, <2>0, <2>3 DEF KeepsOrEndsAll, Memory
  <2> QED
    BY <1>0, <1>2, <2>0, <2>1, <2>2, <2>3, FinishEndsAll
<1>7. CASE ProcessTransition(f)
  <2>1. \/ Canceling("TRANSITION") /\ FinishOperation(f, "TRANSITION", "canceled")
        \/ ~Canceling("TRANSITION") /\ FinishOperation(f, "TRANSITION", "succeeded")
        \/ KeepGoals /\ fs' = [f EXCEPT !.due = FALSE]
    BY <1>7 DEF ProcessTransition
  <2>2. fs.operation = "TRANSITION"
    BY <1>7 DEF ProcessTransition
  <2>3. CASE KeepGoals /\ fs' = [f EXCEPT !.due = FALSE]
    BY <1>0, <1>1, <2>3 DEF KeepsOrEndsAll, Memory
  <2> QED
    BY <1>0, <1>1, <1>2, <2>1, <2>2, <2>3, FinishEndsAll
<1> QED
  BY <1>3, <1>4, <1>5, <1>6, <1>7

LEMMA KeepingOrEndingIsSafe ==
  ASSUME IInv, fs' \in Memory, report' \in Reports \cup {NoReport}, KeepsOrEndsAll
  PROVE  IInv'
<1>1. CASE KeepGoals /\ fs'.held = fs.held
            /\ (fs'.operation = fs.operation \/ Handles(Operations) = {})
  <2>1. (Handles(Operations))' = Handles(Operations)
    BY <1>1 DEF Handles
  <2>2. \A o \in Operations : fs'.held[o] # {} => fs'.operation = o
    BY <1>1, HandlesOf DEF IInv, TypeOK, GoalsAreHeld, Operations
  <2>3. goals' = goals
    BY <1>1 DEF KeepGoals
  <2> QED
    BY <2>1, <2>2, <2>3 DEF IInv, TypeOK, GoalsAreHeld
<1>2. CASE goals' = [g \in Goals |-> "free"] /\ fs'.held = NoHandles
  <2>1. (Handles(Operations))' = {}
    BY <1>2 DEF Handles, NoHandles
  <2> QED
    BY <1>2, <2>1 DEF IInv, TypeOK, GoalsAreHeld, NoHandles
<1> QED
  BY <1>1, <1>2 DEF KeepsOrEndsAll

-----------------------------------------------------------------------------
(* The action servers.                                                     *)

LEMMA OneGoalHeld ==
  ASSUME fs' \in Memory, NEW o \in Operations, NEW S,
         fs'.held[o] = S, fs'.operation = o,
         \A p \in Operations : p # o => fs'.held[p] = {},
         \A g, h \in S : g = h, S = {g \in Goals : goals'[g] # "free"}
  PROVE  GoalsAreHeld'
<1>1. (Handles(Operations))' = S
  BY DEF Handles
<1> QED
  BY <1>1 DEF GoalsAreHeld

LEMMA AcceptIsSafe ==
  ASSUME IInv, NEW o \in Operations, NEW f \in Memory, NEW g \in Goals,
         AcceptGoal(g, f), f.operation = o, f.held = [fs.held EXCEPT ![o] = {g}]
  PROVE  IInv' /\ Server!Accept(g)
<1>1. fs.operation = "IDLE" /\ LiveGoals = {}
  BY AllLiveAreHeld DEF AcceptGoal, MayStart
<1>2. \A h \in Goals : goals[h] = "free"
  BY <1>1 DEF LiveGoals
<1>3. \A p \in Operations : fs.held[p] = {}
  BY <1>1 DEF IInv, GoalsAreHeld, Operations
<1>4. goals' = [h \in Goals |-> IF h = g THEN "executing" ELSE "free"]
  BY <1>2 DEF AcceptGoal, IInv, TypeOK
<1>5. {h \in Goals : goals'[h] # "free"} = {g}
  BY <1>4
<1>6. /\ fs' = f /\ fs'.held[o] = {g}
      /\ \A p \in Operations : p # o => fs'.held[p] = {}
  BY <1>3 DEF AcceptGoal, IInv, TypeOK, Memory
<1>7. GoalsAreHeld'
  BY <1>5, <1>6, OneGoalHeld
<1>8. TypeOK'
  BY <1>4, <1>6 DEF AcceptGoal, IInv, TypeOK
<1>9. Server!Accept(g)
  BY <1>2, <1>4 DEF AcceptGoal, NoResults, Server!Accept, Server!EndAll,
                    Server!Allowed, Server!Results
<1> QED
  BY <1>7, <1>8, <1>9 DEF IInv

LEMMA CancelIsSafe ==
  ASSUME IInv, NEW g \in Goals, CancelGoal(g)
  PROVE  IInv' /\ Server!Cancel(g)
<1>1. /\ goals' = [goals EXCEPT ![g] = "canceling"]
      /\ goals[g] = "executing" /\ UNCHANGED <<fs, report>>
  BY DEF CancelGoal
<1>2. \A h \in Goals : goals'[h] # "free" <=> goals[h] # "free"
  BY <1>1 DEF IInv, TypeOK
<1>3. (Handles(Operations))' = Handles(Operations)
  BY <1>1 DEF Handles
<1>4. TypeOK' /\ GoalsAreHeld'
  BY <1>1, <1>2, <1>3 DEF IInv, TypeOK, GoalsAreHeld
<1>5. Server!Cancel(g)
  BY DEF CancelGoal, NoResults, Server!Cancel, Server!NoResults
<1> QED
  BY <1>4, <1>5 DEF IInv

LEMMA ClientsAreSafe ==
  ASSUME IInv, Clients
  PROVE  IInv' /\ \E g \in Goals : Server!Accept(g) \/ Server!Cancel(g)
<1>0. fs \in Memory
  BY DEF IInv, TypeOK
<1>1. PICK g \in Goals :
        \/ AcceptTakeoff(g)
        \/ AcceptLand(g)
        \/ \E fixedWing \in BOOLEAN : AcceptTransition(g, fixedWing)
        \/ CancelGoal(g)
  BY DEF Clients
<1>2. CASE AcceptTakeoff(g)
  <2> DEFINE f == [fs EXCEPT !.operation = "TAKEOFF", !.held["TAKEOFF"] = {g},
                             !.arming = FALSE, !.due = TRUE]
  <2>1. /\ f \in Memory /\ f.operation = "TAKEOFF"
        /\ f.held = [fs.held EXCEPT !["TAKEOFF"] = {g}]
    BY <1>0 DEF Memory, Operations
  <2>2. AcceptGoal(g, f) /\ "TAKEOFF" \in Operations
    BY <1>2 DEF AcceptTakeoff, Operations
  <2> HIDE DEF f
  <2> QED
    BY <2>1, <2>2, AcceptIsSafe
<1>3. CASE AcceptLand(g)
  <2> DEFINE f == [fs EXCEPT !.operation = "LAND", !.held["LAND"] = {g}, !.arming = FALSE,
                             !.landSent = FALSE, !.due = TRUE]
  <2>1. f \in Memory /\ f.operation = "LAND" /\ f.held = [fs.held EXCEPT !["LAND"] = {g}]
    BY <1>0 DEF Memory, Operations
  <2>2. AcceptGoal(g, f) /\ "LAND" \in Operations
    BY <1>3 DEF AcceptLand, Operations
  <2> HIDE DEF f
  <2> QED
    BY <2>1, <2>2, AcceptIsSafe
<1>4. ASSUME NEW fixedWing \in BOOLEAN, AcceptTransition(g, fixedWing)
      PROVE  IInv' /\ Server!Accept(g)
  <2> DEFINE f == [fs EXCEPT !.operation = "TRANSITION", !.held["TRANSITION"] = {g},
                             !.toFixedWing = fixedWing, !.due = TRUE]
  <2>1. /\ f \in Memory /\ f.operation = "TRANSITION"
        /\ f.held = [fs.held EXCEPT !["TRANSITION"] = {g}]
    BY <1>0 DEF Memory, Operations
  <2>2. AcceptGoal(g, f) /\ "TRANSITION" \in Operations
    BY <1>4 DEF AcceptTransition, Operations
  <2> HIDE DEF f
  <2> QED
    BY <2>1, <2>2, AcceptIsSafe
<1> QED
  BY <1>1, <1>2, <1>3, <1>4, CancelIsSafe

-----------------------------------------------------------------------------
(* Every step, and the theorems.                                           *)

LEMMA EveryStep ==
  ASSUME IInv, [Next]_vars
  PROVE  IInv' /\ [Server!Next]_Server!vars
<1>1. /\ fs \in Memory /\ report \in Reports \cup {NoReport}
      /\ goals \in [Goals -> {"free", "executing", "canceling"}]
  BY DEF IInv, TypeOK
<1>2. ASSUME KeepsOrEndsAll
      PROVE  Server!Next
  <2>1. CASE KeepGoals
    BY <2>1 DEF KeepGoals, NoResults, Server!Next, Server!Continue, Server!NoResults
  <2>2. CASE ~KeepGoals
    <3>1. /\ goals' = [g \in Goals |-> "free"]
          /\ ended' \in [Goals -> {"none", "succeeded", "aborted", "canceled"}]
          /\ \A g \in Goals :
               /\ goals[g] = "free" => ended'[g] = "none"
               /\ goals[g] = "executing" => ended'[g] \in {"succeeded", "aborted"}
               /\ goals[g] = "canceling" => ended'[g] \in {"canceled", "aborted"}
      BY <1>2, <2>2 DEF KeepsOrEndsAll
    <3>2. \A g \in Goals : ended'[g] \in Server!Allowed(goals[g])
      BY <1>1, <3>1 DEF Server!Allowed
    <3> QED
      BY <3>1, <3>2 DEF Server!Next, Server!End, Server!EndAll, Server!Results
  <2> QED
    BY <2>1, <2>2
<1>3. CASE OnTimer
  BY <1>1, <1>2, <1>3, TimerKeepsOrEnds, KeepingOrEndingIsSafe
<1>4. CASE OnFlightRequest
  BY <1>1, <1>2, <1>4, RequestsKeepOrEnd, KeepingOrEndingIsSafe
<1>5. CASE PeriodPasses
  <2>1. fs' \in Memory /\ report' = report /\ KeepsOrEndsAll
    BY <1>1, <1>5 DEF PeriodPasses, KeepsOrEndsAll, Memory
  <2> QED
    BY <1>1, <1>2, <2>1, KeepingOrEndingIsSafe
<1>6. ASSUME NEW r \in Reports, OnState(r)
      PROVE  IInv' /\ Server!Next
  <2>1. fs' \in Memory /\ report' \in Reports /\ KeepsOrEndsAll
    BY <1>1, <1>6 DEF OnState, KeepsOrEndsAll
  <2> QED
    BY <1>2, <2>1, KeepingOrEndingIsSafe
<1>7. CASE Clients
  BY <1>7, ClientsAreSafe DEF Server!Next
<1>8. CASE UNCHANGED vars
  BY <1>8 DEF vars, IInv, TypeOK, GoalsAreHeld, Handles, Server!vars
<1> QED
  BY <1>3, <1>4, <1>5, <1>6, <1>7, <1>8 DEF Next

LEMMA Beginning == Init => IInv /\ Server!Init
<1> SUFFICES ASSUME Init PROVE IInv /\ Server!Init
  OBVIOUS
<1>1. Handles(Operations) = {}
  BY DEF Init, Handles, NoHandles
<1>2. TypeOK
  BY DEF Init, TypeOK, Memory, NoHandles
<1>3. GoalsAreHeld
  BY <1>1 DEF Init, GoalsAreHeld, NoHandles
<1> QED
  BY <1>2, <1>3 DEF Init, IInv, NoResults, Server!Init, Server!NoResults

(* The flight supervisor's memory always has its type.                     *)
THEOREM SupervisorTypes == Spec => []TypeOK
<1>1. IInv /\ [Next]_vars => IInv'
  BY EveryStep
<1>2. IInv => TypeOK
  BY DEF IInv
<1> QED
  BY <1>1, <1>2, Beginning, PTL DEF Spec

(* However LAND and FORCE DISARM cut into an operation, every goal that a  *)
(* client waits for is held by the running operation and no other handle   *)
(* is: no client is forgotten, no goal is ended twice.                     *)
THEOREM SupervisorHoldsGoals == Spec => []GoalsAreHeld
<1>1. IInv /\ [Next]_vars => IInv'
  BY EveryStep
<1>2. IInv => GoalsAreHeld
  BY DEF IInv
<1> QED
  BY <1>1, <1>2, Beginning, PTL DEF Spec

(* The three action servers of the flight supervisor implement one         *)
(* ActionServer.                                                           *)
THEOREM SupervisorServesOneGoal == Spec => ServesOneGoalAtATime
<1>1. IInv /\ [Next]_vars => IInv' /\ [Server!Next]_Server!vars
  BY EveryStep
<1> QED
  BY <1>1, Beginning, PTL DEF Spec, ServesOneGoalAtATime, Server!Spec

-----------------------------------------------------------------------------
(* What a landing supervisor does in one step: it goes on, or it ends.     *)
LEMMA LandingSteps ==
  ASSUME IInv, fs.operation = "LAND", Next
  PROVE  /\ \A i \in DOMAIN sent' :
              sent'[i] \in {"NAV_LAND", "INACTIVE", "DISARM", "FORCE_DISARM"}
         /\ fs.landSent => \A i \in DOMAIN sent' : sent'[i] # "NAV_LAND"
         /\ fs'.operation = "IDLE" => ~fs'.arming
<1>1. fs \in Memory
  BY DEF IInv, TypeOK
<1>2. CASE OnTimer
  <2> DEFINE f == ProcessArmOffboard(fs)
             landing == LandingMemory(f)
             land == IF fs.landSent THEN <<>> ELSE <<"NAV_LAND">>
  <2>1. ArmCommands = <<>>
    BY DEF ArmCommands, ArmingTime
  <2>2. ProcessLand(f)
    BY <1>2 DEF OnTimer, IdleTick, ProcessTakeoff, ProcessTransition
  <2>3. landing \in Memory /\ ~landing.arming /\ landing.operation = "LAND"
    BY <1>1 DEF ProcessArmOffboard, LandingMemory, Memory
  <2>4. ~Finished(landing).arming
    BY <2>3 DEF Finished, Memory
  <2>5. ArmCommands \o land = land
    BY <2>1
  <2>6. sent' \in {<<"INACTIVE">>, Append(land, "INACTIVE"), land}
    BY <2>1, <2>2, <2>5 DEF ProcessLand
  <2>7. \/ fs' = Finished(landing)
        \/ fs' = [landing EXCEPT !.landSent = TRUE]
    BY <2>2 DEF ProcessLand, FinishOperation
  <2>8. fs'.operation = "IDLE" => ~fs'.arming
    BY <2>3, <2>4, <2>7 DEF Memory
  <2>9. CASE fs.landSent
    <3>1. sent' \in {<<"INACTIVE">>, <<>>}
      BY <2>6, <2>9
    <3> QED
      BY <2>8, <3>1
  <2>10. CASE ~fs.landSent
    <3>1. sent' \in {<<"INACTIVE">>, <<"NAV_LAND", "INACTIVE">>, <<"NAV_LAND">>}
      BY <2>6, <2>10
    <3> QED
      BY <2>8, <2>10, <3>1
  <2> QED
    BY <2>9, <2>10
<1>3. CASE OnFlightRequest
  <2>1. CASE RequestArmOffboard
    BY <1>1, <2>1 DEF RequestArmOffboard, Memory
  <2>2. CASE Disarm
    BY <1>1, <2>2 DEF Disarm, Memory
  <2>3. CASE ForceDisarm
    BY <1>1, <2>3 DEF ForceDisarm, Finished, Memory
  <2>4. CASE StartManualLand
    BY <1>1, <2>4 DEF StartManualLand, Preemptible, Memory
  <2> QED
    BY <1>3, <2>1, <2>2, <2>3, <2>4 DEF OnFlightRequest, StartManualTransition, MayStart
<1>4. CASE Clients
  <2>1. PICK g \in Goals : CancelGoal(g)
    BY <1>4 DEF Clients, AcceptTakeoff, AcceptLand, AcceptTransition, AcceptGoal, MayStart
  <2> QED
    BY <2>1 DEF CancelGoal
<1>5. CASE PeriodPasses
  BY <1>1, <1>5 DEF PeriodPasses, Memory
<1>6. ASSUME NEW r \in Reports, OnState(r)
      PROVE  sent' = <<>> /\ fs' = fs
  BY <1>6 DEF OnState
<1>7. CASE \E r \in Reports : OnState(r)
  BY <1>6, <1>7
<1> QED
  BY <1>2, <1>3, <1>4, <1>5, <1>7 DEF Next

(* PX4 owns the landing: nothing but the landing itself is commanded, and  *)
(* the landing once.                                                       *)
THEOREM LandingBelongsToPX4 == Spec => LandingIsPX4s
<1> DEFINE P == fs.operation = "LAND" =>
       /\ \A i \in DOMAIN sent' :
            sent'[i] \in {"NAV_LAND", "INACTIVE", "DISARM", "FORCE_DISARM"}
       /\ fs.landSent => \A i \in DOMAIN sent' : sent'[i] # "NAV_LAND"
<1>1. IInv /\ [Next]_vars => IInv' /\ [P]_vars
  BY EveryStep, LandingSteps
<1>2. Init => IInv
  BY Beginning
<1> QED
  BY <1>1, <1>2, PTL DEF Spec, LandingIsPX4s

(* The end of a landing leaves no request to arm behind.                   *)
THEOREM LandedStaysDisarmed == Spec => NoRearmAfterLanding
<1> DEFINE P == fs.operation = "LAND" /\ fs'.operation = "IDLE" => ~fs'.arming
<1>1. IInv /\ [Next]_vars => IInv' /\ [P]_vars
  BY EveryStep, LandingSteps
<1>2. Init => IInv
  BY Beginning
<1> QED
  BY <1>1, <1>2, PTL DEF Spec, NoRearmAfterLanding

-----------------------------------------------------------------------------
(* The drone: the supervisor with the navigation server and the vehicle.   *)

(* The supervisor of this composition serves no goals: it holds none.      *)
Goalless ==
  [operation: Operations \cup {"IDLE"}, held: {NoHandles}, arming: BOOLEAN,
   toFixedWing: BOOLEAN, landSent: BOOLEAN, due: BOOLEAN]

Plant == [mode: {"MC", "FW"}, target: {"MC", "FW"}, landing: BOOLEAN, down: BOOLEAN]

(* Inductive: until the vehicle is down, the supervisor that asked PX4 to  *)
(* land is still in LAND, and it ends LAND on a report of the ground only. *)
LandingInvariant ==
  /\ fs \in Goalless
  /\ px \in Plant
  /\ report.ground = "landed" => px.down
  /\ px.landing /\ ~px.down => fs.operation = "LAND"
  /\ LandingStaysMulticopter

-----------------------------------------------------------------------------
(* What the supervisor sends in a tick.                                    *)

LEMMA ShortSequences ==
  ASSUME NEW C, NEW c \in C, NEW d \in C
  PROVE  <<>> \in Seq(C) /\ <<c>> \in Seq(C) /\ <<c, d>> \in Seq(C)
<1>1. <<>> \in Seq(C)
  BY EmptySeq
<1>2. <<c>> \in Seq(C)
  OBVIOUS
<1>3. <<c, d>> \in Seq(C)
  OBVIOUS
<1> QED
  BY <1>1, <1>2, <1>3

Harmless == {"OFFBOARD", "ARM", "INACTIVE", "TO_FW", "TO_MC"}

LEMMA ArmingSends == ArmCommands \in Seq(Harmless)
<1>1. "OFFBOARD" \in Harmless /\ "ARM" \in Harmless
  BY DEF Harmless
<1>2. ArmCommands \in {<<>>, <<"OFFBOARD">>, <<"OFFBOARD", "ARM">>}
  BY DEF ArmCommands
<1> QED
  BY <1>1, <1>2, ShortSequences

LEMMA NothingHeld ==
  ASSUME fs \in Goalless
  PROVE  \A o \in Operations : fs.held[o] = {}
BY DEF Goalless, NoHandles

LEMMA ArmingKeepsType ==
  ASSUME fs \in Goalless
  PROVE  LET f == ProcessArmOffboard(fs)
         IN  f \in Goalless /\ f.operation = fs.operation /\ f.held = fs.held
BY DEF ProcessArmOffboard, Goalless, ArmingTime, Armed, ArmCommands

LEMMA LandTick ==
  ASSUME fs \in Goalless, fs.operation = "LAND", OnTimer
  PROVE  /\ fs' \in Goalless
         /\ sent' \in Seq({"NAV_LAND", "INACTIVE"})
         /\ fs'.operation = "LAND" \/ report.ground = "landed"
<1> DEFINE f == ProcessArmOffboard(fs)
<1>1. f \in Goalless /\ f.operation = "LAND"
  BY ArmingKeepsType
<1>2. ArmCommands = <<>>
  BY DEF ArmCommands, ArmingTime
<1>3. ~Canceling("LAND")
  BY NothingHeld DEF Canceling, Operations
<1>4. ProcessLand(f)
  BY <1>1 DEF OnTimer, IdleTick, ProcessTakeoff, ProcessTransition
<1> HIDE DEF f
<1> DEFINE l == LandingMemory(f)
           land == IF fs.landSent THEN <<>> ELSE <<"NAV_LAND">>
<1>5. l \in Goalless /\ l.operation = "LAND"
  BY <1>1 DEF LandingMemory, Goalless
<1>6. \/ /\ report.ground = "landed"
         /\ fs' = Finished(l)
         /\ sent' = Append(<<>> \o land, "INACTIVE")
      \/ fs' = [l EXCEPT !.landSent = TRUE] /\ sent' = <<>> \o land
  BY <1>2, <1>3, <1>4 DEF ProcessLand, FinishOperation
<1> DEFINE C == {"NAV_LAND", "INACTIVE"}
<1>7. <<>> \in Seq(C) /\ land \in Seq(C) /\ "INACTIVE" \in C
  BY ShortSequences
<1> HIDE DEF l, land, C
<1>8. sent' \in Seq(C)
  BY <1>6, <1>7, ConcatProperties, AppendProperties
<1>9. fs' \in Goalless /\ (fs'.operation = "LAND" \/ report.ground = "landed")
  BY <1>5, <1>6 DEF Finished, Goalless
<1> QED
  BY <1>8, <1>9 DEF C

LEMMA OtherTick ==
  ASSUME fs \in Goalless, fs.operation # "LAND", OnTimer
  PROVE  fs' \in Goalless /\ sent' \in Seq(Harmless)
<1> DEFINE f == ProcessArmOffboard(fs)
<1>1. f \in Goalless /\ f.operation = fs.operation /\ f.held = fs.held
  BY ArmingKeepsType
<1>2. ArmCommands \in Seq(Harmless) /\ "INACTIVE" \in Harmless
  BY ArmingSends DEF Harmless
<1>3. IdleTick(f) \/ ProcessTransition(f)
  BY <1>1, NothingHeld DEF OnTimer, ProcessTakeoff, ProcessLand, Operations
<1> HIDE DEF f
<1>4. CASE IdleTick(f)
  BY <1>1, <1>2, <1>4, AppendProperties DEF IdleTick
<1>5. CASE ProcessTransition(f)
  <2> DEFINE wish == IF fs.toFixedWing THEN "TO_FW" ELSE "TO_MC"
             wished == IF f.due THEN <<wish>> ELSE <<>>
  <2>1. \/ fs' = Finished(f) /\ sent' = Append(ArmCommands, "INACTIVE")
        \/ fs' = [f EXCEPT !.due = FALSE] /\ sent' = ArmCommands \o wished
    BY <1>5 DEF ProcessTransition, FinishOperation
  <2>2. wish \in Harmless
    BY DEF Harmless
  <2> HIDE DEF wish
  <2>3. wished \in Seq(Harmless)
    BY <2>2, ShortSequences
  <2> HIDE DEF wished
  <2>4. sent' \in Seq(Harmless)
    <3>1. ArmCommands \o wished \in Seq(Harmless)
      BY <1>2, <2>3, ConcatProperties
    <3>2. Append(ArmCommands, "INACTIVE") \in Seq(Harmless)
      BY <1>2, AppendProperties
    <3> QED
      BY <2>1, <3>1, <3>2
  <2>5. fs' \in Goalless
    BY <1>1, <2>1 DEF Finished, Goalless
  <2> QED
    BY <2>4, <2>5
<1> QED
  BY <1>3, <1>4, <1>5

-----------------------------------------------------------------------------
(* What PX4 makes of it.                                                   *)

LEMMA ObeyedIsACommand ==
  ASSUME NEW commands, NEW p
  PROVE  \/ Obeyed(commands, p) = p
         \/ \E i \in DOMAIN commands : Obeyed(commands, p) = Obey(commands[i], p)
BY DEF Obeyed

LEMMA ObeyType ==
  ASSUME NEW command, NEW p \in Plant
  PROVE  Obey(command, p) \in Plant /\ Obey(command, p).down = p.down
BY DEF Obey, Plant

LEMMA TickIsSafe ==
  ASSUME LandingInvariant, SupervisorTimer
  PROVE  LandingInvariant'
<1>1. /\ fs \in Goalless /\ px \in Plant /\ OnTimer
      /\ px' = Obeyed(sent', px) /\ report' = report
  BY DEF LandingInvariant, SupervisorTimer, OnTimer
<1>2. px' \in Plant /\ px'.down = px.down
  BY <1>1, ObeyedIsACommand, ObeyType
<1>3. CASE fs.operation = "LAND"
  <2>1. /\ fs' \in Goalless /\ (fs'.operation = "LAND" \/ report.ground = "landed")
        /\ \A i \in DOMAIN sent' : sent'[i] \in {"NAV_LAND", "INACTIVE"}
    BY <1>1, <1>3, LandTick
  <2>2. px'.landing => px'.target = "MC"
    <3>1. CASE px' = px
      BY <3>1 DEF LandingInvariant, LandingStaysMulticopter
    <3>2. ASSUME NEW i \in DOMAIN sent', px' = Obey(sent'[i], px)
          PROVE  px'.landing => px'.target = "MC"
      BY <1>1, <2>1, <3>2 DEF LandingInvariant, LandingStaysMulticopter, Obey, Plant
    <3> QED
      BY <1>1, <3>1, <3>2, ObeyedIsACommand
  <2> QED
    BY <1>1, <1>2, <2>1, <2>2 DEF LandingInvariant, LandingStaysMulticopter
<1>4. CASE fs.operation # "LAND"
  <2>1. fs' \in Goalless /\ \A i \in DOMAIN sent' : sent'[i] \in Harmless
    BY <1>1, <1>4, OtherTick
  <2>2. px.landing => px.down
    BY <1>4 DEF LandingInvariant
  <2>3. /\ px'.landing = px.landing
        /\ px.landing => px'.target = "MC"
    <3>1. CASE px' = px
      BY <3>1 DEF LandingInvariant, LandingStaysMulticopter
    <3>2. ASSUME NEW i \in DOMAIN sent', px' = Obey(sent'[i], px)
          PROVE  px'.landing = px.landing /\ (px.landing => px'.target = "MC")
      BY <1>1, <2>1, <2>2, <3>2 DEF LandingInvariant, LandingStaysMulticopter, Obey, Plant, Harmless
    <3> QED
      BY <1>1, <3>1, <3>2, ObeyedIsACommand
  <2> QED
    BY <1>1, <1>2, <2>1, <2>2, <2>3 DEF LandingInvariant, LandingStaysMulticopter
<1> QED
  BY <1>3, <1>4

(* A request changes the operation of a supervisor that is not landing.    *)
LEMMA ReadIsSafe ==
  ASSUME LandingInvariant, SupervisorReads
  PROVE  LandingInvariant'
<1>1. fs \in Goalless /\ px' = px
  BY DEF LandingInvariant, SupervisorReads
<1>2. fs' \in Goalless /\ report' = report
        /\ (fs.operation = "LAND" => fs'.operation = "LAND")
  <2>1. CASE UNCHANGED vars
    BY <1>1, <2>1 DEF vars
  <2>2. CASE StartManualLand
    <3>1. [[fs.held EXCEPT !["TAKEOFF"] = {}] EXCEPT !["TRANSITION"] = {}] = fs.held
      BY <1>1 DEF Goalless, NoHandles
    <3> QED
      BY <1>1, <2>2, <3>1 DEF StartManualLand, Preemptible, Goalless, Operations
  <2>3. ASSUME NEW fixedWing \in BOOLEAN, StartManualTransition(fixedWing)
        PROVE  fs' \in Goalless /\ report' = report /\ fs.operation # "LAND"
    BY <1>1, <2>3 DEF StartManualTransition, MayStart, Goalless, Operations
  <2>4. \/ UNCHANGED vars \/ StartManualLand
        \/ \E fixedWing \in BOOLEAN : StartManualTransition(fixedWing)
    BY DEF SupervisorReads
  <2> QED
    BY <2>1, <2>2, <2>3, <2>4
<1> QED
  BY <1>1, <1>2 DEF LandingInvariant, LandingStaysMulticopter

-----------------------------------------------------------------------------
LEMMA EveryDroneStep ==
  ASSUME LandingInvariant, [DroneNext]_droneVars
  PROVE  LandingInvariant'
<1>1. CASE VehicleTransition
  BY <1>1 DEF VehicleTransition, LandingInvariant, Plant, vars, LandingStaysMulticopter
<1>2. CASE Touchdown
  BY <1>2 DEF Touchdown, LandingInvariant, Plant, vars, LandingStaysMulticopter
<1>3. CASE SupervisorHears
  BY <1>3 DEF SupervisorHears, OnState, VehicleState, LandingInvariant, Plant, LandingStaysMulticopter
<1>4. CASE SupervisorReads
  BY <1>4, ReadIsSafe
<1>5. CASE SupervisorTimer
  BY <1>5, TickIsSafe
<1>6. CASE SupervisorTime
  BY <1>6 DEF SupervisorTime, PeriodPasses, LandingInvariant, Goalless, LandingStaysMulticopter
<1>7. CASE UNCHANGED <<vars, px>>
  BY <1>7 DEF vars, LandingInvariant, LandingStaysMulticopter
<1>8. NavHears \/ NavTime \/ NavClients \/ NavReadsLand \/ PilotLands
        => UNCHANGED <<vars, px>>
  BY DEF NavHears, NavTime, NavClients, NavReadsLand, PilotLands
<1>9. ASSUME NEW graceOver \in BOOLEAN, NEW arrived \in BOOLEAN,
             NavTimer(graceOver, arrived)
      PROVE  UNCHANGED <<vars, px>>
  BY <1>9 DEF NavTimer
<1>10. UNCHANGED droneVars => UNCHANGED <<vars, px>>
  BY DEF droneVars
<1> QED
  BY <1>1, <1>2, <1>3, <1>4, <1>5, <1>6, <1>7, <1>8, <1>9, <1>10 DEF DroneNext

LEMMA LandingBeginning == DroneInit => LandingInvariant
BY DEF DroneInit, LandingInvariant, Plant, LandingStaysMulticopter, Init, Goalless, NoHandles,
       NoReport, Operations

(* A vehicle that PX4 was asked to land is never sent back to fixed wing:  *)
(* the supervisor that landed it refuses every transition until it is down. *)
THEOREM LandingKeepsItsMode == DroneSpec => []LandingStaysMulticopter
<1>1. LandingInvariant /\ [DroneNext]_droneVars => LandingInvariant'
  BY EveryDroneStep
<1>2. LandingInvariant => LandingStaysMulticopter
  BY DEF LandingInvariant
<1> QED
  BY <1>1, <1>2, LandingBeginning, PTL DEF DroneSpec
=============================================================================
