-------------------------- MODULE MotionChain_proofs --------------------------
(***************************************************************************)
(* Proofs about the way of a velocity to PX4, for every timeout, every     *)
(* order of the three timers and every death of a node.                    *)
(***************************************************************************)
EXTENDS MotionChain, FiniteSetTheorems, TLAPS

Inputs == [command: Commands, since: 0..Timeout]

Ranges == [radius: Nat, trigger: Nat]

TypeOK ==
  /\ intents \in [Sources -> Inputs] /\ manual_override \in BOOLEAN
  /\ command \in Inputs /\ have_state \in BOOLEAN
  /\ obstacles \in [points: BOOLEAN, since: 0..Timeout]
  /\ avoidance_enabled \in BOOLEAN /\ active_mode \in Apf!Modes
  /\ profiles \in [Apf!Modes -> Ranges] /\ active_lidar_range \in Nat
  /\ active_parameters \in Ranges
  /\ safe_command \in Inputs /\ last_active_command \in Commands
  /\ fixed_wing \in BOOLEAN
  /\ setpoint \in [command: Commands, fixed_wing: BOOLEAN]
  /\ alive \in SUBSET Nodes /\ "px4_gateway" \in alive /\ due \in SUBSET alive
  /\ led \in 0..Settled /\ seen \in 0..Settled

-----------------------------------------------------------------------------
(* How old a velocity can be at each node: a node that runs has heard from *)
(* the one before in this period, or has its timer still to come; what a   *)
(* node that died said last is used until the timeout.                     *)
Lag(n) == IF n \in alive THEN 1 ELSE Timeout + 1

Recent(n, input) ==
  n \in alive /\ input.command.active => input.since <= IF n \in due THEN 1 ELSE 0

Ages ==
  /\ \A s \in Sources :
       intents[s].command.active => intents[s].command.age <= intents[s].since
  /\ command.command.active => command.command.age <= Timeout + command.since
  /\ Recent("command_mux", command)
  /\ safe_command.command.active =>
       safe_command.command.age <= Timeout + Lag("command_mux") + safe_command.since
  /\ Recent("apf_safety", safe_command)
  /\ Flown.active /\ ~setpoint.fixed_wing =>
       Flown.age <= Timeout + Lag("command_mux") + Lag("apf_safety")
                      + (IF "px4_gateway" \in due THEN 1 ELSE 0)

(* How far the supervisor's intent has come, after "led" selections of it. *)
Supervised(c) == c.active => c.source = "supervisor"

ReachedGateway ==
  \/ led >= 3
  \/ led = 2 /\ ("command_mux" \in due \/ "apf_safety" \notin due)
  \/ led = 1 /\ "command_mux" \in due /\ "apf_safety" \notin due

ReachedSetpoint ==
  \/ led >= 4
  \/ led = 3 /\ ("command_mux" \in due \/ "px4_gateway" \notin due)
  \/ led = 2 /\ "command_mux" \in due /\ "px4_gateway" \notin due

Leading ==
  /\ \A s \in Sources : intents[s].command.active => intents[s].command.source = s
  /\ ~have_state => ~last_active_command.active /\ ~safe_command.command.active
  /\ alive = Nodes =>
       /\ led >= 1 => command.command.active /\ command.command.source = "supervisor"
       /\ ReachedGateway =>
            Supervised(safe_command.command) /\ Supervised(last_active_command)
       /\ ReachedSetpoint => Supervised(Flown)

(* How far an obstacle has come, after "seen" velocities bent around it.   *)
Avoids(c) == c.active => c.filtered

SeenInSetpoint ==
  \/ seen >= 3
  \/ seen = 2 /\ ("apf_safety" \in due \/ "px4_gateway" \notin due)
  \/ seen = 1 /\ "apf_safety" \in due /\ "px4_gateway" \notin due

Avoiding ==
  /\ seen >= 1 => Avoids(safe_command.command)
  /\ SeenInSetpoint /\ ~setpoint.fixed_wing => Avoids(Flown)

IInv == TypeOK /\ Ages /\ Leading /\ Avoiding /\ ModeIsApplied

-----------------------------------------------------------------------------
(* What the three nodes compute.                                           *)
LEMMA Constants == Timeout \in Nat /\ Timeout >= 1 /\ MaxAge \in Nat /\ MaxAge > Timeout
BY MotionAssumption

LEMMA MuxFresh ==
  \A s \in Sources : Mux!Fresh(intents[s]) <=> Fresh(intents[s])
BY DEF Mux!Fresh, Fresh

(* The multiplexer passes on a fresh intent, and the supervisor's if that  *)
(* is fresh.                                                               *)
LEMMA Selects ==
  ASSUME TypeOK
  PROVE  /\ Mux!Selected = Inactive \/
              \E s \in Sources : Fresh(intents[s]) /\ Mux!Selected = intents[s].command
         /\ Fresh(intents["supervisor"]) => Mux!Selected = intents["supervisor"].command
<1> DEFINE fresh == {s \in Mux!Sources : Mux!Fresh(intents[s])}
<1>1. /\ Mux!Sources = {"supervisor", "autonomous", "manual"}
      /\ Sources = {"supervisor", "autonomous", "manual"}
  BY DEF Mux!Sources, Sources
<1>2. /\ Mux!Rank("supervisor") = 3 /\ Mux!Rank("autonomous") = 1
      /\ Mux!Rank("manual") \in {0, 2}
  BY DEF Mux!Rank
<1>3. fresh # {} => \E s \in fresh : \A r \in fresh : Mux!Rank(r) <= Mux!Rank(s)
  <2>1. CASE "supervisor" \in fresh
    BY <1>1, <1>2, <2>1
  <2>2. CASE "supervisor" \notin fresh /\ Mux!Rank("manual") = 2 /\ "manual" \in fresh
    BY <1>1, <1>2, <2>2
  <2>3. CASE /\ "supervisor" \notin fresh /\ ~(Mux!Rank("manual") = 2 /\ "manual" \in fresh)
             /\ "autonomous" \in fresh
    BY <1>1, <1>2, <2>3
  <2>4. CASE "supervisor" \notin fresh /\ "autonomous" \notin fresh
    BY <1>1, <1>2, <2>4
  <2> QED
    BY <2>1, <2>2, <2>3, <2>4
<1> DEFINE best == CHOOSE s \in fresh : \A r \in fresh : Mux!Rank(r) <= Mux!Rank(s)
<1>4. fresh # {} => best \in fresh /\ \A r \in fresh : Mux!Rank(r) <= Mux!Rank(best)
  BY <1>3
<1>5. Mux!Selected = IF fresh = {} THEN Inactive ELSE intents[best].command
  BY DEF Mux!Selected, Mux!Inactive, Inactive
<1>6. \A s \in Sources : s \in fresh <=> Fresh(intents[s])
  BY <1>1, MuxFresh
<1>7. fresh \subseteq Sources
  BY <1>1
<1> HIDE DEF fresh, best
<1>8. ASSUME "supervisor" \in fresh PROVE best = "supervisor"
  <2>1. best \in Sources /\ 3 <= Mux!Rank(best)
    BY <1>2, <1>4, <1>7, <1>8
  <2>2. best # "autonomous" /\ best # "manual"
    BY <1>2, <2>1
  <2> QED
    BY <1>1, <2>1, <2>2
<1> QED
  BY <1>1, <1>4, <1>5, <1>6, <1>7, <1>8

(* The safety node passes on a fresh command, bent or not.                 *)
LEMMA Bends ==
  ASSUME TypeOK
  PROVE  \/ /\ have_state /\ Fresh(command)
            /\ Apf!SafeCommand \in Commands
            /\ Apf!SafeCommand.active
            /\ Apf!SafeCommand.source = command.command.source
            /\ Apf!SafeCommand.age = command.command.age
            /\ Apf!SafeCommand.filtered = (avoidance_enabled /\ Apf!SeesObstacles)
         \/ ~(have_state /\ Fresh(command)) /\ Apf!SafeCommand = Inactive
<1>1. Apf!Fresh(command) <=> Fresh(command)
  BY DEF Apf!Fresh, Fresh
<1>2. (avoidance_enabled /\ Apf!SeesObstacles) \in BOOLEAN
  BY DEF TypeOK, Apf!SeesObstacles
<1>3. command.command \in Commands
  BY DEF TypeOK, Inputs
<1>4. CASE have_state /\ Fresh(command)
  <2>1. Apf!SafeCommand =
          [command.command EXCEPT !.filtered = avoidance_enabled /\ Apf!SeesObstacles]
    BY <1>1, <1>4 DEF Apf!SafeCommand
  <2>2. command.command.active
    BY <1>4 DEF Fresh
  <2> QED
    BY <1>2, <1>3, <1>4, <2>1, <2>2 DEF Commands
<1>5. CASE ~(have_state /\ Fresh(command))
  BY <1>1, <1>5 DEF Apf!SafeCommand, Apf!Inactive, Inactive
<1> QED
  BY <1>4, <1>5

LEMMA InactiveType == Inactive \in Commands /\ ~Inactive.active /\ NoInput \in Inputs
                      /\ NoInput.command = Inactive /\ NoInput.since = 0
BY Constants DEF Inactive, Commands, NoInput, Inputs

LEMMA ReceivedType ==
  ASSUME NEW c \in Commands
  PROVE  Received(c) \in Inputs /\ Received(c).command = c /\ Received(c).since = 0
BY Constants DEF Received, Inputs

(* The gateway flies a fresh command, or an old one with a fixed wing.     *)
LEMMA Flies ==
  ASSUME TypeOK
  PROVE  \/ Fresh(safe_command) /\ Gateway!ActiveCommand = safe_command.command
         \/ fixed_wing /\ Gateway!ActiveCommand = last_active_command
         \/ Gateway!ActiveCommand = Inactive
BY DEF Gateway!ActiveCommand, Gateway!Fresh, Fresh, Gateway!Inactive, Inactive

(* One period later.                                                       *)
LEMMA AgesByOne ==
  ASSUME NEW c \in Commands
  PROVE  /\ OlderCommand(c) \in Commands
         /\ OlderCommand(c).active = c.active /\ OlderCommand(c).source = c.source
         /\ OlderCommand(c).filtered = c.filtered
         /\ OlderCommand(c).age <= c.age + 1
<1>1. Later(c.age) \in 0..MaxAge /\ Later(c.age) <= c.age + 1
  BY Constants DEF Commands, Later
<1>2. CASE c.active
  <2>1. OlderCommand(c) = [c EXCEPT !.age = Later(c.age)]
    BY <1>2 DEF OlderCommand
  <2> QED
    BY <1>1, <2>1 DEF Commands
<1>3. CASE ~c.active
  BY <1>3, Constants DEF OlderCommand, Commands
<1> QED
  BY <1>2, <1>3

LEMMA InputAges ==
  ASSUME NEW input \in Inputs
  PROVE  /\ Older(input) \in Inputs
         /\ \/ ~Older(input).command.active
            \/ /\ input.command.active /\ Older(input).since = input.since + 1
               /\ Older(input).command.source = input.command.source
               /\ Older(input).command.filtered = input.command.filtered
               /\ Older(input).command.age <= input.command.age + 1
         /\ input.command.active /\ input.since < Timeout => Older(input).command.active
<1>1. input.command \in Commands /\ input.since \in 0..Timeout
  BY DEF Inputs
<1>2. CASE input.command.active /\ input.since < Timeout
  <2> DEFINE c == OlderCommand(input.command)
  <2>1. Older(input) = [command |-> c, since |-> input.since + 1]
    BY <1>2 DEF Older
  <2>2. /\ c \in Commands /\ c.active = input.command.active
        /\ c.source = input.command.source /\ c.filtered = input.command.filtered
        /\ c.age <= input.command.age + 1
    BY <1>1, AgesByOne
  <2>3. input.since + 1 \in 0..Timeout
    BY <1>1, <1>2, Constants
  <2> HIDE DEF c
  <2>4. Older(input).command = c /\ Older(input).since = input.since + 1
    BY <2>1
  <2>5. Older(input) \in Inputs
    BY <2>1, <2>2, <2>3 DEF Inputs
  <2> QED
    BY <1>2, <2>2, <2>4, <2>5
<1>3. CASE ~(input.command.active /\ input.since < Timeout)
  BY <1>3, InactiveType DEF Older
<1> QED
  BY <1>2, <1>3

-----------------------------------------------------------------------------
(* A pilot speaks.                                                         *)
LEMMA PilotKeeps == IInv /\ PilotSpeaks => IInv'
<1> SUFFICES ASSUME IInv, PilotSpeaks PROVE IInv'
  OBVIOUS
<1>1. PICK s \in Sources, c \in Commands :
        /\ c.active => c.source = s /\ c.age = 0
        /\ intents' = [intents EXCEPT ![s] = Received(c)]
        /\ UNCHANGED <<manual_override, apfVars, gatewayVars, clockVars>>
  <2>1. PICK s \in Sources, override \in BOOLEAN :
          \/ Mux!OnIntent(s, Intent(s, override))
          \/ Mux!OnIntent(s, Inactive)
    BY DEF PilotSpeaks
  <2>2. /\ Intent(s, override) \in Commands
        /\ Intent(s, override).source = s /\ Intent(s, override).age = 0
    <3>1. Inactive \in Commands /\ Inactive.age = 0
      BY InactiveType DEF Inactive
    <3> QED
      BY <3>1 DEF Intent, Commands
  <2>3. PICK c \in {Intent(s, override), Inactive} : Mux!OnIntent(s, c)
    BY <2>1
  <2>4. c \in Commands /\ (c.active => c.source = s /\ c.age = 0)
    BY <2>2, <2>3, InactiveType
  <2>5. /\ intents' = [intents EXCEPT ![s] = Received(c)]
        /\ UNCHANGED <<manual_override, apfVars, gatewayVars, clockVars>>
    BY <2>3 DEF PilotSpeaks, Mux!OnIntent, Mux!Received, Received
  <2> QED
    BY <2>4, <2>5
<1>2. /\ Received(c) \in Inputs /\ Received(c).command = c /\ Received(c).since = 0
  BY ReceivedType
<1>3. \A r \in Sources : intents'[r] = IF r = s THEN Received(c) ELSE intents[r]
  BY <1>1 DEF IInv, TypeOK
<1>4. TypeOK'
  BY <1>1, <1>2 DEF IInv, TypeOK, apfVars, modeVars, gatewayVars, clockVars
<1>5. \A r \in Sources :
        intents'[r].command.active =>
          intents'[r].command.age <= intents'[r].since /\ intents'[r].command.source = r
  BY <1>1, <1>2, <1>3 DEF IInv, Ages, Leading
<1>6. Ages'
  BY <1>1, <1>5 DEF IInv, Ages, Recent, Lag, Flown, apfVars, gatewayVars, clockVars
<1>7. Leading'
  BY <1>1, <1>5 DEF IInv, Leading, Supervised, ReachedGateway, ReachedSetpoint, Flown,
                    apfVars, gatewayVars, clockVars
<1>8. Avoiding' /\ ModeIsApplied'
  BY <1>1 DEF IInv, Avoiding, Avoids, SeenInSetpoint, Flown, ModeIsApplied,
              Apf!ModeIsApplied, Apf!Applied, apfVars, modeVars, gatewayVars, clockVars
<1> QED
  BY <1>4, <1>6, <1>7, <1>8 DEF IInv

-----------------------------------------------------------------------------
(* The multiplexer's timer.                                                *)
LEMMA MuxKeeps == IInv /\ MuxTimer => IInv'
<1> SUFFICES ASSUME IInv, MuxTimer PROVE IInv'
  OBVIOUS
<1> DEFINE c == Mux!Selected
           supervised == Fresh(intents["supervisor"])
<1>1. /\ "command_mux" \in due /\ due' = due \ {"command_mux"}
      /\ command' = Received(c) /\ led' = Counted(led, supervised)
      /\ manual_override' = Mux!ManualOverride
      /\ UNCHANGED <<intents, have_state, obstacles, avoidance_enabled, modeVars,
                     gatewayVars, alive, seen>>
  BY DEF MuxTimer, Mux!OnTimer, Apf!OnCommand, Apf!Received, Received, Apf!modeVars, modeVars
<1>2. Mux!ManualOverride \in BOOLEAN
  <2>1. "manual" \in Sources /\ intents["manual"] \in Inputs
    BY DEF Sources, IInv, TypeOK
  <2> QED
    BY <2>1 DEF Mux!ManualOverride, Mux!Fresh, Inputs, Commands
<1>3. TypeOK
  BY DEF IInv
<1>4. /\ c \in Commands
      /\ c.active => c.age <= Timeout
      /\ supervised => c.active /\ c.source = "supervisor"
  <2>1. \A s \in Sources :
          /\ intents[s].command \in Commands
          /\ Fresh(intents[s]) =>
               /\ intents[s].command.active /\ intents[s].command.source = s
               /\ intents[s].command.age <= intents[s].since
               /\ intents[s].since <= Timeout
    BY DEF IInv, TypeOK, Inputs, Ages, Leading, Fresh
  <2>2. \A s \in Sources : intents[s].since \in Nat /\ intents[s].command.age \in Nat
    BY Constants DEF IInv, TypeOK, Inputs, Commands
  <2>3. \A s \in Sources : Fresh(intents[s]) => intents[s].command.age <= Timeout
    BY <2>1, <2>2, Constants
  <2>4. "supervisor" \in Sources
    BY DEF Sources
  <2> QED
    BY <1>3, <2>1, <2>3, <2>4, Selects, InactiveType
<1> HIDE DEF c, supervised
<1>5. /\ Received(c) \in Inputs /\ Received(c).command = c /\ Received(c).since = 0
  BY <1>4, ReceivedType
<1>6. led' \in 0..Settled /\ (led' >= 1 => supervised)
  BY <1>1 DEF IInv, TypeOK, Counted, Settled
<1>7. TypeOK'
  BY <1>1, <1>2, <1>5, <1>6 DEF IInv, TypeOK, modeVars, gatewayVars
<1>8. Ages'
  <2>1. c.age \in Nat /\ c.active \in BOOLEAN
    BY <1>4, Constants DEF Commands
  <2> QED
    BY <1>1, <1>4, <1>5, <2>1, Constants DEF IInv, Ages, Recent, Lag, Flown, gatewayVars
<1>9. Leading'
  <2>1. led' >= 1 => led' <= led + 1
    BY <1>1 DEF IInv, TypeOK, Counted, Settled
  <2>2. ReachedGateway' => led' >= 1 /\ ReachedGateway
    BY <1>1, <1>6, <2>1 DEF ReachedGateway, IInv, TypeOK, Settled
  <2>3. ReachedSetpoint' => led' >= 1 /\ ReachedSetpoint
    BY <1>1, <1>6, <2>1 DEF ReachedSetpoint, IInv, TypeOK, Settled
  <2> QED
    BY <1>1, <1>4, <1>5, <1>6, <2>2, <2>3 DEF IInv, Leading, Supervised, Flown, gatewayVars
<1>10. Avoiding' /\ ModeIsApplied'
  BY <1>1 DEF IInv, Avoiding, Avoids, SeenInSetpoint, Flown, ModeIsApplied,
              Apf!ModeIsApplied, Apf!Applied, modeVars, gatewayVars
<1> QED
  BY <1>7, <1>8, <1>9, <1>10 DEF IInv

-----------------------------------------------------------------------------
(* The safety node's timer.                                                *)
LEMMA ApfKeeps == IInv /\ ApfTimer => IInv'
<1> SUFFICES ASSUME IInv, ApfTimer PROVE IInv'
  OBVIOUS
<1> DEFINE c == Apf!SafeCommand
           bent == avoidance_enabled /\ Apf!SeesObstacles
           last == IF c.active THEN [c EXCEPT !.age = MaxAge] ELSE last_active_command
<1>1. /\ "apf_safety" \in due /\ due' = due \ {"apf_safety"}
      /\ safe_command' = Received(c) /\ seen' = Counted(seen, bent)
      /\ last_active_command' = last
      /\ UNCHANGED <<muxVars, apfVars, alive, led, fixed_wing, setpoint>>
  BY DEF ApfTimer, Gateway!OnSafeCommand, Gateway!Received, Received
<1>2. TypeOK
  BY DEF IInv
<1>3. \/ /\ have_state /\ Fresh(command) /\ c \in Commands /\ c.active
         /\ c.source = command.command.source /\ c.age = command.command.age
         /\ c.filtered = bent
      \/ ~(have_state /\ Fresh(command)) /\ c = Inactive
  BY <1>2, Bends
<1> HIDE DEF c, bent
<1>4. c \in Commands /\ (c.active => have_state)
  BY <1>3, InactiveType
<1>5. Received(c) \in Inputs /\ Received(c).command = c /\ Received(c).since = 0
  BY <1>4, ReceivedType
<1>6. /\ last \in Commands
      /\ c.active => last.source = c.source
      /\ ~c.active => last = last_active_command
  BY <1>2, <1>4, Constants DEF TypeOK, Commands
<1> HIDE DEF last
<1>7. seen' \in 0..Settled /\ (seen' >= 1 => bent /\ seen' <= seen + 1)
  BY <1>1 DEF IInv, TypeOK, Counted, Settled
<1>8. TypeOK'
  BY <1>1, <1>5, <1>6, <1>7 DEF IInv, TypeOK, muxVars, apfVars, modeVars
<1>9. Ages'
  <2>1. c.active => c.age <= Timeout + Lag("command_mux")
    <3>1. CASE have_state /\ Fresh(command) /\ c.age = command.command.age
      <4>1. command.command.active /\ command.since <= Timeout /\ command.since \in Nat
            /\ command.command.age \in Nat
        BY <3>1, Constants DEF Fresh, IInv, TypeOK, Inputs, Commands
      <4>2. command.since <= Lag("command_mux")
        BY <4>1, Constants DEF Lag, IInv, Ages, Recent
      <4>3. command.command.age <= Timeout + command.since
        BY <4>1 DEF IInv, Ages
      <4>4. Lag("command_mux") \in Nat
        BY Constants DEF Lag
      <4> QED
        BY <3>1, <4>1, <4>2, <4>3, <4>4, Constants
    <3> QED
      BY <1>3, <3>1, InactiveType
  <2>2. c.age \in Nat /\ Lag("command_mux") \in Nat /\ c.active \in BOOLEAN
    BY <1>4, Constants DEF Commands, Lag
  <2>3. /\ intents' = intents /\ command' = command /\ alive' = alive
        /\ setpoint' = setpoint /\ Lag("command_mux")' = Lag("command_mux")
        /\ Lag("apf_safety")' = Lag("apf_safety")
        /\ "command_mux" \in due' <=> "command_mux" \in due
        /\ "px4_gateway" \in due' <=> "px4_gateway" \in due
    BY <1>1 DEF muxVars, apfVars, Lag
  <2> QED
    BY <1>1, <1>5, <2>1, <2>2, <2>3, Constants DEF IInv, Ages, Recent, Flown
<1>10. Leading'
  <2>1. /\ intents' = intents /\ command' = command /\ alive' = alive /\ led' = led
        /\ setpoint' = setpoint /\ have_state' = have_state
        /\ "command_mux" \in due' <=> "command_mux" \in due
        /\ "px4_gateway" \in due' <=> "px4_gateway" \in due
    BY <1>1 DEF muxVars, apfVars
  <2>2. ~have_state => ~last.active /\ ~c.active
    BY <1>4, <1>6 DEF IInv, Leading
  <2>3. ASSUME alive = Nodes, led >= 1 PROVE Supervised(c) /\ Supervised(last)
    <3>1. command.command.active /\ command.command.source = "supervisor"
      BY <2>3 DEF IInv, Leading
    <3>2. Fresh(command)
      <4>1. command.since <= 1
        BY <2>3, <3>1 DEF Nodes, IInv, Ages, Recent, TypeOK, Inputs
      <4>2. command.since \in Nat
        BY Constants DEF IInv, TypeOK, Inputs
      <4> QED
        BY <3>1, <4>1, <4>2, Constants DEF Fresh
    <3>3. CASE have_state
      BY <1>3, <1>6, <3>1, <3>2, <3>3 DEF Supervised
    <3>4. CASE ~have_state
      BY <2>2, <3>4 DEF Supervised
    <3> QED
      BY <3>3, <3>4
  <2>4. ReachedGateway' => led >= 1
    BY <2>1 DEF ReachedGateway, IInv, TypeOK, Settled
  <2>5. ReachedSetpoint' => ReachedSetpoint
    BY <2>1 DEF ReachedSetpoint
  <2> QED
    BY <1>1, <1>5, <2>1, <2>2, <2>3, <2>4, <2>5 DEF IInv, Leading, Flown
<1>11. Avoiding'
  <2>1. seen' >= 1 => Avoids(c)
    BY <1>3, <1>7, InactiveType DEF Avoids
  <2>2. SeenInSetpoint' => SeenInSetpoint
    BY <1>1, <1>7 DEF SeenInSetpoint, IInv, TypeOK, Settled
  <2> QED
    BY <1>1, <1>5, <2>1, <2>2 DEF IInv, Avoiding, Flown
<1>12. ModeIsApplied'
  BY <1>1 DEF IInv, ModeIsApplied, Apf!ModeIsApplied, Apf!Applied, apfVars, modeVars
<1> QED
  BY <1>8, <1>9, <1>10, <1>11, <1>12 DEF IInv

-----------------------------------------------------------------------------
(* The gateway's timer.                                                    *)
LEMMA GatewayKeeps == IInv /\ GatewayTimer => IInv'
<1> SUFFICES ASSUME IInv, GatewayTimer PROVE IInv'
  OBVIOUS
<1> DEFINE c == Gateway!ActiveCommand
<1>1. /\ "px4_gateway" \in due /\ due' = due \ {"px4_gateway"}
      /\ setpoint' = [command |-> c, fixed_wing |-> fixed_wing] /\ have_state' = TRUE
      /\ UNCHANGED <<muxVars, command, obstacles, avoidance_enabled, modeVars,
                     safe_command, last_active_command, fixed_wing, alive, led, seen>>
  BY DEF GatewayTimer, Gateway!OnTimer, Apf!OnState, Apf!modeVars, modeVars
<1>2. TypeOK
  BY DEF IInv
<1>3. \/ Fresh(safe_command) /\ c = safe_command.command
      \/ fixed_wing /\ c = last_active_command
      \/ c = Inactive
  BY <1>2, Flies
<1>4. c \in Commands
  BY <1>2, <1>3, InactiveType DEF TypeOK, Inputs
<1> HIDE DEF c
<1>5. setpoint'.command = c /\ setpoint'.fixed_wing = fixed_wing
  BY <1>1
<1>6. TypeOK'
  BY <1>1, <1>4 DEF IInv, TypeOK, muxVars, modeVars
<1>7. Ages'
  <2>1. /\ intents' = intents /\ command' = command /\ alive' = alive
        /\ safe_command' = safe_command /\ Lag("command_mux")' = Lag("command_mux")
        /\ Lag("apf_safety")' = Lag("apf_safety")
        /\ "command_mux" \in due' <=> "command_mux" \in due
        /\ "apf_safety" \in due' <=> "apf_safety" \in due
    BY <1>1 DEF muxVars, Lag
  <2>2. c.active /\ ~fixed_wing =>
          c.age <= Timeout + Lag("command_mux") + Lag("apf_safety")
    <3>1. CASE Fresh(safe_command) /\ c = safe_command.command
      <4>1. /\ safe_command.command.active /\ safe_command.since <= Timeout
            /\ safe_command.since \in Nat /\ c.age \in Nat
        BY <1>4, <3>1, Constants DEF Fresh, IInv, TypeOK, Inputs, Commands
      <4>2. safe_command.since <= Lag("apf_safety")
        BY <4>1, Constants DEF Lag, IInv, Ages, Recent
      <4>3. c.age <= Timeout + Lag("command_mux") + safe_command.since
        BY <3>1, <4>1 DEF IInv, Ages
      <4>4. Lag("command_mux") \in Nat /\ Lag("apf_safety") \in Nat
        BY Constants DEF Lag
      <4> QED
        BY <4>1, <4>2, <4>3, <4>4, Constants
    <3> QED
      BY <1>3, <3>1, InactiveType
  <2>3. c.age \in Nat /\ Lag("command_mux") \in Nat /\ Lag("apf_safety") \in Nat
    BY <1>4, Constants DEF Commands, Lag
  <2>4. Flown'.active /\ ~setpoint'.fixed_wing =>
          Flown'.age <= Timeout + Lag("command_mux")' + Lag("apf_safety")'
                          + (IF "px4_gateway" \in due' THEN 1 ELSE 0)
    BY <1>1, <1>5, <2>1, <2>2, <2>3, Constants DEF Flown
  <2> QED
    BY <2>1, <2>4 DEF IInv, Ages, Recent
<1>8. Leading'
  <2>1. /\ intents' = intents /\ command' = command /\ alive' = alive /\ led' = led
        /\ safe_command' = safe_command /\ last_active_command' = last_active_command
        /\ "command_mux" \in due' <=> "command_mux" \in due
        /\ "apf_safety" \in due' <=> "apf_safety" \in due
    BY <1>1 DEF muxVars
  <2>2. ReachedGateway' <=> ReachedGateway
    BY <2>1 DEF ReachedGateway
  <2>3. ReachedSetpoint' => ReachedGateway
    BY <1>1, <2>1 DEF ReachedSetpoint, ReachedGateway, IInv, TypeOK, Settled
  <2>4. alive = Nodes /\ ReachedGateway => Supervised(c)
    BY <1>3, InactiveType DEF IInv, Leading, Supervised
  <2> QED
    BY <1>1, <1>5, <2>1, <2>2, <2>3, <2>4 DEF IInv, Leading, Flown
<1>9. Avoiding'
  <2>1. /\ safe_command' = safe_command /\ seen' = seen
        /\ "apf_safety" \in due' <=> "apf_safety" \in due
    BY <1>1
  <2>2. SeenInSetpoint' => seen >= 1
    BY <2>1 DEF SeenInSetpoint, IInv, TypeOK, Settled
  <2>3. seen >= 1 /\ ~fixed_wing => Avoids(c)
    BY <1>3, InactiveType DEF IInv, Avoiding, Avoids
  <2> QED
    BY <1>5, <2>1, <2>2, <2>3 DEF IInv, Avoiding, Flown
<1>10. ModeIsApplied'
  BY <1>1 DEF IInv, ModeIsApplied, Apf!ModeIsApplied, Apf!Applied, modeVars
<1> QED
  BY <1>6, <1>7, <1>8, <1>9, <1>10 DEF IInv

-----------------------------------------------------------------------------
(* What goes on around the three nodes.                                    *)
LEMMA AroundKeeps ==
  ASSUME IInv, TypeOK', ModeIsApplied',
         UNCHANGED <<muxVars, command, have_state, safe_command, last_active_command,
                     setpoint, clockVars>>
  PROVE  IInv'
<1>1. Ages'
  BY DEF IInv, Ages, Recent, Lag, Flown, muxVars, clockVars
<1>2. Leading'
  BY DEF IInv, Leading, Supervised, ReachedGateway, ReachedSetpoint, Flown, muxVars, clockVars
<1>3. Avoiding'
  BY DEF IInv, Avoiding, Avoids, SeenInSetpoint, Flown, clockVars
<1> QED
  BY <1>1, <1>2, <1>3 DEF IInv

LEMMA CloudKeeps == IInv /\ CloudArrives => IInv'
<1> SUFFICES ASSUME IInv, CloudArrives PROVE IInv'
  OBVIOUS
<1>1. PICK points \in BOOLEAN : Apf!OnObstacles(points)
  BY DEF CloudArrives
<1>2. /\ obstacles' = [points |-> points, since |-> 0]
      /\ UNCHANGED <<command, have_state, avoidance_enabled, modeVars, muxVars,
                     gatewayVars, clockVars>>
  BY <1>1 DEF CloudArrives, Apf!OnObstacles, Apf!modeVars, modeVars
<1>3. TypeOK'
  BY <1>2, Constants DEF IInv, TypeOK, modeVars, muxVars, gatewayVars, clockVars
<1>4. ModeIsApplied'
  BY <1>2 DEF IInv, ModeIsApplied, Apf!ModeIsApplied, Apf!Applied, modeVars
<1> QED
  BY <1>2, <1>3, <1>4, AroundKeeps DEF gatewayVars

LEMMA TransitionKeeps == IInv /\ Transition => IInv'
<1> SUFFICES ASSUME IInv, Transition PROVE IInv'
  OBVIOUS
<1>1. /\ fixed_wing' = ~fixed_wing
      /\ UNCHANGED <<safe_command, last_active_command, setpoint, muxVars, apfVars, clockVars>>
  BY DEF Transition, Gateway!OnStatus
<1>2. TypeOK'
  BY <1>1 DEF IInv, TypeOK, muxVars, apfVars, modeVars, clockVars
<1>3. ModeIsApplied'
  BY <1>1 DEF IInv, ModeIsApplied, Apf!ModeIsApplied, Apf!Applied, apfVars, modeVars
<1> QED
  BY <1>1, <1>2, <1>3, AroundKeeps DEF apfVars

(* An operator sets modes and parameters.                                  *)
LEMMA ParametersType ==
  ASSUME NEW range \in Nat
  PROVE  Apf!Parameters(range) \in Ranges /\ Apf!Parameters(range).radius = range
<1>1. Apf!Max2(1, range - 10) \in Nat
  BY DEF Apf!Max2
<1> QED
  BY <1>1 DEF Apf!Parameters, Ranges

LEMMA AppliedTo ==
  ASSUME NEW p \in Ranges, NEW range \in Nat
  PROVE  /\ Apf!Applied(p, range) \in Ranges /\ Apf!Applied(p, range).radius = range
         /\ p.radius = range => Apf!Applied(p, range) = p
<1>1. p = [radius |-> p.radius, trigger |-> p.trigger]
  BY DEF Ranges
<1>2. Apf!Applied(p, range) = [radius |-> range, trigger |-> p.trigger]
  BY <1>1 DEF Apf!Applied, Ranges
<1> QED
  BY <1>1, <1>2 DEF Ranges

LEMMA OperatorKeeps == IInv /\ OperatorSets => IInv'
<1> SUFFICES ASSUME IInv, OperatorSets PROVE IInv'
  OBVIOUS
<1>1. UNCHANGED <<muxVars, gatewayVars, clockVars>>
  BY DEF OperatorSets
<1>2. /\ active_mode \in Apf!Modes /\ profiles \in [Apf!Modes -> Ranges]
      /\ active_lidar_range \in Nat /\ active_parameters \in Ranges
      /\ avoidance_enabled \in BOOLEAN
      /\ active_parameters = Apf!Applied(profiles[active_mode], active_lidar_range)
  BY DEF IInv, TypeOK, ModeIsApplied, Apf!ModeIsApplied
<1>3. active_parameters.radius = active_lidar_range
  BY <1>2, AppliedTo
<1> DEFINE Applies ==
             /\ active_mode' \in Apf!Modes /\ profiles' \in [Apf!Modes -> Ranges]
             /\ active_lidar_range' \in Nat /\ active_parameters' \in Ranges
             /\ avoidance_enabled' \in BOOLEAN
             /\ active_parameters' = Apf!Applied(profiles'[active_mode'], active_lidar_range')
             /\ UNCHANGED <<command, have_state, obstacles>>
<1>4. ASSUME NEW enabled \in BOOLEAN, Apf!SetEnabled(enabled) PROVE Applies
  <2>1. /\ avoidance_enabled' = enabled
        /\ profiles' = [profiles EXCEPT ![active_mode] = active_parameters] \/ profiles' = profiles
        /\ UNCHANGED <<command, have_state, obstacles, active_mode, active_lidar_range,
                       active_parameters>>
    BY <1>4 DEF Apf!SetEnabled, Apf!motionVars
  <2>2. Apf!Applied(active_parameters, active_lidar_range) = active_parameters
    BY <1>2, <1>3, AppliedTo
  <2>3. CASE profiles' = [profiles EXCEPT ![active_mode] = active_parameters]
    <3>1. profiles' \in [Apf!Modes -> Ranges] /\ profiles'[active_mode] = active_parameters
      BY <1>2, <2>3
    <3> QED
      BY <1>2, <2>1, <2>2, <3>1
  <2>4. CASE profiles' = profiles
    BY <1>2, <2>1, <2>4
  <2> QED
    BY <2>1, <2>3, <2>4
<1>5. ASSUME NEW m \in Apf!Modes, Apf!SetMode(m) PROVE Applies
  <2>1. /\ active_mode' = m
        /\ active_parameters' = Apf!Applied(profiles[m], active_lidar_range)
        /\ UNCHANGED <<command, have_state, obstacles, avoidance_enabled, profiles,
                       active_lidar_range>>
    BY <1>5 DEF Apf!SetMode, Apf!motionVars
  <2>2. Apf!Applied(profiles[m], active_lidar_range) \in Ranges
    BY <1>2, AppliedTo
  <2> QED
    BY <1>2, <2>1, <2>2
<1>6. ASSUME NEW p \in Ranges, NEW range \in Nat, p.radius = range,
             profiles' = [profiles EXCEPT ![active_mode] = p], active_parameters' = p,
             active_lidar_range' = range,
             UNCHANGED <<command, have_state, obstacles, avoidance_enabled, active_mode>>
      PROVE  Applies
  <2>1. profiles' \in [Apf!Modes -> Ranges] /\ profiles'[active_mode] = p
    BY <1>2, <1>6
  <2>2. Apf!Applied(p, range) = p
    BY <1>6, AppliedTo
  <2> QED
    BY <1>2, <1>6, <2>1, <2>2
<1>7. ASSUME NEW range \in Distances, Apf!OnLidarRange(range) PROVE Applies
  <2>1. range \in Nat
    BY ApfAssumption
  <2>2. Apf!Parameters(range) \in Ranges /\ Apf!Parameters(range).radius = range
    BY <2>1, ParametersType
  <2>3. /\ profiles' = [profiles EXCEPT ![active_mode] = Apf!Parameters(range)]
        /\ active_parameters' = Apf!Parameters(range) /\ active_lidar_range' = range
        /\ UNCHANGED <<command, have_state, obstacles, avoidance_enabled, active_mode>>
    BY <1>7 DEF Apf!OnLidarRange, Apf!motionVars
  <2> HIDE DEF Applies
  <2> QED
    BY <1>6, <2>1, <2>2, <2>3
<1>8. ASSUME NEW range \in Distances \cup {active_lidar_range, active_parameters.trigger},
             NEW trigger \in Distances \cup {active_lidar_range, active_parameters.trigger},
             Apf!OnParametersSet(range, trigger)
      PROVE  Applies
  <2> DEFINE p == [radius |-> range, trigger |-> trigger]
  <2>1. range \in Nat /\ trigger \in Nat
    BY <1>2, ApfAssumption DEF Ranges
  <2>2. p \in Ranges /\ p.radius = range
    BY <2>1 DEF Ranges
  <2>3. /\ profiles' = [profiles EXCEPT ![active_mode] = p] /\ active_parameters' = p
        /\ active_lidar_range' = range
        /\ UNCHANGED <<command, have_state, obstacles, avoidance_enabled, active_mode>>
    BY <1>8 DEF Apf!OnParametersSet, Apf!motionVars
  <2> HIDE DEF p, Applies
  <2> QED
    BY <1>6, <2>1, <2>2, <2>3
<1> HIDE DEF Applies
<1>9. Applies
  BY <1>4, <1>5, <1>7, <1>8 DEF OperatorSets
<1>10. TypeOK'
  BY <1>1, <1>9 DEF Applies, IInv, TypeOK, muxVars, gatewayVars, clockVars
<1>11. ModeIsApplied'
  BY <1>9 DEF Applies, ModeIsApplied, Apf!ModeIsApplied, Apf!Applied
<1> QED
  BY <1>1, <1>9, <1>10, <1>11, AroundKeeps DEF Applies, gatewayVars

-----------------------------------------------------------------------------
(* A node dies: what it said last may be older, by the timeout.            *)
LEMMA DeathKeeps == IInv /\ Dies => IInv'
<1> SUFFICES ASSUME IInv, Dies PROVE IInv'
  OBVIOUS
<1>1. PICK n \in alive \ {"px4_gateway"} : alive' = alive \ {n} /\ due' = due \ {n}
  BY DEF Dies
<1>2. UNCHANGED <<muxVars, apfVars, gatewayVars, led, seen>>
  BY DEF Dies
<1>3. TypeOK'
  BY <1>1, <1>2 DEF IInv, TypeOK, muxVars, apfVars, modeVars, gatewayVars
<1>4. alive' # Nodes /\ \A m \in {"command_mux", "apf_safety", "px4_gateway"} :
        m \in alive' => (m \in due' <=> m \in due)
  BY <1>1 DEF IInv, TypeOK
<1>5. \A m \in {"command_mux", "apf_safety"} :
        /\ Lag(m) \in Nat /\ Lag(m)' \in Nat /\ Lag(m) <= Lag(m)'
  BY <1>1, Constants DEF Lag
<1>6. Ages'
  <2>1. "px4_gateway" \in due' <=> "px4_gateway" \in due
    BY <1>3, <1>4 DEF TypeOK
  <2>2. Recent("command_mux", command)' /\ Recent("apf_safety", safe_command)'
    BY <1>1, <1>2, <1>4 DEF IInv, Ages, Recent, apfVars, gatewayVars
  <2>3. /\ safe_command \in Inputs /\ safe_command.command.age \in Nat
        /\ safe_command.since \in Nat /\ setpoint.command.age \in Nat
    BY Constants DEF IInv, TypeOK, Inputs, Commands
  <2>4. safe_command.command.active =>
          safe_command.command.age <= Timeout + Lag("command_mux")' + safe_command.since
    BY <1>5, <2>3, Constants DEF IInv, Ages
  <2>5. Flown.active /\ ~setpoint.fixed_wing =>
          Flown.age <= Timeout + Lag("command_mux")' + Lag("apf_safety")'
                         + (IF "px4_gateway" \in due THEN 1 ELSE 0)
    BY <1>5, <2>3, Constants DEF IInv, Ages, Flown
  <2> QED
    BY <1>2, <2>1, <2>2, <2>4, <2>5 DEF IInv, Ages, Flown, muxVars, apfVars, gatewayVars
<1>7. Leading'
  BY <1>2, <1>4 DEF IInv, Leading, muxVars, apfVars, gatewayVars
<1>8. Avoiding'
  <2>1. SeenInSetpoint' => SeenInSetpoint
    BY <1>1, <1>2, <1>3, <1>4 DEF SeenInSetpoint, TypeOK
  <2> QED
    BY <1>2, <2>1 DEF IInv, Avoiding, Avoids, Flown, gatewayVars
<1>9. ModeIsApplied'
  BY <1>2 DEF IInv, ModeIsApplied, Apf!ModeIsApplied, Apf!Applied, apfVars, modeVars
<1> QED
  BY <1>3, <1>6, <1>7, <1>8, <1>9 DEF IInv

-----------------------------------------------------------------------------
(* The next period begins when every node that runs has had its timer.     *)
LEMMA TickKeeps == IInv /\ Tick => IInv'
<1> SUFFICES ASSUME IInv, Tick PROVE IInv'
  OBVIOUS
<1>1. /\ due = {} /\ due' = alive
      /\ intents' = [s \in Sources |-> Older(intents[s])] /\ command' = Older(command)
      /\ obstacles' = Apf!OlderCloud /\ safe_command' = Older(safe_command)
      /\ setpoint' = [setpoint EXCEPT !.command = OlderCommand(@)]
      /\ UNCHANGED <<manual_override, have_state, avoidance_enabled, modeVars,
                     last_active_command, fixed_wing, alive, led, seen>>
  BY DEF Tick
<1>2. /\ command \in Inputs /\ safe_command \in Inputs
      /\ \A s \in Sources : intents[s] \in Inputs
      /\ setpoint \in [command: Commands, fixed_wing: BOOLEAN]
      /\ setpoint.command \in Commands
  BY DEF IInv, TypeOK
<1>3. /\ setpoint' \in [command: Commands, fixed_wing: BOOLEAN]
      /\ setpoint'.fixed_wing = setpoint.fixed_wing
      /\ Flown' \in Commands /\ Flown'.active = Flown.active
      /\ Flown'.source = Flown.source /\ Flown'.filtered = Flown.filtered
      /\ Flown'.age <= Flown.age + 1
  <2> DEFINE c == OlderCommand(setpoint.command)
  <2>1. /\ c \in Commands /\ c.active = setpoint.command.active
        /\ c.source = setpoint.command.source /\ c.filtered = setpoint.command.filtered
        /\ c.age <= setpoint.command.age + 1
    BY <1>2, AgesByOne
  <2>2. setpoint' = [setpoint EXCEPT !.command = c]
    BY <1>1
  <2> HIDE DEF c
  <2>3. setpoint'.command = c /\ setpoint'.fixed_wing = setpoint.fixed_wing
    BY <1>2, <2>2
  <2>4. setpoint' \in [command: Commands, fixed_wing: BOOLEAN]
    BY <1>2, <2>1, <2>2
  <2> QED
    BY <2>1, <2>3, <2>4 DEF Flown
<1>4. obstacles' \in [points: BOOLEAN, since: 0..Timeout]
  <2>1. obstacles \in [points: BOOLEAN, since: 0..Timeout]
    BY DEF IInv, TypeOK
  <2>2. CASE obstacles.points /\ obstacles.since < Timeout
    <3>1. obstacles' = [obstacles EXCEPT !.since = @ + 1]
      BY <1>1, <2>2 DEF Apf!OlderCloud
    <3>2. obstacles.since + 1 \in 0..Timeout
      BY <2>1, <2>2, Constants
    <3> QED
      BY <2>1, <3>1, <3>2
  <2>3. CASE ~(obstacles.points /\ obstacles.since < Timeout)
    BY <1>1, <2>3, Constants DEF Apf!OlderCloud, Apf!NoCloud
  <2> QED
    BY <2>2, <2>3
<1>5. \A input \in Inputs :
        /\ Older(input) \in Inputs
        /\ Older(input).command.active =>
             /\ input.command.active /\ Older(input).since = input.since + 1
             /\ Older(input).command.source = input.command.source
             /\ Older(input).command.filtered = input.command.filtered
             /\ Older(input).command.age <= input.command.age + 1
        /\ input.command.active /\ input.since < Timeout => Older(input).command.active
  BY InputAges
<1>6. \A input \in Inputs :
        input.since \in Nat /\ input.command.age \in Nat
  BY Constants DEF Inputs, Commands
<1>7. TypeOK'
  <2>1. intents' \in [Sources -> Inputs] /\ command' \in Inputs /\ safe_command' \in Inputs
    BY <1>1, <1>2, <1>5
  <2>2. "px4_gateway" \in alive'
    BY <1>1 DEF IInv, TypeOK
  <2> QED
    BY <1>1, <1>3, <1>4, <2>1, <2>2 DEF IInv, TypeOK, modeVars
<1>8. \A s \in Sources :
        intents'[s].command.active =>
          /\ intents'[s].command.source = s
          /\ intents'[s].command.age <= intents'[s].since
  <2> SUFFICES ASSUME NEW s \in Sources, intents'[s].command.active
               PROVE  /\ intents'[s].command.source = s
                      /\ intents'[s].command.age <= intents'[s].since
    OBVIOUS
  <2>1. intents'[s] = Older(intents[s]) /\ intents[s] \in Inputs
    BY <1>1, <1>2
  <2>2. intents[s].command.active
    BY <1>5, <2>1
  <2>3. intents[s].command.age <= intents[s].since /\ intents[s].command.source = s
    BY <2>2 DEF IInv, Ages, Leading
  <2>4. intents'[s].command.age \in Nat
    BY <1>5, <1>6, <2>1
  <2> QED
    BY <1>5, <1>6, <2>1, <2>3, <2>4
<1>9. Ages'
  <2>1. command'.command.active =>
          /\ command'.command.age <= Timeout + command'.since
          /\ "command_mux" \in alive => command'.since <= 1
    <3> SUFFICES ASSUME command'.command.active
                 PROVE  /\ command'.command.age <= Timeout + command'.since
                        /\ "command_mux" \in alive => command'.since <= 1
      OBVIOUS
    <3>1. /\ command.command.active /\ command'.since = command.since + 1
          /\ command'.command.age <= command.command.age + 1
      BY <1>1, <1>2, <1>5
    <3>2. command.command.age <= Timeout + command.since
      BY <3>1 DEF IInv, Ages
    <3>3. "command_mux" \in alive => command.since <= 0
      BY <1>1, <3>1 DEF IInv, Ages, Recent
    <3>4. command'.command.age \in Nat
      BY <1>1, <1>2, <1>5, <1>6
    <3> QED
      BY <1>2, <1>6, <3>1, <3>2, <3>3, <3>4, Constants
  <2>2. safe_command'.command.active =>
          /\ safe_command'.command.age <= Timeout + Lag("command_mux") + safe_command'.since
          /\ "apf_safety" \in alive => safe_command'.since <= 1
    <3> SUFFICES ASSUME safe_command'.command.active
                 PROVE  /\ safe_command'.command.age <=
                             Timeout + Lag("command_mux") + safe_command'.since
                        /\ "apf_safety" \in alive => safe_command'.since <= 1
      OBVIOUS
    <3>1. /\ safe_command.command.active /\ safe_command'.since = safe_command.since + 1
          /\ safe_command'.command.age <= safe_command.command.age + 1
      BY <1>1, <1>2, <1>5
    <3>2. safe_command.command.age <= Timeout + Lag("command_mux") + safe_command.since
      BY <3>1 DEF IInv, Ages
    <3>3. "apf_safety" \in alive => safe_command.since <= 0
      BY <1>1, <3>1 DEF IInv, Ages, Recent
    <3>4. safe_command'.command.age \in Nat /\ Lag("command_mux") \in Nat
      BY <1>1, <1>2, <1>5, <1>6, Constants DEF Lag
    <3> QED
      BY <1>2, <1>6, <3>1, <3>2, <3>3, <3>4, Constants
  <2>3. "px4_gateway" \in due' /\ "px4_gateway" \notin due
    BY <1>1 DEF IInv, TypeOK
  <2>4. Flown'.active /\ ~setpoint'.fixed_wing =>
          Flown'.age <= Timeout + Lag("command_mux") + Lag("apf_safety") + 1
    <3>1. Flown.age \in Nat /\ Flown'.age \in Nat
      BY <1>2, <1>3, Constants DEF Flown, Commands
    <3>2. Lag("command_mux") \in Nat /\ Lag("apf_safety") \in Nat
      BY Constants DEF Lag
    <3> QED
      BY <1>3, <2>3, <3>1, <3>2, Constants DEF IInv, Ages
  <2>5. Lag("command_mux")' = Lag("command_mux") /\ Lag("apf_safety")' = Lag("apf_safety")
    BY <1>1 DEF Lag
  <2>6. Recent("command_mux", command)' /\ Recent("apf_safety", safe_command)'
    BY <1>1, <2>1, <2>2 DEF Recent
  <2> QED
    BY <1>8, <2>1, <2>2, <2>3, <2>4, <2>5, <2>6 DEF Ages
<1>10. Leading'
  <2>1. ~have_state' => ~last_active_command'.active /\ ~safe_command'.command.active
    BY <1>1, <1>2, <1>5 DEF IInv, Leading
  <2>2. ASSUME alive' = Nodes
        PROVE  /\ led' >= 1 => command'.command.active /\ command'.command.source = "supervisor"
               /\ ReachedGateway' =>
                    Supervised(safe_command'.command) /\ Supervised(last_active_command')
               /\ ReachedSetpoint' => Supervised(Flown')
    <3>1. alive = Nodes /\ led' = led
      BY <1>1, <2>2
    <3>2. ASSUME led >= 1
          PROVE  command'.command.active /\ command'.command.source = "supervisor"
      <4>1. command.command.active /\ command.command.source = "supervisor"
        BY <3>1, <3>2 DEF IInv, Leading
      <4>2. command.since <= 0
        BY <1>1, <3>1, <4>1 DEF Nodes, IInv, Ages, Recent
      <4>3. command.since < Timeout
        BY <1>2, <1>6, <4>2, Constants
      <4> QED
        BY <1>1, <1>2, <1>5, <4>1, <4>3
    <3>3. ReachedGateway' => ReachedGateway
      BY <1>1, <3>1 DEF ReachedGateway, Nodes
    <3>4. ReachedSetpoint' => ReachedSetpoint
      BY <1>1, <3>1 DEF ReachedSetpoint, Nodes
    <3>5. Supervised(safe_command.command) => Supervised(safe_command'.command)
      BY <1>1, <1>2, <1>5 DEF Supervised
    <3>6. Supervised(Flown) => Supervised(Flown')
      BY <1>3 DEF Supervised
    <3> QED
      BY <1>1, <3>1, <3>2, <3>3, <3>4, <3>5, <3>6 DEF IInv, Leading
  <2> QED
    BY <1>8, <2>1, <2>2 DEF Leading, Supervised
<1>11. Avoiding'
  <2>1. SeenInSetpoint' => SeenInSetpoint
    BY <1>1 DEF SeenInSetpoint, IInv, TypeOK
  <2>2. Avoids(safe_command.command) => Avoids(safe_command'.command)
    BY <1>1, <1>2, <1>5 DEF Avoids
  <2>3. Avoids(Flown) => Avoids(Flown')
    BY <1>3 DEF Avoids
  <2> QED
    BY <1>1, <1>3, <2>1, <2>2, <2>3 DEF IInv, Avoiding, Avoids
<1>12. ModeIsApplied'
  BY <1>1 DEF IInv, ModeIsApplied, Apf!ModeIsApplied, Apf!Applied, modeVars
<1> QED
  BY <1>7, <1>9, <1>10, <1>11, <1>12 DEF IInv

-----------------------------------------------------------------------------
LEMMA Beginning == Init => IInv
<1> SUFFICES ASSUME Init PROVE IInv
  OBVIOUS
<1>1. /\ intents = [s \in Sources |-> NoInput] /\ manual_override = FALSE
      /\ command = NoInput /\ have_state = FALSE /\ obstacles = [points |-> FALSE, since |-> 0]
      /\ avoidance_enabled = TRUE /\ active_mode = "normal"
      /\ profiles = [m \in Apf!Modes |-> Apf!Parameters(MinRange)]
      /\ active_lidar_range = MinRange /\ active_parameters = Apf!Parameters(MinRange)
      /\ safe_command = NoInput /\ last_active_command = Inactive /\ fixed_wing = FALSE
      /\ setpoint = [command |-> Inactive, fixed_wing |-> FALSE]
      /\ alive = Nodes /\ due = {} /\ led = 0 /\ seen = 0
  BY DEF Init, Mux!Init, Apf!Init, Gateway!Init, Mux!Sources, Sources, Mux!NoInput, Apf!NoInput,
         Gateway!NoInput, NoInput, Mux!Inactive, Apf!Inactive, Gateway!Inactive, Inactive,
         Apf!NoCloud
<1>2. MinRange \in Nat /\ "normal" \in Apf!Modes
  BY ApfAssumption DEF Apf!Modes
<1>3. Apf!Parameters(MinRange) \in Ranges /\ Apf!Parameters(MinRange).radius = MinRange
  BY <1>2, ParametersType
<1>4. setpoint \in [command: Commands, fixed_wing: BOOLEAN] /\ Flown = Inactive
  BY <1>1, InactiveType DEF Flown
<1>5. TypeOK
  <2>1. intents \in [Sources -> Inputs] /\ profiles \in [Apf!Modes -> Ranges]
    BY <1>1, <1>3, InactiveType
  <2>2. obstacles \in [points: BOOLEAN, since: 0..Timeout] /\ 0 \in 0..Settled
    BY <1>1, Constants DEF Settled
  <2> QED
    BY <1>1, <1>2, <1>3, <1>4, <2>1, <2>2, InactiveType DEF TypeOK, Nodes
<1>6. Ages
  BY <1>1, <1>4, InactiveType DEF Ages, Recent
<1>7. Leading
  BY <1>1, <1>4, InactiveType DEF Leading, Supervised, ReachedGateway, ReachedSetpoint
<1>8. Avoiding
  BY <1>1, <1>4, InactiveType DEF Avoiding, Avoids, SeenInSetpoint
<1>9. ModeIsApplied
  BY <1>1, <1>2, <1>3, AppliedTo DEF ModeIsApplied, Apf!ModeIsApplied
<1> QED
  BY <1>5, <1>6, <1>7, <1>8, <1>9 DEF IInv

LEMMA StutterKeeps == IInv /\ UNCHANGED vars => IInv'
<1> SUFFICES ASSUME IInv, UNCHANGED vars PROVE IInv'
  OBVIOUS
<1>1. TypeOK'
  BY DEF IInv, TypeOK, vars, muxVars, apfVars, modeVars, gatewayVars, clockVars
<1>2. ModeIsApplied'
  BY DEF IInv, ModeIsApplied, Apf!ModeIsApplied, Apf!Applied, vars, apfVars, modeVars
<1> QED
  BY <1>1, <1>2, AroundKeeps DEF vars, apfVars, gatewayVars

LEMMA Invariance == Spec => []IInv
<1>1. IInv /\ [Next]_vars => IInv'
  BY PilotKeeps, MuxKeeps, ApfKeeps, GatewayKeeps, CloudKeeps, TransitionKeeps,
     OperatorKeeps, DeathKeeps, TickKeeps, StutterKeeps DEF Next
<1> QED
  BY <1>1, Beginning, PTL DEF Spec

(* Every node's memory keeps its type.                                     *)
THEOREM MotionTypesKept == Spec => []TypeOK
<1>1. IInv => TypeOK
  BY DEF IInv
<1> QED
  BY <1>1, Invariance, PTL

(* An intent that is not renewed stops a multicopter within a bound that   *)
(* depends on the timeout and the number of nodes that died alone          *)
(* (publishSelected, the safety timer, sendSetpoint).                      *)
THEOREM SilenceStopsTheVehicle == Spec => []SilenceStops
<1>1. IInv => SilenceStops
  <2> SUFFICES ASSUME IInv, Flown.active, ~setpoint.fixed_wing
               PROVE  Flown.age <= Timeout + 3 + (Timeout + 1) * Cardinality(Nodes \ alive)
    BY DEF SilenceStops
  <2> DEFINE n == Cardinality(Nodes \ alive)
             late == (IF "command_mux" \in alive THEN 0 ELSE 1)
                       + (IF "apf_safety" \in alive THEN 0 ELSE 1)
  <2>1. Nodes \ alive = (IF "command_mux" \in alive THEN {} ELSE {"command_mux"})
                          \cup (IF "apf_safety" \in alive THEN {} ELSE {"apf_safety"})
    BY DEF IInv, TypeOK, Nodes
  <2>2. n = late
    <3>1. Cardinality({}) = 0 /\ IsFiniteSet({})
      BY FS_EmptySet
    <3>2. /\ Cardinality({"command_mux"}) = 1 /\ IsFiniteSet({"command_mux"})
          /\ Cardinality({"apf_safety"}) = 1
      BY FS_Singleton
    <3>3. Cardinality({"command_mux"} \cup {"apf_safety"}) = 2
      <4>1. "apf_safety" \notin {"command_mux"}
        OBVIOUS
      <4> QED
        BY <3>2, <4>1, FS_AddElement
    <3>4. CASE "command_mux" \in alive /\ "apf_safety" \in alive
      <4>1. Nodes \ alive = {}
        BY <2>1, <3>4
      <4> QED
        BY <3>1, <3>4, <4>1
    <3>5. CASE "command_mux" \notin alive /\ "apf_safety" \in alive
      <4>1. Nodes \ alive = {"command_mux"}
        BY <2>1, <3>5
      <4> QED
        BY <3>2, <3>5, <4>1
    <3>6. CASE "command_mux" \in alive /\ "apf_safety" \notin alive
      <4>1. Nodes \ alive = {"apf_safety"}
        BY <2>1, <3>6
      <4> QED
        BY <3>2, <3>6, <4>1
    <3>7. CASE "command_mux" \notin alive /\ "apf_safety" \notin alive
      <4>1. Nodes \ alive = {"command_mux"} \cup {"apf_safety"}
        BY <2>1, <3>7
      <4> QED
        BY <3>3, <3>7, <4>1
    <3> QED
      BY <3>4, <3>5, <3>6, <3>7
  <2>3. Flown.age <= Timeout + Lag("command_mux") + Lag("apf_safety") + 1
    <3>1. Flown.age \in Nat /\ Lag("command_mux") \in Nat /\ Lag("apf_safety") \in Nat
      BY Constants DEF IInv, TypeOK, Flown, Commands, Lag
    <3> QED
      BY <3>1, Constants DEF IInv, Ages
  <2>4. Flown.age \in Nat
    BY Constants DEF IInv, TypeOK, Flown, Commands
  <2> HIDE DEF n
  <2>5. Flown.age <= Timeout + 3 + (Timeout + 1) * n
    <3>1. late \in {0, 1, 2}
      OBVIOUS
    <3>2. CASE late = 0
      BY <2>2, <2>3, <2>4, <3>2, Constants DEF Lag
    <3>3. CASE late = 1
      BY <2>2, <2>3, <2>4, <3>3, Constants DEF Lag
    <3>4. CASE late = 2
      BY <2>2, <2>3, <2>4, <3>4, Constants DEF Lag
    <3> QED
      BY <3>1, <3>2, <3>3, <3>4
  <2> QED
    BY <2>5 DEF n
<1> QED
  BY <1>1, Invariance, PTL

(* After four selections of the supervisor's intent nobody else is flown   *)
(* (selectCommand's ranks, through the two nodes after it).                *)
THEOREM SupervisorIsFlown == Spec => []SupervisorPrevails
<1>1. IInv => SupervisorPrevails
  BY DEF IInv, TypeOK, Leading, ReachedSetpoint, Supervised, SupervisorPrevails, Settled
<1> QED
  BY <1>1, Invariance, PTL

(* After four timers that saw an obstacle no velocity is flown that does   *)
(* not take it into account.                                               *)
THEOREM ObstaclesAreTakenIntoAccount == Spec => []ObstaclesAreAvoided
<1>1. IInv => ObstaclesAreAvoided
  BY DEF IInv, TypeOK, Avoiding, SeenInSetpoint, Avoids, ObstaclesAreAvoided, Settled
<1> QED
  BY <1>1, Invariance, PTL

(* The solver works with the profile of the mode it is in, within the      *)
(* LiDAR range last set (setMode, onLidarRange, onParametersSet).          *)
THEOREM ModesAreApplied == Spec => []ModeIsApplied
<1>1. IInv => ModeIsApplied
  BY DEF IInv
<1> QED
  BY <1>1, Invariance, PTL
=============================================================================
