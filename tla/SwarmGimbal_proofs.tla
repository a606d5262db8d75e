-------------------------- MODULE SwarmGimbal_proofs --------------------------
(* A STOP for all drones stops the gimbals of all, however many there are. *)
EXTENDS SwarmGimbal, TLAPS

Channels ==
  [eligible : BOOLEAN, have_joint_state : BOOLEAN, pan : Angles, commanded : Angles,
   swarm_output_active : BOOLEAN]

RouterTypes ==
  /\ channels \in [Drones -> Channels]
  /\ held_commands \in [Drones -> Directions \cup {"NONE"}]
  /\ all_held_command \in Directions \cup {"NONE"}
  /\ home_targets \subseteq Drones
  /\ stopped \in BOOLEAN

(* What the router still has to do after a STOP for all: nothing.          *)
NothingIsAsked ==
  /\ all_held_command = "NONE"
  /\ \A d \in Drones : held_commands[d] = "NONE"
  /\ home_targets = {}

RouterInv == RouterTypes /\ (stopped => NothingIsAsked)

(* What a stopped router may do to a channel.                              *)
Rests(before, after) ==
  /\ after.swarm_output_active => before.swarm_output_active
  /\ after.commanded \in {before.commanded, after.pan}

StaysStopped == stopped /\ stopped' => \A d \in Drones : Rests(channels[d], channels'[d])

-----------------------------------------------------------------------------
(* The helpers keep a channel a channel.                                   *)
LEMMA ClampStays ==
  ASSUME NEW angle \in Int
  PROVE  Clamp(angle) \in Angles
BY GimbalAssumption DEF Clamp, Angles

LEMMA ChannelHelpers ==
  ASSUME NEW c \in Channels
  PROVE  /\ Reported(c) \in Channels
         /\ PrepareForSwarm(c) \in Channels
         /\ Stop(c) \in Channels
         /\ Start(c) \in Channels
         /\ Start([c EXCEPT !.commanded = 0]) \in Channels
         /\ Stop([c EXCEPT !.commanded = 0]) \in Channels
         /\ Start(PrepareForSwarm(c)) \in Channels
         /\ [c EXCEPT !.swarm_output_active = FALSE] \in Channels
<1>1. 0 \in Angles
  BY GimbalAssumption DEF Angles
<1>2. Reported(c) \in Channels
  BY DEF Reported, Channels
<1>3. PrepareForSwarm(c) \in Channels
  BY <1>2 DEF PrepareForSwarm
<1>4. \A x \in Channels : /\ Start(x) \in Channels
                          /\ [x EXCEPT !.commanded = 0] \in Channels
                          /\ [x EXCEPT !.swarm_output_active = FALSE] \in Channels
  BY <1>1 DEF Start, Channels
<1>5. \A x \in Channels : Reported(x) \in Channels
  BY DEF Reported, Channels
<1>6. \A x \in Channels : Stop(x) \in Channels
  BY <1>4, <1>5 DEF Stop, Channels
<1>. QED
  BY <1>2, <1>3, <1>4, <1>6

LEMMA JoggedStays ==
  ASSUME NEW c \in Channels, NEW direction
  PROVE  Jogged(c, direction) \in Channels
<1>. DEFINE ready == PrepareForSwarm(c)
            step == IF direction = "LEFT" THEN 1 ELSE -1
<1>1. ready \in Channels
  BY ChannelHelpers
<1>2. ready.commanded + step \in Int
  BY <1>1 DEF Channels, Angles
<1>3. Clamp(ready.commanded + step) \in Angles
  BY <1>2, ClampStays
<1>4. [ready EXCEPT !.commanded = Clamp(@ + step)] \in Channels
  BY <1>1, <1>3 DEF Channels
<1>. QED
  BY <1>4, ChannelHelpers DEF Jogged

(* What Stop leaves of a channel is at rest.                               *)
LEMMA StopRests ==
  ASSUME NEW c \in Channels
  PROVE  Rests(c, Stop(c)) /\ Rests(c, c)
         /\ Rests(c, [c EXCEPT !.swarm_output_active = FALSE])
BY DEF Rests, Stop, Reported, Channels

-----------------------------------------------------------------------------
(* The actions of the router, one by one.                                  *)
LEMMA StateStep ==
  ASSUME RouterInv, OnSwarmState
  PROVE  RouterInv' /\ StaysStopped
<1>1. PICK listed \in SUBSET Drones, eligible \in SUBSET Drones :
        channels' = [d \in Drones |->
          [channels[d] EXCEPT !.eligible = d \in eligible,
             !.swarm_output_active = @ /\ d \notin {x \in listed \ eligible :
                                                      channels[x].swarm_output_active}]]
  BY DEF OnSwarmState
<1>. DEFINE silenced == {x \in listed \ eligible : channels[x].swarm_output_active}
            Heard(c, is, stays) ==
              [c EXCEPT !.eligible = is, !.swarm_output_active = @ /\ stays]
<1>2. ASSUME NEW c \in Channels, NEW is \in BOOLEAN, NEW stays \in BOOLEAN
      PROVE  Heard(c, is, stays) \in Channels /\ Rests(c, Heard(c, is, stays))
  BY DEF Channels, Rests
<1>3. \A d \in Drones : channels[d] \in Channels
  BY DEF RouterInv, RouterTypes
<1>4. ASSUME NEW d \in Drones
      PROVE  channels'[d] = Heard(channels[d], d \in eligible, d \notin silenced)
  BY <1>1
<1>5. ASSUME NEW d \in Drones
      PROVE  channels'[d] \in Channels /\ Rests(channels[d], channels'[d])
  <2>1. (d \in eligible) \in BOOLEAN /\ (d \notin silenced) \in BOOLEAN
    OBVIOUS
  <2>. HIDE DEF Heard, silenced
  <2>. QED
    BY <1>2, <1>3, <1>4, <2>1
<1>6. channels' \in [Drones -> Channels]
  BY <1>1, <1>5
<1>7. UNCHANGED <<all_held_command, held_commands, home_targets, stopped>>
  BY DEF OnSwarmState
<1>. QED
  BY <1>5, <1>6, <1>7 DEF RouterInv, RouterTypes, NothingIsAsked, StaysStopped

LEMMA JointStep ==
  ASSUME RouterInv, NEW drone \in Drones, NEW angle \in Angles, OnJointState(drone, angle)
  PROVE  RouterInv' /\ StaysStopped
<1>. DEFINE Moved(c) ==
              [c EXCEPT !.pan = angle, !.have_joint_state = TRUE,
                        !.commanded = IF c.swarm_output_active THEN @ ELSE angle]
<1>1. \A c \in Channels : Moved(c) \in Channels /\ Rests(c, Moved(c)) /\ Rests(c, c)
  BY DEF Channels, Rests
<1>2. channels' = [channels EXCEPT ![drone] = Moved(channels[drone])]
  BY DEF OnJointState
<1>3. channels \in [Drones -> Channels]
  BY DEF RouterInv, RouterTypes
<1>4. \A d \in Drones : channels'[d] \in {channels[d], Moved(channels[d])}
  BY <1>2, <1>3
<1>5. channels' \in [Drones -> Channels] /\ \A d \in Drones : Rests(channels[d], channels'[d])
  BY <1>1, <1>2, <1>3, <1>4
<1>6. UNCHANGED <<all_held_command, held_commands, home_targets, stopped>>
  BY DEF OnJointState
<1>. QED
  BY <1>5, <1>6 DEF RouterInv, RouterTypes, NothingIsAsked, StaysStopped

LEMMA HomeStep ==
  ASSUME RouterInv, NEW addressed \in SUBSET Drones, NEW all \in BOOLEAN,
         CommandHome(addressed, all)
  PROVE  RouterInv' /\ StaysStopped
<1>1. stopped' = FALSE
  BY DEF CommandHome
<1>2. channels' \in [Drones -> Channels]
  BY ChannelHelpers DEF CommandHome, RouterInv, RouterTypes
<1>3. held_commands' \in [Drones -> Directions \cup {"NONE"}]
  BY DEF CommandHome, Forgotten, RouterInv, RouterTypes
<1>4. all_held_command' \in Directions \cup {"NONE"}
  BY DEF CommandHome, RouterInv, RouterTypes
<1>5. home_targets' \subseteq Drones
  BY DEF CommandHome, Selected, Eligible, RouterInv, RouterTypes
<1>. QED
  BY <1>1, <1>2, <1>3, <1>4, <1>5 DEF RouterInv, RouterTypes, StaysStopped

LEMMA JogStep ==
  ASSUME RouterInv, NEW addressed \in SUBSET Drones, NEW all \in BOOLEAN,
         NEW direction \in Directions, CommandJog(addressed, all, direction)
  PROVE  RouterInv' /\ StaysStopped
<1>1. stopped' = FALSE
  BY DEF CommandJog
<1>2. channels' \in [Drones -> Channels]
  BY ChannelHelpers DEF CommandJog, RouterInv, RouterTypes
<1>3. held_commands' \in [Drones -> Directions \cup {"NONE"}]
  BY DEF CommandJog, Forgotten, RouterInv, RouterTypes
<1>4. all_held_command' \in Directions \cup {"NONE"}
  BY DEF CommandJog, RouterInv, RouterTypes
<1>5. home_targets' \subseteq Drones
  BY DEF CommandJog, RouterInv, RouterTypes
<1>. QED
  BY <1>1, <1>2, <1>3, <1>4, <1>5 DEF RouterInv, RouterTypes, StaysStopped

(* A STOP for all leaves nothing to do, also for drones that are away.     *)
LEMMA StopStep ==
  ASSUME RouterInv, NEW addressed \in SUBSET Drones, NEW all \in BOOLEAN,
         CommandStop(addressed, all)
  PROVE  RouterInv' /\ StaysStopped
<1>1. channels \in [Drones -> Channels]
  BY DEF RouterInv, RouterTypes
<1>2. channels' = [d \in Drones |-> IF d \in Selected(addressed) THEN Stop(channels[d])
                                    ELSE channels[d]]
  BY DEF CommandStop
<1>3. channels' \in [Drones -> Channels] /\ \A d \in Drones : Rests(channels[d], channels'[d])
  BY <1>1, <1>2, ChannelHelpers, StopRests
<1>4. held_commands' \in [Drones -> Directions \cup {"NONE"}]
  BY DEF CommandStop, Forgotten, RouterInv, RouterTypes
<1>5. /\ all_held_command' \in Directions \cup {"NONE"}
      /\ home_targets' \subseteq Drones
      /\ stopped' \in BOOLEAN
  BY DEF CommandStop, RouterInv, RouterTypes
<1>6. stopped' => NothingIsAsked'
  BY DEF CommandStop, Forgotten, NothingIsAsked
<1>. QED
  BY <1>3, <1>4, <1>5, <1>6 DEF RouterInv, RouterTypes, StaysStopped

LEMMA TimerStep ==
  ASSUME RouterInv, RouterTimer
  PROVE  RouterInv' /\ StaysStopped
<1>1. PICK late \in SUBSET Homing :
        /\ channels' = Ticked(late)
        /\ home_targets' = home_targets \ {d \in Homing : AtHome(d, late)}
  BY DEF RouterTimer
<1>2. channels \in [Drones -> Channels]
  BY DEF RouterInv, RouterTypes
<1>3. channels' \in [Drones -> Channels]
  BY <1>1, <1>2, ChannelHelpers, JoggedStays DEF Ticked
<1>4. UNCHANGED <<all_held_command, held_commands, stopped>>
  BY DEF RouterTimer
<1>5. stopped => Homing = {} /\ Jogging = {}
  BY DEF RouterInv, NothingIsAsked, Homing, Jogging, CommandFor, Eligible
<1>6. ASSUME stopped, NEW d \in Drones
      PROVE  channels'[d] \in {Stop(channels[d]),
                               [channels[d] EXCEPT !.swarm_output_active = FALSE]}
  BY <1>1, <1>5, <1>6 DEF Ticked
<1>7. stopped => \A d \in Drones : Rests(channels[d], channels'[d])
  BY <1>2, <1>6, StopRests
<1>. QED
  BY <1>1, <1>3, <1>4, <1>7 DEF RouterInv, RouterTypes, NothingIsAsked, StaysStopped

(* The steps of the drone, and the death of the router, leave the router's *)
(* memory alone.                                                           *)
LEMMA QuietStep ==
  ASSUME RouterInv,
         UNCHANGED <<channels, all_held_command, held_commands, home_targets, stopped>>
  PROVE  RouterInv' /\ StaysStopped
BY StopRests DEF RouterInv, RouterTypes, NothingIsAsked, StaysStopped

LEMMA GimbalStep ==
  ASSUME RouterInv, [Next]_vars
  PROVE  RouterInv' /\ StaysStopped
<1>1. CASE OnSwarmState
  BY <1>1, StateStep
<1>2. CASE \E d \in Drones, angle \in Angles : OnJointState(d, angle)
  BY <1>2, JointStep
<1>3. CASE HandleCommand
  <2>1. PICK all \in BOOLEAN, addressed \in SUBSET Drones :
          \/ CommandHome(addressed, all)
          \/ CommandStop(addressed, all)
          \/ \E direction \in Directions : CommandJog(addressed, all, direction)
    BY <1>3 DEF HandleCommand
  <2>. QED
    BY <2>1, HomeStep, StopStep, JogStep
<1>4. CASE RouterTimer
  BY <1>4, TimerStep
<1>5. CASE RouterDies
  BY <1>5, QuietStep DEF RouterDies
<1>6. CASE \E input \in {-1, 0, 1} : GimbalControlTimer(input)
  BY <1>6, QuietStep DEF GimbalControlTimer, routerVars
<1>7. CASE MuxTimer
  BY <1>7, QuietStep DEF MuxTimer, routerVars
<1>8. CASE TimePasses
  BY <1>8, QuietStep DEF TimePasses, routerVars
<1>9. CASE UNCHANGED vars
  BY <1>9, QuietStep DEF vars, routerVars
<1>. QED
  BY <1>1, <1>2, <1>3, <1>4, <1>5, <1>6, <1>7, <1>8, <1>9 DEF Next

LEMMA GimbalStart == Init => RouterInv
<1>1. 0 \in Angles
  BY GimbalAssumption DEF Angles
<1>2. Unknown \in Channels
  BY <1>1 DEF Unknown, Channels
<1>3. ASSUME Init
      PROVE  RouterTypes /\ ~stopped
  BY <1>2, <1>3 DEF Init, RouterTypes
<1>. QED
  BY <1>3 DEF RouterInv

-----------------------------------------------------------------------------
(* The router's memory keeps its types, and after a STOP for all it holds  *)
(* no command of any drone, eligible or away, and sends none of them home. *)
THEOREM RouterForgets == Spec => []RouterInv
<1>1. Init => RouterInv
  BY GimbalStart
<1>2. RouterInv /\ [Next]_vars => RouterInv'
  BY GimbalStep
<1>. QED
  BY <1>1, <1>2, PTL DEF Spec

(* However many drones there are and however wide the axis: after a STOP   *)
(* for all, no gimbal moves until another command is accepted.             *)
THEOREM StopForAllHolds == Spec => StopAllStops
<1>1. RouterInv /\ [Next]_vars
        => [stopped /\ stopped' =>
             \A d \in Drones :
               /\ channels'[d].swarm_output_active => channels[d].swarm_output_active
               /\ channels'[d].commanded \in {channels[d].commanded, channels'[d].pan}]_vars
  BY GimbalStep DEF StaysStopped, Rests
<1>. QED
  BY <1>1, RouterForgets, PTL DEF Spec, StopAllStops
=============================================================================
