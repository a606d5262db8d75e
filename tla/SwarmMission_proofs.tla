------------------------- MODULE SwarmMission_proofs -------------------------
(***************************************************************************)
(* Proofs about the coordinator and the drones' route executors together,  *)
(* with the broadcasts and the feedback that are under way between them.   *)
(***************************************************************************)
EXTENDS SwarmMission, SwarmCoordinator_proofs

-----------------------------------------------------------------------------
(* What a message or a drone's memory was told under.                      *)

Stamps == [command: Nat, mission: Nat, revision: Nat]

Stamp(x) == [command |-> x.command, mission |-> x.mission, revision |-> x.revision]

(* The node has published this stamp, and of the version it counts by only *)
(* since the dispatch of that version; nothing since a dispatch it awaits. *)
Past(s, x) ==
  /\ x.command < s.nextCommand /\ x.mission < s.nextMission
  /\ x.mission = s.activeMission => x.revision <= s.activeRevision
  /\ Version(x) = ActiveVersion(s) => s.activeCommand <= x.command
  /\ s.phase = "WAITING" => x.command <= s.activeCommand

(* From s to t no stamp is dated back, and what is published is dated.     *)
Dates(s, t) ==
  /\ s.nextCommand <= t.nextCommand
  /\ \A x \in Stamps : Past(s, x) => Past(t, x)
  /\ \A c \in Sent(t) :
       \/ c \in Sent(s) \/ c.kind \in SettingKinds
       \/ Past(t, Stamp(c)) /\ s.nextCommand <= c.command
  /\ Ordered(s) => Ordered(t)

LEMMA StampType ==
  /\ \A c \in Broadcasts : Stamp(c) \in Stamps
  /\ \A r \in Feedbacks : Stamp(r) \in Stamps
BY DEF Stamp, Stamps, Broadcasts, Feedbacks

LEMMA DatesFollow ==
  ASSUME NEW s \in Memory, NEW t \in Memory, NEW u \in Memory, Dates(s, t), Dates(t, u)
  PROVE  Dates(s, u)
<1>1. s.nextCommand \in Nat /\ t.nextCommand \in Nat /\ u.nextCommand \in Nat
      /\ u.out \in Seq(Broadcasts)
  BY BooksField
<1>2. s.nextCommand <= u.nextCommand
  BY <1>1 DEF Dates
<1>3. \A x \in Stamps : Past(s, x) => Past(u, x)
  BY DEF Dates
<1>4. ASSUME NEW c \in Sent(u), c \notin Sent(s), c.kind \notin SettingKinds
      PROVE  Past(u, Stamp(c)) /\ s.nextCommand <= c.command
  <2>1. c \in Broadcasts
    BY <1>1, LenProperties, ElementOfSeq DEF Sent
  <2>2. Stamp(c) \in Stamps /\ c.command \in Nat
    BY <2>1, StampType DEF Broadcasts
  <2>3. CASE c \in Sent(t)
    BY <1>4, <2>2, <2>3 DEF Dates
  <2>4. CASE c \notin Sent(t)
    <3>1. Past(u, Stamp(c)) /\ t.nextCommand <= c.command
      BY <1>4, <2>4 DEF Dates
    <3> QED
      BY <1>1, <2>2, <3>1 DEF Dates
  <2> QED
    BY <2>3, <2>4
<1>5. Ordered(s) => Ordered(u)
  BY DEF Dates
<1> QED
  BY <1>2, <1>3, <1>4, <1>5 DEF Dates

(* The same versions, and no wait that was not there.                      *)
LEMMA DatesStay ==
  ASSUME NEW s \in Memory, NEW t \in Memory,
         t.activeCommand = s.activeCommand, t.activeMission = s.activeMission,
         t.activeRevision = s.activeRevision, s.nextMission <= t.nextMission,
         t.phase \in {s.phase, "IDLE"}, NEW new, Adds(s, t, new),
         \A c \in new : c.kind \in SettingKinds \/ Past(t, Stamp(c))
  PROVE  Dates(s, t)
<1>1. /\ s.nextCommand \in Nat /\ t.nextCommand \in Nat /\ s.nextCommand <= t.nextCommand
      /\ s.nextMission \in Nat /\ t.nextMission \in Nat
  BY BooksField DEF Adds
<1>2. ASSUME NEW x \in Stamps, Past(s, x)
      PROVE  Past(t, x)
  <2>1. x.command \in Nat /\ x.mission \in Nat
    BY DEF Stamps
  <2>2. x.command < t.nextCommand /\ x.mission < t.nextMission
    BY <1>1, <1>2, <2>1 DEF Past
  <2>3. ActiveVersion(t) = ActiveVersion(s)
    BY DEF ActiveVersion
  <2>4. t.phase = "WAITING" => s.phase = "WAITING"
    OBVIOUS
  <2> QED
    BY <1>2, <2>2, <2>3, <2>4 DEF Past
<1>3. \A c \in Sent(t) :
        \/ c \in Sent(s) \/ c.kind \in SettingKinds
        \/ Past(t, Stamp(c)) /\ s.nextCommand <= c.command
  BY DEF Adds
<1> QED
  BY <1>1, <1>2, <1>3 DEF Dates, Adds

LEMMA StampIs ==
  ASSUME NEW c
  PROVE  /\ Stamp(c).command = c.command /\ Stamp(c).mission = c.mission
         /\ Stamp(c).revision = c.revision /\ Version(Stamp(c)) = Version(c)
BY DEF Stamp, Version

(* What is published while nothing is awaited, of the version the node     *)
(* counts by or of another mission.                                        *)
LEMMA NewIsPast ==
  ASSUME NEW s \in Memory, NEW t \in Memory, s.activeCommand < s.nextCommand,
         t.phase = "IDLE",
         t.activeCommand = s.activeCommand, t.activeMission = s.activeMission,
         t.activeRevision = s.activeRevision, NEW c \in Broadcasts,
         s.nextCommand <= c.command, c.command < t.nextCommand, c.mission < t.nextMission,
         c.mission = s.activeMission => c.revision = s.activeRevision
  PROVE  Past(t, Stamp(c))
<1>1. /\ s.nextCommand \in Nat /\ s.activeCommand \in Nat /\ s.activeRevision \in Nat
      /\ c.command \in Nat
  BY BooksField DEF Broadcasts
<1>2. s.activeCommand <= c.command
  BY <1>1
<1>3. c.mission = t.activeMission => c.revision <= t.activeRevision
  BY <1>1
<1> QED
  BY <1>2, <1>3, StampIs DEF Past

LEMMA CalledOffDates ==
  ASSUME NEW s \in Memory, NEW t \in Memory, SameVersions(s, t),
         s.activeMission < s.nextMission, s.activeCommand < s.nextCommand,
         CalledOff(s, t), t.phase = "IDLE"
  PROVE  Dates(s, t)
<1>1. s.nextCommand \in Nat /\ t.nextMission \in Nat /\ s.activeMission < t.nextMission
  BY BooksField DEF SameVersions
<1>2. CASE s.activeMission # 0
  <2> DEFINE c == CancelAll(s)
  <2>1. Posts(s, t, c)
    BY <1>2 DEF CalledOff
  <2>2. /\ c \in Broadcasts /\ c.command = s.nextCommand /\ c.mission = s.activeMission
        /\ c.revision = s.activeRevision
    <3>1. NoOrders \in [Drones -> Order] /\ "CANCEL" \in Kinds
      BY DEF NoOrders, NoOrder, Order, Kinds
    <3>2. s.nextCommand \in Nat /\ s.activeMission \in Nat /\ s.activeRevision \in Nat
      BY BooksField
    <3>3. c \in Broadcasts
      BY <3>1, <3>2, BroadcastType DEF CancelAll
    <3> QED
      BY <3>3 DEF CancelAll, Broadcast
  <2> HIDE DEF c
  <2>3. Adds(s, t, {c})
    BY <2>1, <2>2, PostAdded
  <2>4. s.nextCommand <= c.command /\ c.command < t.nextCommand
    BY <2>3 DEF Adds
  <2>5. Past(t, Stamp(c))
    BY <1>1, <2>2, <2>4, NewIsPast DEF SameVersions
  <2> QED
    BY <1>1, <2>3, <2>5, DatesStay DEF SameVersions
<1>3. CASE s.activeMission = 0
  <2>1. Adds(s, t, {})
    BY <1>3, NothingAdded DEF CalledOff
  <2> QED
    BY <1>1, <2>1, DatesStay DEF SameVersions
<1> QED
  BY <1>2, <1>3

LEMMA DispatchDates ==
  ASSUME NEW s \in Memory, NEW t \in Memory, VersionsKnown(s), s.phase = "IDLE",
         Dispatched(s, t)
  PROVE  Dates(s, t)
<1> DEFINE c == Broadcast("EXECUTE", s.nextCommand, t.activeMission, t.activeRevision,
                          Owners(s.planned), Orders(s.planned))
<1>1. c \in Broadcasts /\ Adds(s, t, {c})
  BY DispatchSends
<1>2. /\ c.command = s.nextCommand /\ c.mission = t.activeMission
      /\ c.revision = t.activeRevision
  BY DEF Broadcast
<1> HIDE DEF c
<1>3. /\ s.nextCommand \in Nat /\ s.nextMission \in Nat /\ s.activeMission \in Nat
      /\ s.activeRevision \in Nat /\ t.nextCommand = s.nextCommand + 1
      /\ t.activeCommand = s.nextCommand /\ t.activeRevision \in Nat
      /\ s.activeMission < s.nextMission
  BY BooksField DEF Dispatched, Posts, VersionsKnown
<1>4. /\ s.nextMission <= t.nextMission /\ t.activeMission < t.nextMission
      /\ t.activeMission \in Nat /\ t.nextMission \in Nat
      /\ \/ t.activeMission = s.activeMission /\ t.activeRevision = s.activeRevision + 1
         \/ t.activeMission = s.nextMission
  BY <1>3 DEF Dispatched
<1>5. ASSUME NEW x \in Stamps, Past(s, x)
      PROVE  Past(t, x)
  <2>1. x.command \in Nat /\ x.mission \in Nat /\ x.revision \in Nat
    BY DEF Stamps
  <2>2. /\ x.command < s.nextCommand /\ x.mission < s.nextMission
        /\ x.mission = s.activeMission => x.revision <= s.activeRevision
    BY <1>5 DEF Past
  <2>3. x.command < t.nextCommand /\ x.mission < t.nextMission /\ x.command <= t.activeCommand
    BY <1>3, <1>4, <2>1, <2>2
  <2>4. x.mission = t.activeMission => x.revision < t.activeRevision
    BY <1>3, <1>4, <2>1, <2>2
  <2>5. x.mission = t.activeMission => x.revision <= t.activeRevision
    BY <1>3, <2>1, <2>4
  <2>6. Version(x) # ActiveVersion(t)
    BY <1>3, <2>1, <2>4 DEF Version, ActiveVersion
  <2> QED
    BY <2>3, <2>5, <2>6 DEF Past
<1>6. Past(t, Stamp(c))
  BY <1>2, <1>3, <1>4, StampIs DEF Past
<1>7. s.nextCommand <= c.command
  BY <1>2, <1>3
<1> QED
  BY <1>1, <1>3, <1>5, <1>6, <1>7 DEF Dates, Adds

LEMMA BlockDates ==
  ASSUME NEW s, NEW t, Block(s, t), Counted(s)
  PROVE  Dates(s, t)
<1>1. /\ s \in Memory /\ t \in Memory /\ VersionsKnown(s) /\ HomesNumbered(s)
      /\ s.nextMission \in Nat /\ s.nextMission <= s.nextMission /\ s.activeMission \in Nat
      /\ s.activeMission < s.nextMission /\ s.activeCommand < s.nextCommand
      /\ s.nextCommand \in Nat
  BY BooksField DEF Block, Good, Counted, VersionsKnown
<1>2. CASE \E new : Unmoved(s, t, new)
  BY <1>1, <1>2, DatesStay DEF Unmoved, SameBooks, SameVersions
<1>3. CASE Calculated(s, t)
  <2>1. Adds(s, t, {})
    BY <1>1, <1>3, NothingAdded DEF Calculated
  <2> QED
    BY <1>1, <1>3, <2>1, DatesStay DEF Calculated, SameBooks
<1>4. CASE CanDispatch(s) /\ Dispatched(s, t)
  BY <1>1, <1>4, DispatchDates DEF CanDispatch
<1>5. CASE Aborted(s, t)
  BY <1>1, <1>5, CalledOffDates DEF Aborted, Emptied
<1>6. CASE Failed(s, t)
  BY <1>1, <1>6, CalledOffDates DEF Failed
<1>7. ASSUME s.phase = "IDLE", NEW ds \in SUBSET Drones, NEW new, Freed(s, t, ds, new)
      PROVE  Dates(s, t)
  <2>1. /\ t.phase = "IDLE" /\ SameVersions(s, t) /\ new \subseteq Broadcasts
        /\ Adds(s, t, new)
    BY <1>7 DEF Freed, Released
  <2>2. ASSUME NEW c \in new
        PROVE  Past(t, Stamp(c))
    <3>1. c \in Broadcasts /\ s.nextCommand <= c.command /\ c.command < t.nextCommand
      BY <2>1 DEF Adds
    <3>2. \/ Version(c) = ActiveVersion(s)
          \/ \E d \in Owners(s.aux) : Version(c) = <<s.aux[d].mission, 1>>
      BY <1>7 DEF Freed
    <3>3. CASE Version(c) = ActiveVersion(s)
      <4>1. c.mission = s.activeMission /\ c.revision = s.activeRevision
        BY <3>3 DEF Version, ActiveVersion
      <4> QED
        BY <1>1, <2>1, <3>1, <4>1, NewIsPast DEF SameVersions
    <3>4. ASSUME NEW d \in Owners(s.aux), Version(c) = <<s.aux[d].mission, 1>>
          PROVE  Past(t, Stamp(c))
      <4>1. c.mission = s.aux[d].mission
        BY <3>4 DEF Version
      <4>2. c.mission # s.activeMission /\ c.mission < s.nextMission
        BY <1>1, <4>1 DEF HomesNumbered
      <4> QED
        BY <1>1, <2>1, <3>1, <4>2, NewIsPast DEF SameVersions
    <3> QED
      BY <3>2, <3>3, <3>4
  <2> QED
    BY <1>1, <1>7, <2>1, <2>2, DatesStay DEF SameVersions
<1>8. ASSUME s.phase = "IDLE", NEW ds \in SUBSET Drones, NEW purpose \in HomeKinds,
             SentHome(s, t, ds, purpose)
      PROVE  Dates(s, t)
  <2> DEFINE c == Broadcast(purpose, s.nextCommand, s.nextMission, 1, ds, HomeOrders(t, ds))
  <2>1. c \in Broadcasts /\ Adds(s, t, {c})
    BY <1>1, <1>8, SentHomeSends
  <2>2. c.command = s.nextCommand /\ c.mission = s.nextMission
    BY DEF Broadcast
  <2> HIDE DEF c
  <2>3. /\ t.phase = "IDLE" /\ t.nextMission = s.nextMission + 1
        /\ t.activeCommand = s.activeCommand /\ t.activeMission = s.activeMission
        /\ t.activeRevision = s.activeRevision
    BY <1>8 DEF SentHome
  <2>4. s.nextCommand <= c.command /\ c.command < t.nextCommand
    BY <2>1 DEF Adds
  <2>5. Past(t, Stamp(c))
    BY <1>1, <2>1, <2>2, <2>3, <2>4, NewIsPast
  <2> QED
    BY <1>1, <2>1, <2>3, <2>5, DatesStay
<1> QED
  BY <1>2, <1>3, <1>4, <1>5, <1>6, <1>7, <1>8 DEF Block

LEMMA ChainDates ==
  ASSUME NEW s, NEW t, Chain(s, t), Counted(s)
  PROVE  Dates(s, t)
<1>1. \A x, y : Block(x, y) /\ Counted(x) =>
        x \in Memory /\ y \in Memory /\ Dates(x, y) /\ Counted(y)
  BY BlockDates, BlockCounted DEF Block, Good
<1>2. PICK m1, m2, m3, m4 \in Memory :
        Block(s, m1) /\ Block(m1, m2) /\ Block(m2, m3) /\ Block(m3, m4) /\ Block(m4, t)
  BY DEF Chain
<1>3. /\ s \in Memory /\ t \in Memory /\ Dates(s, m1) /\ Dates(m1, m2) /\ Dates(m2, m3)
      /\ Dates(m3, m4) /\ Dates(m4, t)
  BY <1>1, <1>2
<1>4. Dates(s, m2)
  BY <1>3, DatesFollow
<1>5. Dates(s, m3)
  BY <1>3, <1>4, DatesFollow
<1>6. Dates(s, m4)
  BY <1>3, <1>5, DatesFollow
<1> QED
  BY <1>3, <1>6, DatesFollow

LEMMA QuietDates ==
  ASSUME NEW s \in Memory, NEW t \in Memory, SameVersions(s, t), SaysNothing(s, t),
         t.phase \in {s.phase, "IDLE"}
  PROVE  Dates(s, t)
<1>1. Adds(s, t, {}) /\ s.nextMission \in Nat
  BY NothingAdded, BooksField
<1> QED
  BY <1>1, DatesStay DEF SameVersions

LEMMA ReportedDates ==
  ASSUME NEW s, Good(s), Counted(s), NEW fb \in Feedbacks, NEW t \in Memory,
         t = FeedbackResult(s, fb)
  PROVE  Dates(s, t)
<1>1. s \in Memory /\ VersionsKnown(s)
  BY DEF Good, Counted
<1>2. \/ ReportsHome(s, fb, t) \/ ReportsDispatch(s, fb, t)
      \/ ReportsMission(s, fb, t) \/ t = s
  BY <1>1, FeedbackEffect
<1>3. CASE ReportsHome(s, fb, t)
  BY <1>1, <1>3, QuietDates DEF ReportsHome, Homed, Silent
<1>4. ASSUME NEW f \in Memory, Silent(s, f), f.phase = s.phase
      PROVE  /\ Failed(f, t) \/ Aborted(f, t) => Dates(s, t)
             /\ Committed(f, t) \/ Finished(f, t) => Dates(s, t)
  <2>1. Dates(s, f)
    BY <1>1, <1>4, QuietDates DEF Silent
  <2>2. s.activeMission < s.nextMission /\ s.activeCommand < s.nextCommand
    BY <1>1 DEF VersionsKnown
  <2>3. f.activeMission < f.nextMission /\ f.activeCommand < f.nextCommand
    BY <1>4, <2>2 DEF Silent, SameVersions, SaysNothing
  <2>4. Committed(f, t) \/ Finished(f, t) => Dates(f, t)
    BY QuietDates DEF Committed, Finished, Silent
  <2>5. Failed(f, t) \/ Aborted(f, t) => Dates(f, t)
    BY <2>3, CalledOffDates DEF Failed, Aborted, Emptied
  <2> QED
    BY <1>1, <2>1, <2>4, <2>5, DatesFollow
<1>5. CASE ReportsDispatch(s, fb, t)
  <2>1. PICK f \in Memory :
          /\ NotedProvisional(s, fb, f)
          /\ IF fb.state \in Failures THEN Failed(f, t)
             ELSE IF AllAccepted(f) THEN Committed(f, t) ELSE t = f
    BY <1>5 DEF ReportsDispatch, ProvisionalNews
  <2>2. Silent(s, f) /\ f.phase = s.phase
    BY <2>1 DEF NotedProvisional, Noted
  <2> QED
    BY <1>1, <1>4, <2>1, <2>2, QuietDates DEF Silent
<1>6. CASE ReportsMission(s, fb, t)
  <2>1. PICK f \in Memory :
          /\ NotedCurrent(s, fb, f)
          /\ IF fb.state \in Failures THEN Aborted(f, t)
             ELSE IF AllFinished(f.current) THEN Finished(f, t) ELSE t = f
    BY <1>6 DEF ReportsMission, MissionNews
  <2>2. Silent(s, f) /\ f.phase = s.phase
    BY <2>1 DEF NotedCurrent, Noted
  <2> QED
    BY <1>1, <1>4, <2>1, <2>2, QuietDates DEF Silent
<1>7. CASE t = s
  BY <1>1, <1>7, QuietDates DEF SameVersions, SaysNothing
<1> QED
  BY <1>2, <1>3, <1>5, <1>6, <1>7

-----------------------------------------------------------------------------
(* A drone's memory and the messages on their way to it and from it.       *)

LEMMA SameWords ==
  /\ E!ExecuteKinds = ExecuteKinds /\ E!FlightKinds = FlightKinds
  /\ E!FeedbackStates = FeedbackStates /\ E!Drones = Drones
  /\ \A k, m, r, d, id, state, n :
       E!Feedback(k, m, r, d, id, state, n) = Feedback(k, m, r, d, id, state, n)
BY DEF E!ExecuteKinds, E!HomeKinds, ExecuteKinds, HomeKinds, E!FlightKinds, FlightKinds,
       E!FeedbackStates, E!Acceptances, E!Failures, FeedbackStates, Acceptances, Failures,
       E!Drones, Drones, E!Feedback, Feedback

LEMMA MemoryFields ==
  ASSUME NEW e \in E!Memory
  PROVE  /\ e.command \in Nat /\ e.mission \in Nat /\ e.revision \in Nat /\ e.route \in Nat
         /\ e.done \in Nat /\ e.generation \in Nat /\ e.legs \in Nat
         /\ e.active \in BOOLEAN /\ e.cancel \in BOOLEAN /\ e.purpose \in ExecuteKinds
         /\ e.last \in FeedbackStates \cup {"RECEIVED"}
BY SameWords DEF E!Memory

(* What a broadcast is to a drone.                                         *)
Carries(c, d) == c.kind \in ExecuteKinds /\ c.orders[d].id # 0

(* It ends a route of this version at the drone.                           *)
Ends(c, d, mission, revision) ==
  \/ c.kind = "CANCEL" /\ c.mission = mission /\ c.revision >= revision
  \/ c.kind \in ExecuteKinds /\ c.mission = mission /\ c.revision > revision
  \/ Carries(c, d) /\ c.mission > mission
  \/ c.kind \in FlightKinds

ForDrone(c, d) == ForMissionReader(c, d) \/ ForFlightReader(c, d)

(* A drone's step: "e" is its memory before, "f" after, "words" what it    *)
(* tells.                                                                  *)
Acts(d, f, words) ==
  /\ f \in E!Memory /\ words \in Seq(Feedbacks)
  /\ \A i \in DOMAIN words : words[i].drone = d
  /\ ex' = [ex EXCEPT ![d] = f] /\ said' = [said EXCEPT ![d] = words]

(* It adopts the route of "c", in place of the one it had or as that one.  *)
Takes(d, c, e, f, words) ==
  /\ Carries(c, d) /\ c.mission >= e.mission /\ c.orders[d].legs # 0
  /\ c.mission = e.mission => c.revision >= e.revision
  /\ Stamp(f) = Stamp(c) /\ f.route = c.orders[d].id /\ f.active
  /\ \E n \in Nat : words = <<Feedback(c.command, c.mission, c.revision, d, c.orders[d].id,
                                       "ACCEPTED", n)>>
  /\ \/ ~f.cancel /\ f.purpose = c.kind
     \/ /\ e.active /\ e.mission = c.mission /\ e.route = c.orders[d].id
        /\ f.cancel = e.cancel /\ f.purpose = e.purpose

(* It is told to stop, and remembers the command.                          *)
HaltedBy(d, c, e, f, words) ==
  /\ Ends(c, d, e.mission, e.revision) /\ ~Carries(c, d) /\ words = <<>>
  /\ \/ Stamp(f) = [command |-> c.command, mission |-> e.mission, revision |-> e.revision]
     \/ Stamp(f) = Stamp(c) /\ c.mission = e.mission /\ c.revision >= e.revision /\ e.active
  /\ f.route = e.route /\ f.active = e.active /\ (f.active => f.cancel)
  /\ f.purpose = e.purpose

(* It heeds it not.                                                        *)
Drops(d, c, e, f, words) ==
  /\ f = e
  /\ \/ /\ words = <<>> /\ (Ends(c, d, e.mission, e.revision) => ~e.active)
        /\ Carries(c, d) => E!Stale(e, c)
     \/ /\ Carries(c, d) /\ c.orders[d].legs = 0
        /\ \A i \in DOMAIN words : Stamp(words[i]) = Stamp(c)
     \/ c.command = e.command /\ \A i \in DOMAIN words : Stamp(words[i]) = Stamp(e)

Reads(d, c, e, f, words) ==
  Takes(d, c, e, f, words) \/ HaltedBy(d, c, e, f, words) \/ Drops(d, c, e, f, words)

SameRoute(e, f) == Stamp(f) = Stamp(e) /\ f.route = e.route

(* Of itself it flies on, or its route comes to an end.                    *)
FliesOn(e, f, words) ==
  /\ SameRoute(e, f) /\ f.active = e.active /\ f.purpose = e.purpose
  /\ e.cancel => f.cancel
  /\ f.cancel # e.cancel => e.purpose \in HomeKinds
  /\ words # <<>> => e.active
  /\ \A i \in DOMAIN words :
       /\ Stamp(words[i]) = Stamp(e) /\ words[i].route = e.route
       /\ words[i].state = "EXECUTING"

ComesToEnd(d, e, f, words) ==
  /\ SameRoute(e, f) /\ e.active /\ ~f.active
  /\ \E state \in Terminal, n \in Nat :
       words = <<Feedback(e.command, e.mission, e.revision, d, e.route, state, n)>>

LEMMA BroadcastFields ==
  ASSUME NEW c \in Broadcasts
  PROVE  /\ c.kind \in Kinds /\ c.command \in Nat /\ c.mission \in Nat /\ c.revision \in Nat
         /\ c.to \in SUBSET Drones
         /\ \A d \in Drones : c.orders[d].id \in Nat /\ c.orders[d].legs \in Nat
BY DEF Broadcasts, Order

LEMMA KindsDiffer ==
  /\ "CANCEL" \notin ExecuteKinds /\ "CANCEL" \notin FlightKinds
  /\ ExecuteKinds \cap FlightKinds = {} /\ HomeKinds \subseteq ExecuteKinds
  /\ SettingKinds \cap (ExecuteKinds \cup FlightKinds \cup {"CANCEL"}) = {}
BY DEF ExecuteKinds, FlightKinds, HomeKinds, SettingKinds

LEMMA WordType ==
  ASSUME NEW w \in Feedbacks
  PROVE  <<w>> \in Seq(Feedbacks) /\ \A i \in DOMAIN <<w>> : <<w>>[i] = w
OBVIOUS

LEMMA Silence == <<>> \in Seq(Feedbacks) /\ DOMAIN <<>> = {}
OBVIOUS

(* A route that ends.                                                      *)
LEMMA FinishingIs ==
  ASSUME ex \in [Drones -> E!Memory], NEW d \in Drones, NEW e \in E!Memory,
         NEW state \in Terminal, E!FinishRoute(d, e, state), e.active, SameRoute(ex[d], e),
         ex[d].active
  PROVE  \E f, words : Acts(d, f, words) /\ ComesToEnd(d, ex[d], f, words)
<1> DEFINE f == E!Finished(e, state)
           w == Feedback(e.command, e.mission, e.revision, d, e.route, state, e.done)
<1>1. state \in FeedbackStates
  BY DEF Terminal, FeedbackStates, Acceptances
<1>2. /\ e.command \in Nat /\ e.mission \in Nat /\ e.revision \in Nat /\ e.route \in Nat
      /\ e.done \in Nat
  BY MemoryFields
<1>3. /\ f \in E!Memory /\ f.command = e.command /\ f.mission = e.mission
      /\ f.revision = e.revision /\ f.route = e.route /\ ~f.active
  BY <1>1, SameWords, Zenon DEF E!Finished, E!Memory, ExecuteKinds
<1>4. ex' = [ex EXCEPT ![d] = f] /\ said' = [said EXCEPT ![d] = <<w>>]
  BY SameWords, Zenon DEF E!FinishRoute, E!Remember, E!Say, E!MakeFeedback
<1>5. <<w>> \in Seq(Feedbacks) /\ \A i \in DOMAIN <<w>> : <<w>>[i].drone = d
  <2>1. w \in Feedbacks /\ w.drone = d
    BY <1>1, <1>2 DEF Feedback, Feedbacks
  <2> HIDE DEF w
  <2> QED
    BY <2>1, WordType
<1>6. SameRoute(ex[d], f)
  BY <1>3 DEF SameRoute, Stamp
<1>7. /\ e.command = ex[d].command /\ e.mission = ex[d].mission
      /\ e.revision = ex[d].revision /\ e.route = ex[d].route
  BY DEF SameRoute, Stamp
<1>8. w = Feedback(ex[d].command, ex[d].mission, ex[d].revision, d, ex[d].route, state, e.done)
  BY <1>7
<1> HIDE DEF f, w
<1>9. ComesToEnd(d, ex[d], f, <<w>>)
  BY <1>2, <1>3, <1>6, <1>8 DEF ComesToEnd
<1> QED
  BY <1>3, <1>4, <1>5, <1>9, Zenon DEF Acts

LEMMA TimerActs ==
  ASSUME ex \in [Drones -> E!Memory], NEW d \in Drones, NEW late \in BOOLEAN,
         E!OnTimer(d, late)
  PROVE  \E f, words : /\ Acts(d, f, words)
                       /\ FliesOn(ex[d], f, words) \/ ComesToEnd(d, ex[d], f, words)
<1>1. PICK b \in BOOLEAN : b = (ex[d].cancel \/ E!Overdue(d, late))
  BY Zenon
<1> DEFINE e == [ex[d] EXCEPT !.cancel = @ \/ E!Overdue(d, late)]
           waiting == e.requesting \/ e.child
<1>2. e = [ex[d] EXCEPT !.cancel = b] /\ ex[d] \in E!Memory
  BY <1>1 DEF E!Memory
<1>3. /\ e.active
      /\ \/ E!FinishRoute(d, e, "CANCELED")
         \/ E!FinishRoute(d, e, "SUCCEEDED")
         \/ E!Remember(d, e) /\ E!Say(d, <<>>)
         \/ E!Remember(d, [e EXCEPT !.requesting = TRUE]) /\ E!Say(d, <<>>)
  BY DEF E!OnTimer
<1> HIDE DEF e
<1>4. /\ e \in E!Memory /\ e.command = ex[d].command /\ e.mission = ex[d].mission
      /\ e.revision = ex[d].revision /\ e.route = ex[d].route /\ e.active = ex[d].active
      /\ e.purpose = ex[d].purpose /\ e.cancel = b
  BY <1>2 DEF E!Memory
<1>5. (ex[d].cancel => b) /\ (b # ex[d].cancel => ex[d].purpose \in HomeKinds)
  <2>1. E!HomeKinds = HomeKinds /\ ex[d].cancel \in BOOLEAN
    BY <1>2, MemoryFields DEF E!HomeKinds, HomeKinds
  <2> QED
    BY <1>1, <2>1 DEF E!Overdue
<1>6. SameRoute(ex[d], e)
  BY <1>4 DEF SameRoute, Stamp
<1>7. CASE E!FinishRoute(d, e, "CANCELED") \/ E!FinishRoute(d, e, "SUCCEEDED")
  <2>1. "CANCELED" \in Terminal /\ "SUCCEEDED" \in Terminal
    BY DEF Terminal, Failures
  <2> QED
    BY <1>3, <1>4, <1>6, <1>7, <2>1, FinishingIs
<1> DEFINE h == [e EXCEPT !.requesting = TRUE]
<1>8. /\ h \in E!Memory /\ h.command = e.command /\ h.mission = e.mission
      /\ h.revision = e.revision /\ h.route = e.route /\ h.active = e.active
      /\ h.purpose = e.purpose /\ h.cancel = e.cancel
  BY <1>4, Zenon DEF E!Memory
<1>9. CASE E!Remember(d, e) /\ E!Say(d, <<>>)
  <2>1. Acts(d, e, <<>>)
    BY <1>4, <1>9, Silence DEF Acts, E!Remember, E!Say
  <2>2. FliesOn(ex[d], e, <<>>)
    BY <1>4, <1>5, <1>6, Silence DEF FliesOn
  <2> QED
    BY <2>1, <2>2
<1>10. CASE E!Remember(d, h) /\ E!Say(d, <<>>)
  <2>1. ex' = [ex EXCEPT ![d] = h] /\ said' = [said EXCEPT ![d] = <<>>]
    BY <1>10 DEF E!Remember, E!Say
  <2> HIDE DEF h
  <2>2. Acts(d, h, <<>>)
    BY <1>8, <2>1, Silence DEF Acts
  <2>3. SameRoute(ex[d], h)
    BY <1>4, <1>8 DEF SameRoute, Stamp
  <2>4. FliesOn(ex[d], h, <<>>)
    BY <1>4, <1>5, <1>8, <2>3, Silence DEF FliesOn
  <2> QED
    BY <2>2, <2>4
<1> QED
  BY <1>3, <1>7, <1>9, <1>10

LEMMA StandsStill ==
  ASSUME ex \in [Drones -> E!Memory], NEW d \in Drones, UNCHANGED ex, E!Say(d, <<>>)
  PROVE  Acts(d, ex[d], <<>>) /\ FliesOn(ex[d], ex[d], <<>>)
<1>1. ex' = [ex EXCEPT ![d] = ex[d]] /\ ex[d] \in E!Memory
  OBVIOUS
<1>2. Acts(d, ex[d], <<>>)
  BY <1>1, Silence, Zenon DEF Acts, E!Say
<1>3. FliesOn(ex[d], ex[d], <<>>)
  BY Silence DEF FliesOn, SameRoute
<1> QED
  BY <1>2, <1>3

LEMMA LocalActs ==
  ASSUME ex \in [Drones -> E!Memory], NEW d \in Drones, E!Local(d)
  PROVE  \E f, words : /\ Acts(d, f, words)
                       /\ FliesOn(ex[d], f, words) \/ ComesToEnd(d, ex[d], f, words)
<1> DEFINE Goal(f, words) ==
             Acts(d, f, words)
               /\ (FliesOn(ex[d], f, words) \/ ComesToEnd(d, ex[d], f, words))
           Done == \E f, words : Goal(f, words)
           e == ex[d]
<1>1. e \in E!Memory
  OBVIOUS
<1>2. ASSUME NEW h \in E!Memory, NEW words \in Seq(Feedbacks), SameRoute(e, h),
             h.active = e.active, h.purpose = e.purpose, h.cancel = e.cancel,
             ex' = [ex EXCEPT ![d] = h], said' = [said EXCEPT ![d] = words],
             words # <<>> => e.active,
             \A i \in DOMAIN words : /\ Stamp(words[i]) = Stamp(e)
                                     /\ words[i].route = e.route /\ words[i].drone = d
                                     /\ words[i].state = "EXECUTING"
      PROVE  Done
  <2>1. Goal(h, words)
    BY <1>2 DEF Acts, FliesOn
  <2> QED
    BY <2>1
<1>3. CASE \E late \in BOOLEAN : E!OnTimer(d, late)
  BY <1>3, TimerActs
<1>4. ASSUME NEW g \in goals[d], E!OnGoalAccepted(d, g)
      PROVE  Done
  <2>1. CASE ~E!Serves(d, g)
    BY <1>4, <2>1, StandsStill DEF E!OnGoalAccepted
  <2>2. CASE E!Serves(d, g)
    <3> DEFINE h == [e EXCEPT !.requesting = FALSE, !.child = TRUE]
    <3>1. ex' = [ex EXCEPT ![d] = h] /\ said' = [said EXCEPT ![d] = <<>>]
      BY <1>4, <2>2 DEF E!OnGoalAccepted, E!Remember, E!Say
    <3>2. /\ h \in E!Memory /\ h.command = e.command /\ h.mission = e.mission
          /\ h.revision = e.revision /\ h.route = e.route /\ h.active = e.active
          /\ h.purpose = e.purpose /\ h.cancel = e.cancel
      BY <1>1, Zenon DEF E!Memory
    <3> HIDE DEF h, Done
    <3>3. SameRoute(e, h)
      BY <3>2 DEF SameRoute, Stamp
    <3> QED
      BY <1>2, <3>1, <3>2, <3>3, Silence, Zenon
  <2> QED
    BY <2>1, <2>2
<1>5. ASSUME NEW g \in goals[d], E!OnGoalRejected(d, g)
      PROVE  Done
  <2>1. CASE ~E!Serves(d, g)
    BY <1>5, <2>1, StandsStill DEF E!OnGoalRejected
  <2>2. CASE E!Serves(d, g)
    <3>1. E!FinishRoute(d, e, "FAILED") /\ e.active /\ "FAILED" \in Terminal
          /\ SameRoute(e, e)
      BY <1>5, <2>2 DEF E!OnGoalRejected, E!Serves, Terminal, Failures, SameRoute
    <3> QED
      BY <1>1, <3>1, FinishingIs
  <2> QED
    BY <2>1, <2>2
<1>6. ASSUME NEW g \in goals[d], E!OnGoalFeedback(d, g)
      PROVE  Done
  <2> DEFINE h == [e EXCEPT !.last = "EXECUTING"]
             w == Feedback(e.command, e.mission, e.revision, d, e.route, "EXECUTING", e.done)
  <2>1. "EXECUTING" \in FeedbackStates
    BY DEF FeedbackStates, Acceptances
  <2>2. ex' = [ex EXCEPT ![d] = h] /\ said' = [said EXCEPT ![d] = <<w>>] /\ e.active
    BY <1>6, SameWords, Zenon DEF E!OnGoalFeedback, E!Serves, E!Remember, E!Say, E!MakeFeedback
  <2>3. /\ h \in E!Memory /\ h.command = e.command /\ h.mission = e.mission
        /\ h.revision = e.revision /\ h.route = e.route /\ h.active = e.active
        /\ h.purpose = e.purpose /\ h.cancel = e.cancel
    BY <1>1, <2>1, SameWords DEF E!Memory
  <2>4. /\ <<w>> \in Seq(Feedbacks) /\ Stamp(w) = Stamp(e) /\ w.route = e.route
        /\ w.drone = d /\ w.state = "EXECUTING" /\ \A i \in DOMAIN <<w>> : <<w>>[i] = w
    <3>1. /\ e.command \in Nat /\ e.mission \in Nat /\ e.revision \in Nat
          /\ e.route \in Nat /\ e.done \in Nat
      BY <1>1, MemoryFields
    <3>2. /\ w \in Feedbacks /\ Stamp(w) = Stamp(e) /\ w.route = e.route
          /\ w.drone = d /\ w.state = "EXECUTING"
      BY <2>1, <3>1 DEF Feedback, Feedbacks, Stamp
    <3> HIDE DEF w
    <3> QED
      BY <3>2, WordType
  <2> HIDE DEF h, w, Done
  <2>5. SameRoute(e, h)
    BY <2>3 DEF SameRoute, Stamp
  <2> QED
    BY <1>2, <2>2, <2>3, <2>4, <2>5, Zenon
<1>7. ASSUME NEW g \in goals[d], NEW succeeded \in BOOLEAN, E!OnGoalResult(d, g, succeeded)
      PROVE  Done
  <2>1. CASE ~E!Serves(d, g)
    BY <1>7, <2>1, StandsStill DEF E!OnGoalResult
  <2>2. CASE E!Serves(d, g) /\ succeeded
    <3> DEFINE n == e.done + 1
               h == [e EXCEPT !.child = FALSE, !.done = n]
    <3>1. ex' = [ex EXCEPT ![d] = h] /\ said' = [said EXCEPT ![d] = <<>>]
      BY <1>7, <2>2 DEF E!OnGoalResult, E!Remember, E!Say
    <3>2. n \in Nat
      BY <1>1, MemoryFields
    <3> HIDE DEF n
    <3>3. /\ h \in E!Memory /\ h.command = e.command /\ h.mission = e.mission
          /\ h.revision = e.revision /\ h.route = e.route /\ h.active = e.active
          /\ h.purpose = e.purpose /\ h.cancel = e.cancel
      BY <1>1, <3>2, Zenon DEF E!Memory
    <3> HIDE DEF h, Done
    <3>4. SameRoute(e, h)
      BY <3>3 DEF SameRoute, Stamp
    <3> QED
      BY <1>2, <3>1, <3>3, <3>4, Silence, Zenon
  <2>3. CASE E!Serves(d, g) /\ ~succeeded
    <3> DEFINE h == [e EXCEPT !.child = FALSE]
               state == IF e.cancel THEN "CANCELED" ELSE "FAILED"
    <3>1. E!FinishRoute(d, h, state) /\ e.active
      BY <1>7, <2>3 DEF E!OnGoalResult, E!Serves
    <3>2. state \in Terminal
      BY DEF Terminal, Failures
    <3>3. /\ h \in E!Memory /\ h.command = e.command /\ h.mission = e.mission
          /\ h.revision = e.revision /\ h.route = e.route /\ h.active = e.active
      BY <1>1, Zenon DEF E!Memory
    <3> HIDE DEF h, state
    <3>4. SameRoute(e, h)
      BY <3>3 DEF SameRoute, Stamp
    <3> QED
      BY <3>1, <3>2, <3>3, <3>4, FinishingIs, Zenon
  <2> QED
    BY <2>1, <2>2, <2>3
<1> HIDE DEF Done
<1>8. Done
  BY <1>3, <1>4, <1>5, <1>6, <1>7 DEF E!Local, Done
<1> QED
  BY <1>8 DEF Done

LEMMA AdoptedIs ==
  ASSUME NEW e \in E!Memory, NEW c \in Broadcasts
  PROVE  LET a == E!Adopted(e, c)
         IN  /\ a \in E!Memory /\ Stamp(a) = Stamp(c) /\ a.route = e.route
             /\ a.active = e.active /\ a.cancel = e.cancel /\ a.purpose = e.purpose
<1> DEFINE a == E!Adopted(e, c)
<1>1. c.command \in Nat /\ c.mission \in Nat /\ c.revision \in Nat
  BY BroadcastFields
<1>2. "ACCEPTED" \in FeedbackStates
  BY DEF FeedbackStates, Acceptances
<1>3. /\ a \in E!Memory /\ a.command = c.command /\ a.mission = c.mission
      /\ a.revision = c.revision /\ a.route = e.route /\ a.active = e.active
      /\ a.cancel = e.cancel /\ a.purpose = e.purpose
  BY <1>1, <1>2, SameWords, Zenon DEF E!Adopted, E!Memory
<1> HIDE DEF a
<1>4. Stamp(a) = Stamp(c)
  BY <1>3 DEF Stamp
<1> QED
  BY <1>3, <1>4 DEF a

LEMMA ReplacedIs ==
  ASSUME NEW e \in E!Memory, NEW c \in Broadcasts, NEW d \in Drones, c.kind \in ExecuteKinds
  PROVE  LET f == E!Replaced(e, c, d)
         IN  /\ f \in E!Memory /\ Stamp(f) = Stamp(c) /\ f.route = c.orders[d].id
             /\ f.active /\ ~f.cancel /\ f.purpose = c.kind
<1> DEFINE a == E!Adopted(e, c)
           n == a.generation + 1
           f == E!Replaced(e, c, d)
<1>1. a \in E!Memory /\ Stamp(a) = Stamp(c)
  BY AdoptedIs
<1>2. f = [a EXCEPT !.generation = n, !.route = c.orders[d].id,
                    !.legs = c.orders[d].legs, !.purpose = c.kind, !.done = 0,
                    !.requesting = FALSE, !.child = FALSE, !.cancel = FALSE, !.active = TRUE]
  BY DEF E!Replaced
<1> HIDE DEF a, f
<1>3. n \in Nat /\ c.orders[d].id \in Nat /\ c.orders[d].legs \in Nat
  BY <1>1, MemoryFields, BroadcastFields
<1> HIDE DEF n
<1>4. /\ f \in E!Memory /\ f.command = a.command /\ f.mission = a.mission
      /\ f.revision = a.revision /\ f.route = c.orders[d].id
      /\ f.active /\ ~f.cancel /\ f.purpose = c.kind
  BY <1>1, <1>2, <1>3, SameWords DEF E!Memory
<1>5. Stamp(f) = Stamp(a)
  BY <1>4 DEF Stamp
<1> QED
  BY <1>1, <1>4, <1>5 DEF f

LEMMA StoppingIs ==
  ASSUME NEW e \in E!Memory, NEW c \in Broadcasts
  PROVE  LET f == [[e EXCEPT !.command = c.command, !.revision = c.revision]
                     EXCEPT !.cancel = TRUE]
             g == [e EXCEPT !.command = c.command, !.cancel = @ \/ e.active]
         IN  /\ f \in E!Memory /\ g \in E!Memory
             /\ Stamp(f) = [command |-> c.command, mission |-> e.mission,
                            revision |-> c.revision]
             /\ f.route = e.route /\ f.active = e.active /\ f.cancel /\ f.purpose = e.purpose
             /\ Stamp(g) = [command |-> c.command, mission |-> e.mission,
                            revision |-> e.revision]
             /\ g.route = e.route /\ g.active = e.active /\ (g.active => g.cancel)
             /\ g.purpose = e.purpose
<1>1. c.command \in Nat /\ c.revision \in Nat
  BY BroadcastFields
<1>2. PICK b \in BOOLEAN : b = (e.cancel \/ e.active)
  BY Zenon
<1> DEFINE f == [[e EXCEPT !.command = c.command, !.revision = c.revision]
                   EXCEPT !.cancel = TRUE]
           g == [e EXCEPT !.command = c.command, !.cancel = @ \/ e.active]
<1>3. g = [e EXCEPT !.command = c.command, !.cancel = b]
  BY <1>2 DEF E!Memory
<1>4. f = [e EXCEPT !.command = c.command, !.revision = c.revision, !.cancel = TRUE]
  OBVIOUS
<1> HIDE DEF f, g
<1>5. /\ g \in E!Memory /\ g.command = c.command /\ g.mission = e.mission
      /\ g.revision = e.revision /\ g.route = e.route /\ g.active = e.active
      /\ g.cancel = b /\ g.purpose = e.purpose
  BY <1>1, <1>3, Zenon DEF E!Memory
<1>6. /\ f \in E!Memory /\ f.command = c.command /\ f.mission = e.mission
      /\ f.revision = c.revision /\ f.route = e.route /\ f.active = e.active
      /\ f.cancel /\ f.purpose = e.purpose
  BY <1>1, <1>4, Zenon DEF E!Memory
<1>7. /\ Stamp(f) = [command |-> c.command, mission |-> e.mission, revision |-> c.revision]
      /\ Stamp(g) = [command |-> c.command, mission |-> e.mission, revision |-> e.revision]
  BY <1>5, <1>6 DEF Stamp
<1> QED
  BY <1>2, <1>5, <1>6, <1>7, Zenon DEF f, g

LEMMA Word ==
  ASSUME NEW e \in E!Memory, NEW d \in Drones, NEW state \in FeedbackStates
  PROVE  LET words == <<E!MakeFeedback(e, d, state)>>
         IN  /\ words \in Seq(Feedbacks)
             /\ \A i \in DOMAIN words : Stamp(words[i]) = Stamp(e) /\ words[i].drone = d
<1> DEFINE w == E!MakeFeedback(e, d, state)
<1>1. w \in Feedbacks /\ Stamp(w) = Stamp(e) /\ w.drone = d
  BY MemoryFields, SameWords DEF E!MakeFeedback, Feedback, Feedbacks, Stamp
<1> HIDE DEF w
<1>2. /\ <<w>> \in Seq(Feedbacks)
      /\ \A i \in DOMAIN <<w>> : Stamp(<<w>>[i]) = Stamp(e) /\ <<w>>[i].drone = d
  BY <1>1
<1> QED BY <1>2 DEF w

LEMMA ReadingActs ==
  ASSUME ex \in [Drones -> E!Memory], said \in [Drones -> Seq(Feedbacks)],
         NEW d \in Drones, NEW c \in Broadcasts, ForDrone(c, d),
         E!OnMissionCommand(d, c) \/ E!OnFlightCommand(d, c)
  PROVE  \E f, words : Acts(d, f, words) /\ Reads(d, c, ex[d], f, words)
<1> DEFINE e == ex[d]
           Done == \E f, words : Acts(d, f, words) /\ Reads(d, c, e, f, words)
<1>1. /\ c.command \in Nat /\ c.mission \in Nat /\ c.revision \in Nat
      /\ c.orders[d].id \in Nat /\ c.orders[d].legs \in Nat /\ e \in E!Memory
      /\ e.command \in Nat /\ e.mission \in Nat /\ e.revision \in Nat
      /\ e.last \in FeedbackStates \cup {"RECEIVED"}
  BY MemoryFields, BroadcastFields
<1>2. ASSUME UNCHANGED ex, E!Say(d, <<>>), Ends(c, d, e.mission, e.revision) => ~e.active,
             Carries(c, d) => E!Stale(e, c)
      PROVE  Done
  <2>1. Acts(d, e, <<>>)
    BY <1>2, StandsStill
  <2>2. Reads(d, c, e, e, <<>>)
    BY <1>2 DEF Reads, Drops
  <2> QED
    BY <2>1, <2>2
<1>3. CASE E!ExecuteCommand(d, c)
  <2>1. Carries(c, d)
    BY <1>3, SameWords DEF E!ExecuteCommand, Carries
  <2>2. CASE c.orders[d].legs = 0
    <3> DEFINE w == Feedback(c.command, c.mission, c.revision, d, c.orders[d].id, "REJECTED", 0)
    <3>1. ex' = ex /\ said' = [said EXCEPT ![d] = <<w>>]
      BY <1>3, <2>2, SameWords DEF E!ExecuteCommand, E!RejectRoute, E!Say
    <3>2. "REJECTED" \in FeedbackStates /\ 0 \in Nat
      BY DEF FeedbackStates, Failures
    <3>3. w \in Feedbacks /\ Stamp(w) = Stamp(c) /\ w.drone = d
      BY <1>1, <3>2 DEF Feedback, Feedbacks, Stamp
    <3> HIDE DEF w
    <3>4. /\ <<w>> \in Seq(Feedbacks)
          /\ \A i \in DOMAIN <<w>> : Stamp(<<w>>[i]) = Stamp(c) /\ <<w>>[i].drone = d
      BY <3>3, WordType
    <3>5. Acts(d, e, <<w>>)
      BY <1>1, <3>1, <3>4 DEF Acts
    <3>6. Reads(d, c, e, e, <<w>>)
      BY <2>1, <2>2, <3>4 DEF Reads, Drops
    <3> QED
      BY <3>5, <3>6
  <2>3. CASE c.orders[d].legs # 0 /\ E!Stale(e, c)
    <3>1. UNCHANGED ex /\ E!Say(d, <<>>)
      BY <1>3, <2>3 DEF E!ExecuteCommand, E!Ignore
    <3>2. c.mission < e.mission \/ (c.mission = e.mission /\ c.revision < e.revision)
      BY <2>3 DEF E!Stale
    <3>3. ~Ends(c, d, e.mission, e.revision)
      BY <1>1, <2>1, <3>2, KindsDiffer DEF Ends, Carries
    <3> QED
      BY <1>2, <2>3, <3>1, <3>3
  <2>4. CASE c.orders[d].legs # 0 /\ ~E!Stale(e, c) /\ c.command = e.command
    <3> DEFINE words == IF e.last = "RECEIVED" THEN <<>> ELSE <<E!MakeFeedback(e, d, e.last)>>
    <3>1. UNCHANGED ex /\ said' = [said EXCEPT ![d] = words]
      BY <1>3, <2>4 DEF E!ExecuteCommand, E!RepeatFeedback, E!Say
    <3>2. /\ words \in Seq(Feedbacks)
          /\ \A i \in DOMAIN words : Stamp(words[i]) = Stamp(e) /\ words[i].drone = d
      <4>1. CASE e.last = "RECEIVED"
        BY <4>1, Silence
      <4>2. CASE e.last # "RECEIVED"
        BY <1>1, <4>2, Word
      <4> QED
        BY <4>1, <4>2
    <3> HIDE DEF words
    <3>3. Acts(d, e, words)
      BY <1>1, <3>1, <3>2 DEF Acts
    <3>4. Reads(d, c, e, e, words)
      BY <2>4, <3>2 DEF Reads, Drops
    <3> QED
      BY <3>3, <3>4
  <2>5. CASE c.orders[d].legs # 0 /\ ~E!Stale(e, c) /\ c.command # e.command
    <3> DEFINE f == IF E!Unchanged(e, c, d) THEN E!Adopted(e, c) ELSE E!Replaced(e, c, d)
               w == Feedback(c.command, c.mission, c.revision, d, c.orders[d].id, "ACCEPTED",
                             f.done)
    <3>1. E!AcceptRoute(d, c)
      BY <1>3, <2>5 DEF E!ExecuteCommand
    <3>2. c.mission >= e.mission /\ (c.mission = e.mission => c.revision >= e.revision)
      BY <1>1, <2>5 DEF E!Stale
    <3>3. ex' = [ex EXCEPT ![d] = f]
      BY <3>1 DEF E!AcceptRoute, E!Remember
    <3>4. ex'[d] = f
      BY <3>3
    <3>5. said' = [said EXCEPT ![d] = <<E!MakeFeedback(ex'[d], d, "ACCEPTED")>>]
      BY <3>1 DEF E!AcceptRoute, E!Say
    <3>6. /\ f \in E!Memory /\ Stamp(f) = Stamp(c) /\ f.route = c.orders[d].id /\ f.active
          /\ \/ ~f.cancel /\ f.purpose = c.kind
             \/ /\ e.active /\ e.mission = c.mission /\ e.route = c.orders[d].id
                /\ f.cancel = e.cancel /\ f.purpose = e.purpose
      <4>1. CASE E!Unchanged(e, c, d)
        BY <1>1, <4>1, AdoptedIs DEF E!Unchanged
      <4>2. CASE ~E!Unchanged(e, c, d)
        BY <1>1, <2>1, <4>2, ReplacedIs DEF Carries
      <4> QED
        BY <4>1, <4>2
    <3> HIDE DEF f
    <3>7. f.command = c.command /\ f.mission = c.mission /\ f.revision = c.revision
      BY <3>6 DEF Stamp
    <3>8. said' = [said EXCEPT ![d] = <<w>>]
      BY <3>4, <3>5, <3>6, <3>7, SameWords, Zenon DEF E!MakeFeedback
    <3>9. f.done \in Nat /\ "ACCEPTED" \in FeedbackStates
      BY <3>6, MemoryFields DEF FeedbackStates, Acceptances
    <3>10. <<w>> \in Seq(Feedbacks) /\ \A i \in DOMAIN <<w>> : <<w>>[i].drone = d
      <4>1. w \in Feedbacks /\ w.drone = d
        BY <1>1, <3>9 DEF Feedback, Feedbacks
      <4> HIDE DEF w
      <4> QED
        BY <4>1, WordType
    <3>11. Acts(d, f, <<w>>)
      BY <3>3, <3>6, <3>8, <3>10 DEF Acts
    <3>12. Takes(d, c, e, f, <<w>>)
      BY <2>1, <2>5, <3>2, <3>6, <3>9 DEF Takes
    <3> HIDE DEF w
    <3> QED
      BY <3>11, <3>12 DEF Reads
  <2> QED
    BY <2>2, <2>3, <2>4, <2>5
<1> DEFINE f == [[e EXCEPT !.command = c.command, !.revision = c.revision]
                   EXCEPT !.cancel = TRUE]
           g == [e EXCEPT !.command = c.command, !.cancel = @ \/ e.active]
<1>4. /\ f \in E!Memory /\ g \in E!Memory
      /\ Stamp(f) = [command |-> c.command, mission |-> e.mission, revision |-> c.revision]
      /\ f.route = e.route /\ f.active = e.active /\ f.cancel /\ f.purpose = e.purpose
      /\ Stamp(g) = [command |-> c.command, mission |-> e.mission, revision |-> e.revision]
      /\ g.route = e.route /\ g.active = e.active /\ (g.active => g.cancel)
      /\ g.purpose = e.purpose
  BY <1>1, StoppingIs
<1>5. CASE E!CancelRouteRemovedByRevision(d, c) \/ E!HandleCancelCommand(d, c)
  <2> DEFINE told == /\ e.active /\ c.mission = e.mission
                     /\ \/ c.kind \in ExecuteKinds /\ c.revision > e.revision
                        \/ c.kind = "CANCEL" /\ c.revision >= e.revision
  <2>1. d \in c.to \/ c.kind # "CANCEL"
    BY KindsDiffer DEF ForDrone, ForMissionReader, ForFlightReader
  <2>2. \/ c.kind \in ExecuteKinds /\ c.orders[d].id = 0
        \/ c.kind = "CANCEL"
    BY <1>5, SameWords DEF E!CancelRouteRemovedByRevision, E!HandleCancelCommand
  <2>3. IF told THEN ex' = [ex EXCEPT ![d] = f] /\ said' = [said EXCEPT ![d] = <<>>]
        ELSE UNCHANGED ex /\ E!Say(d, <<>>)
    BY <1>5, <2>1, KindsDiffer, SameWords
       DEF E!CancelRouteRemovedByRevision, E!HandleCancelCommand, E!RequestCancel,
           E!Remember, E!Say, E!Ignore
  <2> HIDE DEF f, g
  <2>4. CASE told
    <3>1. Acts(d, f, <<>>)
      BY <1>4, <2>3, <2>4, Silence DEF Acts
    <3>2. Stamp(f) = Stamp(c) /\ c.revision >= e.revision
      BY <1>1, <1>4, <2>4 DEF Stamp
    <3>3. Ends(c, d, e.mission, e.revision) /\ ~Carries(c, d)
      BY <2>2, <2>4, KindsDiffer DEF Ends, Carries
    <3>4. HaltedBy(d, c, e, f, <<>>)
      BY <1>4, <2>4, <3>2, <3>3 DEF HaltedBy
    <3> QED
      BY <3>1, <3>4 DEF Reads
  <2>5. CASE ~told
    <3>1. (Ends(c, d, e.mission, e.revision) => ~e.active) /\ ~Carries(c, d)
      BY <2>2, <2>5, KindsDiffer DEF Ends, Carries
    <3> QED
      BY <1>2, <2>3, <2>5, <3>1
  <2> QED
    BY <2>4, <2>5
<1>6. CASE E!OnFlightCommand(d, c)
  <2>1. ex' = [ex EXCEPT ![d] = g] /\ said' = [said EXCEPT ![d] = <<>>]
        /\ c.kind \in FlightKinds
    BY <1>6, SameWords DEF E!OnFlightCommand, E!Remember, E!Say
  <2> HIDE DEF f, g
  <2>2. Acts(d, g, <<>>)
    BY <1>4, <2>1, Silence DEF Acts
  <2>3. HaltedBy(d, c, e, g, <<>>)
    BY <1>4, <2>1, KindsDiffer DEF HaltedBy, Ends, Carries
  <2> QED
    BY <2>2, <2>3 DEF Reads
<1> QED
  BY <1>3, <1>5, <1>6 DEF E!OnMissionCommand
-----------------------------------------------------------------------------
(* The messages under way to a drone, and what they leave in its memory.   *)

(* One inbox: commands for the drone, in the order of their ids, none of   *)
(* them as old as what the drone remembers.                                *)
InOrder(s, d, e, inbox) ==
  /\ inbox \in Seq(Broadcasts)
  /\ \A i \in DOMAIN inbox : /\ ForDrone(inbox[i], d) /\ Past(s, Stamp(inbox[i]))
                             /\ e.command < inbox[i].command
  /\ \A i, j \in DOMAIN inbox : i < j => inbox[i].command < inbox[j].command

LEMMA InboxGrows ==
  ASSUME NEW s \in Memory, NEW t \in Memory, Dates(s, t), s.out = <<>>,
         NEW d \in Drones, NEW e \in E!Memory, Past(s, Stamp(e)),
         NEW inbox, InOrder(s, d, e, inbox),
         NEW kept \in SUBSET DOMAIN t.out, \A i \in kept : ForDrone(t.out[i], d)
  PROVE  InOrder(t, d, e, inbox \o Picked(t.out, kept))
<1> DEFINE p == Picked(t.out, kept)
           q == inbox \o p
           m == Len(inbox)
<1>1. /\ t.out \in Seq(Broadcasts) /\ inbox \in Seq(Broadcasts) /\ s.nextCommand \in Nat
      /\ e.command \in Nat
  BY BooksField, MemoryFields DEF InOrder
<1>2. /\ p \in Seq(Broadcasts) /\ DOMAIN p \subseteq Nat
      /\ \A n \in DOMAIN p : Nth(kept, n) \in kept /\ p[n] = t.out[Nth(kept, n)]
      /\ \A k, n \in DOMAIN p : k < n => Nth(kept, k) < Nth(kept, n)
  BY <1>1, PickedProperties
<1> HIDE DEF p
<1>3. Ordered(t)
  <2>1. Ordered(s)
    BY DEF Ordered
  <2> QED
    BY <2>1 DEF Dates
<1>4. ASSUME NEW n \in DOMAIN p
      PROVE  /\ ForDrone(p[n], d) /\ Past(t, Stamp(p[n])) /\ s.nextCommand <= p[n].command
             /\ p[n] \in Broadcasts
  <2>1. Nth(kept, n) \in kept /\ p[n] = t.out[Nth(kept, n)]
    BY <1>2
  <2>2. p[n] \in Sent(t) /\ ForDrone(p[n], d)
    BY <2>1 DEF Sent
  <2>3. p[n] \notin Sent(s)
    BY DEF Sent
  <2>4. p[n] \in Broadcasts
    BY <1>2, ElementOfSeq, LenProperties
  <2>5. p[n].kind \notin SettingKinds
    BY <2>2, KindsDiffer DEF ForDrone, ForMissionReader, ForFlightReader
  <2> QED
    BY <2>2, <2>3, <2>4, <2>5 DEF Dates
<1>5. ASSUME NEW k \in DOMAIN p, NEW n \in DOMAIN p, k < n
      PROVE  p[k].command < p[n].command
  BY <1>2, <1>3, <1>5 DEF Ordered
<1>6. ASSUME NEW i \in DOMAIN inbox
      PROVE  /\ ForDrone(inbox[i], d) /\ Past(t, Stamp(inbox[i])) /\ e.command < inbox[i].command
             /\ inbox[i].command < s.nextCommand /\ inbox[i] \in Broadcasts
  <2>1. inbox[i] \in Broadcasts
    BY <1>1, ElementOfSeq, LenProperties
  <2>2. Stamp(inbox[i]) \in Stamps /\ Past(s, Stamp(inbox[i]))
    BY <2>1, StampType DEF InOrder
  <2> QED
    BY <2>1, <2>2, StampIs DEF InOrder, Dates, Past
<1>7. e.command < s.nextCommand
  BY StampIs DEF Past
<1>8. /\ q \in Seq(Broadcasts) /\ DOMAIN q = 1..(m + Len(p)) /\ m \in Nat /\ Len(p) \in Nat
      /\ \A i \in 1..m : q[i] = inbox[i]
      /\ \A i \in (m + 1)..(m + Len(p)) : q[i] = p[i - m]
      /\ DOMAIN inbox = 1..m /\ DOMAIN p = 1..Len(p)
  BY <1>1, <1>2, ConcatProperties, LenProperties
<1> HIDE DEF q, m
<1>9. \A i \in DOMAIN q : \/ i \in DOMAIN inbox /\ q[i] = inbox[i]
                          \/ i \notin DOMAIN inbox /\ i - m \in DOMAIN p /\ q[i] = p[i - m]
  BY <1>8
<1>10. ASSUME NEW i \in DOMAIN q
       PROVE  ForDrone(q[i], d) /\ Past(t, Stamp(q[i])) /\ e.command < q[i].command
  <2>1. CASE i \in DOMAIN inbox
    BY <1>6, <1>9, <2>1
  <2>2. CASE i \notin DOMAIN inbox
    <3>1. /\ i - m \in DOMAIN p /\ q[i] = p[i - m]
      BY <1>9, <2>2
    <3>2. q[i] \in Broadcasts /\ s.nextCommand <= q[i].command
      BY <1>4, <3>1
    <3>3. q[i].command \in Nat
      BY <3>2, BroadcastFields
    <3> QED
      BY <1>1, <1>4, <1>7, <3>1, <3>2, <3>3
  <2> QED
    BY <2>1, <2>2
<1>11. ASSUME NEW i \in DOMAIN q, NEW j \in DOMAIN q, i < j
       PROVE  q[i].command < q[j].command
  <2>1. CASE i \in DOMAIN inbox /\ j \in DOMAIN inbox
    BY <1>9, <1>11, <2>1 DEF InOrder
  <2>2. CASE i \in DOMAIN inbox /\ j \notin DOMAIN inbox
    <3>1. q[i] = inbox[i] /\ j - m \in DOMAIN p /\ q[j] = p[j - m]
      BY <1>9, <2>2
    <3>2. /\ q[i] \in Broadcasts /\ q[j] \in Broadcasts
          /\ q[i].command < s.nextCommand /\ s.nextCommand <= q[j].command
      BY <1>4, <1>6, <2>2, <3>1
    <3>3. q[i].command \in Nat /\ q[j].command \in Nat
      BY <3>2, BroadcastFields
    <3> QED
      BY <1>1, <3>2, <3>3
  <2>3. CASE i \notin DOMAIN inbox
    <3>1. j \notin DOMAIN inbox /\ i \in Nat /\ j \in Nat
      BY <1>8, <1>11, <2>3
    <3>2. i - m \in DOMAIN p /\ j - m \in DOMAIN p /\ q[i] = p[i - m] /\ q[j] = p[j - m]
      BY <1>9, <2>3, <3>1
    <3>3. i - m < j - m
      BY <1>8, <1>11, <3>1
    <3> QED
      BY <1>5, <3>2, <3>3
  <2> QED
    BY <2>1, <2>2, <2>3
<1>12. InOrder(t, d, e, q)
  BY <1>8, <1>10, <1>11 DEF InOrder
<1> QED
  BY <1>12 DEF q, p

LEMMA InboxRead ==
  ASSUME NEW s \in Memory, NEW d \in Drones, NEW e \in E!Memory, NEW f \in E!Memory,
         NEW inbox, InOrder(s, d, e, inbox), inbox # <<>>,
         f.command \in {e.command, Head(inbox).command}
  PROVE  InOrder(s, d, f, Tail(inbox))
<1> DEFINE q == Tail(inbox)
<1>1. /\ inbox \in Seq(Broadcasts) /\ q \in Seq(Broadcasts) /\ Len(q) = Len(inbox) - 1
      /\ \A i \in 1..Len(q) : q[i] = inbox[i + 1]
      /\ Head(inbox) = inbox[1]
  BY HeadTailProperties DEF InOrder
<1>2. /\ Len(inbox) \in Nat /\ DOMAIN inbox = 1..Len(inbox) /\ DOMAIN q = 1..Len(q)
      /\ Len(q) \in Nat /\ 1 \in DOMAIN inbox
  BY <1>1, LenProperties, EmptySeq
<1> HIDE DEF q
<1>3. \A i \in DOMAIN q : i \in Nat /\ i + 1 \in DOMAIN inbox /\ 1 < i + 1 /\ q[i] = inbox[i + 1]
  BY <1>1, <1>2
<1>4. \A i \in DOMAIN q : /\ ForDrone(q[i], d) /\ Past(s, Stamp(q[i]))
                          /\ e.command < q[i].command /\ inbox[1].command < q[i].command
  BY <1>2, <1>3, Zenon DEF InOrder
<1>5. \A i \in DOMAIN q : f.command < q[i].command
  BY <1>1, <1>4
<1>6. \A i, j \in DOMAIN q : i < j => i + 1 < j + 1
  BY <1>3
<1>7. \A i, j \in DOMAIN q : i < j => q[i].command < q[j].command
  BY <1>3, <1>6 DEF InOrder
<1>8. InOrder(s, d, f, q)
  BY <1>1, <1>4, <1>5, <1>7 DEF InOrder
<1> QED
  BY <1>8 DEF q

(* What a drone remembers and tells after it read a command.               *)
LEMMA ReadingDates ==
  ASSUME NEW s \in Memory, NEW d \in Drones, NEW e \in E!Memory, Past(s, Stamp(e)),
         NEW c \in Broadcasts, Past(s, Stamp(c)), e.command < c.command,
         NEW f \in E!Memory, NEW words, Reads(d, c, e, f, words)
  PROVE  /\ f.command \in {e.command, c.command} /\ Past(s, Stamp(f))
         /\ \A i \in DOMAIN words : Past(s, Stamp(words[i]))
<1> DEFINE x == [command |-> c.command, mission |-> e.mission, revision |-> e.revision]
<1>1. /\ s.activeCommand \in Nat /\ e.command \in Nat /\ c.command \in Nat
      /\ c.mission \in Nat /\ c.revision \in Nat
  BY BooksField, MemoryFields, BroadcastFields
<1>2. Past(s, x)
  <2>1. Stamp(x) = x /\ Version(x) = Version(Stamp(e))
    BY DEF Stamp, Version
  <2> QED
    BY <1>1, <2>1 DEF Past, Stamp, Version
<1>3. x.command = c.command
  OBVIOUS
<1> HIDE DEF x
<1>4. Stamp(f) \in {Stamp(e), Stamp(c), x}
  BY DEF Reads, Takes, HaltedBy, Drops, x
<1>5. f.command \in {e.command, c.command}
  BY <1>3, <1>4, StampIs
<1>6. \A i \in DOMAIN words : Stamp(words[i]) \in {Stamp(e), Stamp(c)}
  <2>1. CASE Takes(d, c, e, f, words)
    <3>1. PICK n \in Nat :
            words = <<Feedback(c.command, c.mission, c.revision, d, c.orders[d].id,
                               "ACCEPTED", n)>>
      BY <2>1 DEF Takes
    <3> DEFINE w == Feedback(c.command, c.mission, c.revision, d, c.orders[d].id, "ACCEPTED", n)
    <3>2. Stamp(w) = Stamp(c)
      BY DEF Feedback, Stamp
    <3> HIDE DEF w
    <3>3. words = <<w>>
      BY <3>1 DEF w
    <3> QED
      BY <3>2, <3>3
  <2>2. CASE HaltedBy(d, c, e, f, words)
    BY <2>2, Silence DEF HaltedBy
  <2>3. CASE Drops(d, c, e, f, words)
    BY <2>3, Silence DEF Drops
  <2> QED
    BY <2>1, <2>2, <2>3 DEF Reads
<1> QED
  BY <1>2, <1>4, <1>5, <1>6

LEMMA FlyingDates ==
  ASSUME NEW s, NEW d \in Drones, NEW e \in E!Memory, Past(s, Stamp(e)),
         NEW f \in E!Memory, NEW words,
         FliesOn(e, f, words) \/ ComesToEnd(d, e, f, words)
  PROVE  /\ f.command = e.command /\ Past(s, Stamp(f))
         /\ \A i \in DOMAIN words : Past(s, Stamp(words[i]))
<1>1. Stamp(f) = Stamp(e)
  BY DEF FliesOn, ComesToEnd, SameRoute
<1>2. \A i \in DOMAIN words : Stamp(words[i]) = Stamp(e)
  <2>1. CASE ComesToEnd(d, e, f, words)
    <3>1. PICK state \in Terminal, n \in Nat :
            words = <<Feedback(e.command, e.mission, e.revision, d, e.route, state, n)>>
      BY <2>1 DEF ComesToEnd
    <3> DEFINE w == Feedback(e.command, e.mission, e.revision, d, e.route, state, n)
    <3>2. Stamp(w) = Stamp(e)
      BY DEF Feedback, Stamp
    <3> HIDE DEF w
    <3>3. words = <<w>>
      BY <3>1 DEF w
    <3> QED
      BY <3>2, <3>3
  <2> QED
    BY <2>1 DEF FliesOn
<1> QED
  BY <1>1, <1>2, StampIs

-----------------------------------------------------------------------------
(* The invariant of the coordinator and the drones together.               *)

Kept(s, d, e, routes, flights, told) ==
  /\ Past(s, Stamp(e))
  /\ InOrder(s, d, e, routes) /\ InOrder(s, d, e, flights)
  /\ \A i \in DOMAIN told : Past(s, Stamp(told[i]))

MissionTypes ==
  /\ ex \in [Drones -> E!Memory]
  /\ said \in [Drones -> Seq(Feedbacks)] /\ reports \in [Drones -> Seq(Feedbacks)]
  /\ missionInbox \in [Drones -> Seq(Broadcasts)]
  /\ flightInbox \in [Drones -> Seq(Broadcasts)]

MissionInvariant ==
  /\ NumberedInvariant /\ MissionTypes
  /\ \A d \in Drones : Kept(co, d, ex[d], missionInbox[d], flightInbox[d], reports[d])

LEMMA Primed ==
  /\ \A d \in Drones : Kept(co', d, ex'[d], missionInbox'[d], flightInbox'[d], reports'[d])
  /\ NumberedInvariant' /\ MissionTypes'
  => MissionInvariant'
BY DEF MissionInvariant, Kept, InOrder, Past, Stamp, Version, ActiveVersion, ForDrone,
       ForMissionReader, ForFlightReader

LEMMA Unread ==
  ASSUME NEW s \in Memory, NEW t \in Memory, Dates(s, t), NEW q \in Seq(Feedbacks),
         \A i \in DOMAIN q : Past(s, Stamp(q[i]))
  PROVE  \A i \in DOMAIN q : Past(t, Stamp(q[i]))
<1> SUFFICES ASSUME NEW i \in DOMAIN q
             PROVE  Past(t, Stamp(q[i]))
  OBVIOUS
<1>1. q[i] \in Feedbacks
  BY ElementOfSeq, LenProperties
<1> QED
  BY <1>1, StampType DEF Dates

(* A callback of the coordinator, and the delivery of what it published.   *)
LEMMA DeliverKeeps ==
  ASSUME MissionInvariant, NumberedInvariant', co' \in Memory, Dates(Begin, co'),
         Deliver(co'.out), UNCHANGED <<ex, said>>,
         NEW told \in [Drones -> Seq(Feedbacks)], reports' = told,
         \A d \in Drones : \A i \in DOMAIN told[d] : Past(co, Stamp(told[d][i]))
  PROVE  MissionInvariant'
<1>1. /\ co \in Memory /\ Begin \in Memory /\ Begin.out = <<>> /\ MissionTypes
      /\ Begin.nextCommand = co.nextCommand /\ Begin.nextMission = co.nextMission
      /\ Begin.activeMission = co.activeMission /\ Begin.activeRevision = co.activeRevision
      /\ Begin.activeCommand = co.activeCommand /\ Begin.phase = co.phase
  BY BeginFields, BeginSame
     DEF MissionInvariant, NumberedInvariant, InductiveInvariant, Good, SameVersions
<1>2. \A x : Past(co, x) <=> Past(Begin, x)
  BY <1>1 DEF Past, ActiveVersion
<1>3. co'.out \in Seq(Broadcasts)
  BY BooksField
<1>4. ASSUME NEW d \in Drones
      PROVE  /\ Kept(co', d, ex'[d], missionInbox'[d], flightInbox'[d], reports'[d])
             /\ missionInbox'[d] \in Seq(Broadcasts) /\ flightInbox'[d] \in Seq(Broadcasts)
  <2> DEFINE routes == {i \in DOMAIN co'.out : ForMissionReader(co'.out[i], d)}
             flights == {i \in DOMAIN co'.out : ForFlightReader(co'.out[i], d)}
  <2>1. /\ missionInbox'[d] = missionInbox[d] \o Picked(co'.out, routes)
        /\ flightInbox'[d] = flightInbox[d] \o Picked(co'.out, flights)
    BY Zenon DEF Deliver
  <2>2. /\ \A i \in routes : ForDrone(co'.out[i], d)
        /\ \A i \in flights : ForDrone(co'.out[i], d)
        /\ routes \in SUBSET DOMAIN co'.out /\ flights \in SUBSET DOMAIN co'.out
    BY DEF ForDrone
  <2>3. ex'[d] = ex[d] /\ ex[d] \in E!Memory
    BY <1>1 DEF MissionTypes
  <2>4. Kept(co, d, ex[d], missionInbox[d], flightInbox[d], reports[d])
    BY DEF MissionInvariant
  <2>5. /\ Past(Begin, Stamp(ex[d])) /\ InOrder(Begin, d, ex[d], missionInbox[d])
        /\ InOrder(Begin, d, ex[d], flightInbox[d])
    BY <1>2, <2>4 DEF Kept, InOrder
  <2> HIDE DEF routes, flights
  <2>6. InOrder(co', d, ex[d], missionInbox[d] \o Picked(co'.out, routes))
    BY <1>1, <2>2, <2>3, <2>5, InboxGrows, Zenon
  <2>7. InOrder(co', d, ex[d], flightInbox[d] \o Picked(co'.out, flights))
    BY <1>1, <2>2, <2>3, <2>5, InboxGrows, Zenon
  <2>8. Stamp(ex[d]) \in Stamps
    BY <2>3, MemoryFields DEF Stamp, Stamps
  <2>9. Past(co', Stamp(ex[d]))
    BY <2>5, <2>8 DEF Dates
  <2>10. \A i \in DOMAIN told[d] : Past(co', Stamp(told[d][i]))
    BY <1>1, <1>2, Unread
  <2>11. Kept(co', d, ex[d], missionInbox'[d], flightInbox'[d], told[d])
    BY <2>1, <2>6, <2>7, <2>9, <2>10 DEF Kept
  <2> QED
    BY <2>3, <2>11 DEF Kept, InOrder
<1>5. MissionTypes'
  <2>1. /\ missionInbox' = [d \in Drones |-> missionInbox'[d]]
        /\ flightInbox' = [d \in Drones |-> flightInbox'[d]]
    BY Zenon DEF Deliver
  <2>2. missionInbox' \in [Drones -> Seq(Broadcasts)] /\ flightInbox' \in [Drones -> Seq(Broadcasts)]
    BY <1>4, <2>1
  <2> QED
    BY <1>1, <2>2, Zenon DEF MissionTypes, E!Memory, E!FeedbackStates, E!ExecuteKinds, Broadcasts,
           Feedbacks
<1> QED
  BY <1>4, <1>5, Primed

LEMMA BeginIs ==
  ASSUME MissionInvariant
  PROVE  /\ Good(co) /\ Good(Begin) /\ Counted(Begin) /\ co \in Memory /\ Begin \in Memory
         /\ Begin.out = <<>> /\ MissionTypes /\ co.events = Begin.events
         /\ Begin.phase = co.phase /\ SameVersions(co, Begin)
BY BeginCounted, BeginGood, BeginSame, BeginFields
   DEF MissionInvariant, NumberedInvariant, InductiveInvariant, Good, Begin

LEMMA CoordinateStep ==
  ASSUME MissionInvariant, Coordinate(Operator) \/ Coordinate(Timer) \/ Coordinate(Reports)
  PROVE  MissionInvariant'
<1>1. /\ Operator \/ Timer \/ Reports
      /\ Deliver(co'.out) /\ UNCHANGED <<ex, said>> /\ reports' = reports
  BY DEF Coordinate, droneVars
<1>2. /\ Good(co) /\ Good(Begin) /\ Counted(Begin) /\ Begin \in Memory /\ NumberedInvariant
      /\ reports \in [Drones -> Seq(Feedbacks)] /\ Begin.phase = co.phase
  BY BeginIs DEF MissionInvariant, MissionTypes
<1>3. NumberedInvariant'
  BY <1>1, <1>2, NextNumbered DEF Next
<1>4. co' \in Memory
  BY <1>1, <1>2, NextGood DEF Next, Good
<1>5. Dates(Begin, co')
  <2>1. CASE Chain(Begin, co')
    BY <1>2, <2>1, ChainDates
  <2>2. CASE SwitchedOn(Begin, co')
    BY <1>2, <1>4, <2>2, QuietDates DEF SwitchedOn, Unmoved, SameBooks
  <2> QED
    BY <1>1, <1>2, <2>1, <2>2, CallbackChain
<1>6. \A d \in Drones : \A i \in DOMAIN reports[d] : Past(co, Stamp(reports[d][i]))
  BY DEF MissionInvariant, Kept
<1> QED
  BY <1>1, <1>2, <1>3, <1>4, <1>5, <1>6, DeliverKeeps

(* A report that the node has published the stamp of comes in time.        *)
LEMMA PastIsTimely ==
  ASSUME NEW s \in Memory, NEW fb \in Feedbacks, Past(s, Stamp(fb))
  PROVE  Timely(s, fb)
<1>1. s.activeCommand \in Nat /\ fb.command \in Nat
  BY BooksField DEF Feedbacks
<1> QED
  BY <1>1, StampIs DEF Past, Timely, Version, ActiveVersion

LEMMA HearFeedbackStep ==
  ASSUME MissionInvariant, NEW d \in Drones, HearFeedback(d)
  PROVE  MissionInvariant'
<1> DEFINE fb == Head(reports[d])
           told == [reports EXCEPT ![d] = Tail(@)]
<1>1. /\ Good(co) /\ Good(Begin) /\ Counted(Begin) /\ Begin \in Memory /\ MissionTypes
      /\ co \in Memory /\ co.events = Begin.events /\ NumberedInvariant
      /\ Begin.phase = co.phase /\ SameVersions(co, Begin)
  BY BeginIs DEF MissionInvariant
<1>2. /\ reports[d] # <<>> /\ co' = FeedbackResult(Begin, fb) /\ UNCHANGED <<link, vehicle>>
      /\ Deliver(co'.out) /\ reports' = told /\ UNCHANGED <<ex, said>>
  BY DEF HearFeedback, OnMissionFeedback, Become, droneVars
<1>3. \A e \in Drones : \A i \in DOMAIN reports[e] : Past(co, Stamp(reports[e][i]))
  BY DEF MissionInvariant, Kept
<1>4. /\ reports[d] \in Seq(Feedbacks) /\ Tail(reports[d]) \in Seq(Feedbacks)
      /\ 1 \in DOMAIN reports[d] /\ fb = reports[d][1] /\ fb \in Feedbacks
      /\ Len(Tail(reports[d])) = Len(reports[d]) - 1
      /\ \A i \in 1..Len(Tail(reports[d])) : Tail(reports[d])[i] = reports[d][i + 1]
  <2>1. reports[d] \in Seq(Feedbacks)
    BY <1>1 DEF MissionTypes
  <2>2. Len(reports[d]) \in Nat /\ DOMAIN reports[d] = 1..Len(reports[d]) /\ Len(reports[d]) > 0
    BY <1>2, <2>1, LenProperties, EmptySeq
  <2> QED
    BY <1>2, <2>1, <2>2, HeadTailProperties, ElementOfSeq
<1>5. \A i \in DOMAIN Tail(reports[d]) : Past(co, Stamp(Tail(reports[d])[i]))
  <2>1. /\ Len(reports[d]) \in Nat /\ DOMAIN reports[d] = 1..Len(reports[d])
        /\ DOMAIN Tail(reports[d]) = 1..Len(Tail(reports[d]))
    BY <1>4, LenProperties
  <2>2. \A i \in DOMAIN Tail(reports[d]) :
          i + 1 \in DOMAIN reports[d] /\ Tail(reports[d])[i] = reports[d][i + 1]
    BY <1>4, <2>1
  <2> QED
    BY <1>3, <2>2
<1>6. Past(co, Stamp(fb))
  BY <1>3, <1>4
<1> HIDE DEF fb
<1>7. Past(Begin, Stamp(fb))
  <2>1. Begin.nextMission = co.nextMission /\ Begin.nextCommand = co.nextCommand
    BY <1>1 DEF Begin, Memory
  <2> QED
    BY <1>1, <1>6, <2>1 DEF Past, ActiveVersion, SameVersions
<1>8. Reported(Begin, fb, co')
  BY <1>1, <1>2, <1>4, <1>7, PastIsTimely DEF Reported
<1>9. Good(co') /\ Counted(co') /\ co' \in Memory
  BY <1>1, <1>4, <1>8, ReportedGood DEF Good
<1>10. Dates(Begin, co')
  BY <1>1, <1>2, <1>4, <1>9, ReportedDates
<1>11. NumberedInvariant'
  <2>1. co'.events = co.events
    BY <1>1, <1>2, <1>4, ReportedKeeps
  <2>2. InductiveInvariant'
    BY <1>1, <1>2, <1>9 DEF NumberedInvariant, InductiveInvariant, Good
  <2> QED
    BY <1>1, <1>9, <2>1, <2>2
       DEF NumberedInvariant, EmergenciesLead, Counted, VersionsKnown, HomesNumbered,
           RevisionKnown, StopsCovered, RoutesNumbered, PlanFlyable, Assigned
<1>12. /\ told \in [Drones -> Seq(Feedbacks)]
       /\ \A e \in Drones : \A i \in DOMAIN told[e] : Past(co, Stamp(told[e][i]))
  BY <1>1, <1>3, <1>4, <1>5 DEF MissionTypes
<1> HIDE DEF told
<1> QED
  BY <1>2, <1>9, <1>10, <1>11, <1>12, DeliverKeeps

(* A step of one drone.                                                    *)
LEMMA DroneKeeps ==
  ASSUME MissionInvariant, NEW d \in Drones, UNCHANGED <<co, link, vehicle>>,
         NEW f, NEW words, Acts(d, f, words), Report(d),
         NEW routes, missionInbox' = [missionInbox EXCEPT ![d] = routes],
         NEW flights, flightInbox' = [flightInbox EXCEPT ![d] = flights],
         Past(co, Stamp(f)), InOrder(co, d, f, routes), InOrder(co, d, f, flights),
         \A i \in DOMAIN words : Past(co, Stamp(words[i]))
  PROVE  MissionInvariant'
<1> DEFINE told == reports[d] \o words
<1>1. /\ MissionTypes /\ NumberedInvariant
      /\ \A e \in Drones : Kept(co, e, ex[e], missionInbox[e], flightInbox[e], reports[e])
  BY DEF MissionInvariant
<1>2. /\ f \in E!Memory /\ words \in Seq(Feedbacks)
      /\ ex' = [ex EXCEPT ![d] = f] /\ said' = [said EXCEPT ![d] = words]
  BY DEF Acts
<1>3. reports' = [reports EXCEPT ![d] = told]
  BY <1>1, <1>2 DEF Report, MissionTypes
<1>4. reports[d] \in Seq(Feedbacks)
  BY <1>1 DEF MissionTypes
<1>5. /\ told \in Seq(Feedbacks)
      /\ \A i \in DOMAIN told : Past(co, Stamp(told[i]))
  <2> DEFINE m == Len(reports[d])
  <2>1. /\ told \in Seq(Feedbacks) /\ DOMAIN told = 1..(m + Len(words)) /\ m \in Nat
        /\ Len(words) \in Nat /\ DOMAIN reports[d] = 1..m /\ DOMAIN words = 1..Len(words)
        /\ \A i \in 1..m : told[i] = reports[d][i]
        /\ \A i \in (m + 1)..(m + Len(words)) : told[i] = words[i - m]
    BY <1>2, <1>4, ConcatProperties, LenProperties
  <2> HIDE DEF m, told
  <2>2. \A i \in DOMAIN told : \/ i \in DOMAIN reports[d] /\ told[i] = reports[d][i]
                               \/ i - m \in DOMAIN words /\ told[i] = words[i - m]
    BY <2>1
  <2>3. \A i \in DOMAIN reports[d] : Past(co, Stamp(reports[d][i]))
    BY <1>1 DEF Kept
  <2> QED
    BY <2>1, <2>2, <2>3
<1> HIDE DEF told
<1>6. Kept(co, d, f, routes, flights, told)
  BY <1>5 DEF Kept
<1>7. \A e \in Drones :
        Kept(co', e, ex'[e], missionInbox'[e], flightInbox'[e], reports'[e])
  BY <1>1, <1>2, <1>3, <1>6 DEF MissionTypes
<1>8. MissionTypes'
  <2>1. /\ ex' \in [Drones -> E!Memory]
        /\ said' \in [Drones -> Seq(Feedbacks)] /\ reports' \in [Drones -> Seq(Feedbacks)]
        /\ missionInbox' \in [Drones -> Seq(Broadcasts)]
        /\ flightInbox' \in [Drones -> Seq(Broadcasts)]
    BY <1>1, <1>2, <1>3, <1>5 DEF MissionTypes, InOrder
  <2> QED
    BY <2>1, Zenon DEF MissionTypes, E!Memory, E!FeedbackStates, E!ExecuteKinds, Broadcasts,
           Feedbacks
<1>9. NumberedInvariant'
  BY <1>1, Zenon DEF NumberedInvariant, InductiveInvariant, Good, Consistent, Exclusive,
       Awaited, Accounted, Known, Placed, Sound, Honest, Separate, Assigned,
       Submitted, Counted, VersionsKnown, HomesNumbered, RevisionKnown,
       StopsCovered, RoutesNumbered, PlanFlyable, EmergenciesLead
<1> QED
  BY <1>7, <1>8, <1>9, Primed

LEMMA NextRead ==
  ASSUME NEW s, NEW d, NEW e, NEW inbox, InOrder(s, d, e, inbox), inbox # <<>>
  PROVE  /\ Head(inbox) \in Broadcasts /\ ForDrone(Head(inbox), d)
         /\ Past(s, Stamp(Head(inbox))) /\ e.command < Head(inbox).command
<1>1. inbox \in Seq(Broadcasts) /\ Head(inbox) = inbox[1] /\ 1 \in DOMAIN inbox
  BY HeadTailProperties, LenProperties, EmptySeq DEF InOrder
<1> QED
  BY <1>1, ElementOfSeq, LenProperties DEF InOrder

LEMMA ReadStep ==
  ASSUME ReadersInOrder, MissionInvariant, NEW d \in Drones,
         ReadMissionCommand(d) \/ ReadFlightCommand(d)
  PROVE  MissionInvariant'
<1>1. /\ MissionTypes /\ NumberedInvariant /\ co \in Memory /\ ex[d] \in E!Memory
      /\ Kept(co, d, ex[d], missionInbox[d], flightInbox[d], reports[d])
  BY BeginIs DEF MissionInvariant, MissionTypes
<1>2. ASSUME NEW inbox, InOrder(co, d, ex[d], inbox), inbox # <<>>,
             NEW other, InOrder(co, d, ex[d], other),
             \A i \in DOMAIN other : other[i].command > Head(inbox).command,
             E!OnMissionCommand(d, Head(inbox)) \/ E!OnFlightCommand(d, Head(inbox))
      PROVE  \E f, words :
               /\ Acts(d, f, words) /\ Past(co, Stamp(f))
               /\ InOrder(co, d, f, Tail(inbox)) /\ InOrder(co, d, f, other)
               /\ \A i \in DOMAIN words : Past(co, Stamp(words[i]))
  <2> DEFINE c == Head(inbox)
  <2>1. /\ c \in Broadcasts /\ ForDrone(c, d) /\ Past(co, Stamp(c)) /\ ex[d].command < c.command
    BY <1>2, NextRead
  <2>2. E!OnMissionCommand(d, c) \/ E!OnFlightCommand(d, c)
    BY <1>2
  <2>3. \A i \in DOMAIN other : other[i].command > c.command
    BY <1>2
  <2> HIDE DEF c
  <2>4. PICK f, words : Acts(d, f, words) /\ Reads(d, c, ex[d], f, words)
    BY <1>1, <2>1, <2>2, ReadingActs DEF MissionTypes
  <2>5. /\ f \in E!Memory /\ f.command \in {ex[d].command, c.command} /\ Past(co, Stamp(f))
        /\ \A i \in DOMAIN words : Past(co, Stamp(words[i]))
    BY <1>1, <2>1, <2>4, ReadingDates DEF Acts, Kept
  <2>6. InOrder(co, d, f, Tail(inbox))
    BY <1>1, <1>2, <2>5, InboxRead DEF c
  <2>7. InOrder(co, d, f, other)
    <3>1. \A i \in DOMAIN other : f.command < other[i].command
      BY <1>2, <2>1, <2>3, <2>5 DEF InOrder
    <3> QED
      BY <1>2, <3>1 DEF InOrder
  <2> QED
    BY <2>4, <2>5, <2>6, <2>7
<1>3. CASE ReadMissionCommand(d)
  <2>1. PICK f, words :
          /\ Acts(d, f, words) /\ Past(co, Stamp(f))
          /\ InOrder(co, d, f, Tail(missionInbox[d])) /\ InOrder(co, d, f, flightInbox[d])
          /\ \A i \in DOMAIN words : Past(co, Stamp(words[i]))
    <3>1. /\ InOrder(co, d, ex[d], missionInbox[d]) /\ missionInbox[d] # <<>>
          /\ InOrder(co, d, ex[d], flightInbox[d])
          /\ E!OnMissionCommand(d, Head(missionInbox[d]))
          /\ \A i \in DOMAIN flightInbox[d] :
               flightInbox[d][i].command > Head(missionInbox[d]).command
      BY <1>1, <1>3 DEF ReadMissionCommand, Kept
    <3> QED
      BY <1>2, <3>1
  <2>2. /\ missionInbox' = [missionInbox EXCEPT ![d] = Tail(missionInbox[d])]
        /\ flightInbox' = [flightInbox EXCEPT ![d] = flightInbox[d]]
        /\ Report(d) /\ UNCHANGED <<co, link, vehicle>>
    BY <1>1, <1>3 DEF ReadMissionCommand, MissionTypes
  <2> QED
    BY <2>1, <2>2, DroneKeeps, Zenon
<1>4. CASE ReadFlightCommand(d)
  <2>1. PICK f, words :
          /\ Acts(d, f, words) /\ Past(co, Stamp(f))
          /\ InOrder(co, d, f, Tail(flightInbox[d])) /\ InOrder(co, d, f, missionInbox[d])
          /\ \A i \in DOMAIN words : Past(co, Stamp(words[i]))
    <3>1. /\ InOrder(co, d, ex[d], flightInbox[d]) /\ flightInbox[d] # <<>>
          /\ InOrder(co, d, ex[d], missionInbox[d])
          /\ E!OnFlightCommand(d, Head(flightInbox[d]))
          /\ \A i \in DOMAIN missionInbox[d] :
               missionInbox[d][i].command > Head(flightInbox[d]).command
      BY <1>1, <1>4 DEF ReadFlightCommand, Kept
    <3> QED
      BY <1>2, <3>1, Zenon
  <2>2. /\ flightInbox' = [flightInbox EXCEPT ![d] = Tail(flightInbox[d])]
        /\ missionInbox' = [missionInbox EXCEPT ![d] = missionInbox[d]]
        /\ Report(d) /\ UNCHANGED <<co, link, vehicle>>
    BY <1>1, <1>4 DEF ReadFlightCommand, MissionTypes
  <2> QED
    BY <2>1, <2>2, DroneKeeps, Zenon
<1> QED
  BY <1>3, <1>4

LEMMA FlyStep ==
  ASSUME MissionInvariant, NEW d \in Drones, Fly(d)
  PROVE  MissionInvariant'
<1>1. /\ MissionTypes /\ co \in Memory /\ ex[d] \in E!Memory
      /\ Kept(co, d, ex[d], missionInbox[d], flightInbox[d], reports[d])
  BY BeginIs DEF MissionInvariant, MissionTypes
<1>2. PICK f, words : /\ Acts(d, f, words)
                      /\ FliesOn(ex[d], f, words) \/ ComesToEnd(d, ex[d], f, words)
  BY <1>1, LocalActs DEF Fly, MissionTypes
<1>3. /\ f.command = ex[d].command /\ Past(co, Stamp(f))
      /\ \A i \in DOMAIN words : Past(co, Stamp(words[i]))
  BY <1>1, <1>2, FlyingDates, Zenon DEF Acts, Kept
<1>4. InOrder(co, d, f, missionInbox[d]) /\ InOrder(co, d, f, flightInbox[d])
  BY <1>1, <1>3 DEF InOrder, Kept
<1>5. /\ missionInbox' = [missionInbox EXCEPT ![d] = missionInbox[d]]
      /\ flightInbox' = [flightInbox EXCEPT ![d] = flightInbox[d]]
      /\ Report(d) /\ UNCHANGED <<co, link, vehicle>>
  BY <1>1 DEF Fly, MissionTypes
<1> QED
  BY <1>2, <1>3, <1>4, <1>5, DroneKeeps, Zenon

LEMMA MissionInitGood == MissionInit => MissionInvariant
<1> SUFFICES ASSUME MissionInit PROVE MissionInvariant
  OBVIOUS
<1>1. NumberedInvariant
  BY InitNumbered DEF MissionInit
<1>2. E!Idle \in E!Memory
  BY DEF E!Idle, E!Memory, E!ExecuteKinds
<1>3. MissionTypes
  <2>1. <<>> \in Seq(Feedbacks) /\ <<>> \in Seq(Broadcasts)
    BY EmptySeq
  <2> QED
    BY <1>2, <2>1, SameWords DEF MissionTypes, MissionInit, E!Init
<1>4. ASSUME NEW d \in Drones
      PROVE  Kept(co, d, ex[d], missionInbox[d], flightInbox[d], reports[d])
  <2>1. /\ ex[d] = E!Idle /\ missionInbox[d] = <<>> /\ flightInbox[d] = <<>>
        /\ reports[d] = <<>>
    BY <1>4, SameWords DEF MissionInit, E!Init
  <2>2. Past(co, Stamp(ex[d]))
    BY <2>1 DEF MissionInit, Init, Started, Past, Stamp, Version, ActiveVersion, E!Idle
  <2>3. <<>> \in Seq(Broadcasts) /\ DOMAIN <<>> = {}
    BY EmptySeq
  <2> QED
    BY <2>1, <2>2, <2>3 DEF Kept, InOrder
<1> QED
  BY <1>1, <1>3, <1>4 DEF MissionInvariant

LEMMA MissionStands ==
  ASSUME MissionInvariant, UNCHANGED missionVars
  PROVE  MissionInvariant'
<1>1. NumberedInvariant'
  BY Zenon
     DEF MissionInvariant, missionVars, NumberedInvariant, InductiveInvariant, Good, Consistent,
       Exclusive, Awaited, Accounted, Known, Placed, Sound, Honest, Separate, Assigned,
       Submitted, Counted, VersionsKnown, HomesNumbered, RevisionKnown,
       StopsCovered, RoutesNumbered, PlanFlyable, EmergenciesLead
<1>2. MissionTypes'
  BY Zenon DEF MissionInvariant, missionVars, MissionTypes, E!Memory, E!FeedbackStates,
         E!ExecuteKinds, Broadcasts, Feedbacks
<1>3. \A d \in Drones : Kept(co', d, ex'[d], missionInbox'[d], flightInbox'[d], reports'[d])
  BY DEF MissionInvariant, missionVars
<1> QED
  BY <1>1, <1>2, <1>3, Primed

(* The coordinator's books hold with the drones that answer it in the      *)
(* place of the environment, and no message under way, nor any drone's     *)
(* memory, is of a version later than the coordinator's or of the counted  *)
(* version before its dispatch.                                            *)
THEOREM MissionInvariance == ReadersInOrder => (MissionSpec => []MissionInvariant)
<1> SUFFICES ASSUME ReadersInOrder
             PROVE  MissionSpec => []MissionInvariant
  OBVIOUS
<1>1. MissionInvariant /\ [MissionNext]_missionVars => MissionInvariant'
  <2> SUFFICES ASSUME MissionInvariant, [MissionNext]_missionVars
               PROVE  MissionInvariant'
    OBVIOUS
  <2>1. CASE Coordinate(Operator) \/ Coordinate(Timer) \/ Coordinate(Reports)
    BY <2>1, CoordinateStep
  <2>2. CASE \E d \in Drones : HearFeedback(d)
    BY <2>2, HearFeedbackStep
  <2>3. CASE \E d \in Drones : ReadMissionCommand(d) \/ ReadFlightCommand(d)
    BY <2>3, ReadStep
  <2>4. CASE \E d \in Drones : Fly(d)
    BY <2>4, FlyStep
  <2>5. CASE UNCHANGED missionVars
    BY <2>5, MissionStands
  <2> QED
    BY <2>1, <2>2, <2>3, <2>4, <2>5 DEF MissionNext, Exchange
<1> QED
  BY <1>1, MissionInitGood, PTL DEF MissionSpec

(* Feedback about the revision that awaits acknowledgement is never        *)
(* dropped for an older command id.                                        *)
THEOREM AcknowledgementsCount ==
  ReadersInOrder => (MissionSpec => []AcknowledgesItsBroadcast)
<1>1. MissionInvariant => AcknowledgesItsBroadcast
  <2> SUFFICES ASSUME MissionInvariant, NEW d \in Drones, NEW i \in DOMAIN reports[d],
                      co.phase = "WAITING", reports[d][i].mission = co.activeMission,
                      reports[d][i].revision = co.activeRevision
               PROVE  reports[d][i].command = co.activeCommand
    BY DEF AcknowledgesItsBroadcast
  <2>1. /\ co \in Memory /\ reports[d] \in Seq(Feedbacks) /\ Past(co, Stamp(reports[d][i]))
    BY BeginIs DEF MissionInvariant, MissionTypes, Kept
  <2>2. reports[d][i] \in Feedbacks
    BY <2>1, ElementOfSeq, LenProperties
  <2>3. co.activeCommand \in Nat /\ reports[d][i].command \in Nat
    BY <2>1, <2>2, BooksField DEF Feedbacks
  <2> QED
    BY <2>1, <2>3, StampIs DEF Past, Version, ActiveVersion
<1> QED
  BY <1>1, MissionInvariance, PTL

-----------------------------------------------------------------------------
(* What a callback is to one drone.                                        *)

(* The book whose routes the drones fly, or are about to.                  *)
Book(s) == IF s.phase = "WAITING" THEN s.provisional ELSE s.current

Addressed(s, d) == {c \in Sent(s) : ForDrone(c, d)}

(* From s to t the drone is sent "new" as well, and ids only grow.         *)
Brings(s, t, d, new) ==
  /\ Addressed(t, d) = Addressed(s, d) \cup new /\ new \subseteq Broadcasts
  /\ \A c \in new : ForDrone(c, d) /\ s.nextCommand <= c.command
  /\ s.nextCommand <= t.nextCommand /\ s.nextMission <= t.nextMission
  /\ s.nextRoute <= t.nextRoute

SameActive(s, t) ==
  /\ t.activeCommand = s.activeCommand /\ t.activeMission = s.activeMission
  /\ t.activeRevision = s.activeRevision

(* The routes the drone may be told to fly on with: the one it has, and    *)
(* the planned one if a dispatch would still admit it.                     *)
Live(s, d) ==
  ({Book(s)[d].id} \cup IF s.excluded[d] THEN {} ELSE {s.planned[d].id}) \ {0}

(* Nothing changes for the drone; at most it hears another one sent home.  *)
Spared(s, t, d, new) ==
  /\ t.phase = s.phase /\ Book(t)[d] = Book(s)[d] /\ t.aux[d] = s.aux[d]
  /\ SameActive(s, t)
  /\ \A id \in Live(t, d) : id \in Live(s, d) \/ s.nextRoute <= id
  /\ \A c \in new : /\ c.kind \in HomeKinds /\ c.orders[d].id = 0 /\ c.revision = 1
                    /\ c.mission = s.nextMission /\ c.command = s.nextCommand

(* The drone loses the route it has, of the mission or home, and is told.  *)
Stopped(s, t, d, new) ==
  /\ Book(t)[d].id = 0 /\ Live(t, d) = {} /\ t.aux[d] \in {s.aux[d], NoAux}
  /\ SameActive(s, t)
  /\ \A c \in new : /\ c.kind \in FlightKinds \cup {"CANCEL"}
                    /\ t.aux[d].id # 0 => c.kind = "CANCEL" /\ c.mission = s.activeMission
  /\ Book(s)[d].id # 0 => \E c \in new : Ends(c, d, s.activeMission, s.activeRevision)
  /\ s.aux[d].id # 0 => t.aux[d] = s.aux[d] \/ \E c \in new : Ends(c, d, s.aux[d].mission, 1)

SentOff(s, t, d, new) ==
  /\ Book(t)[d].id = 0 /\ Live(t, d) = {} /\ SameActive(s, t)
  /\ t.aux[d].id # 0 /\ t.aux[d].id < t.nextRoute
  /\ t.aux[d].command = s.nextCommand /\ t.aux[d].mission = s.nextMission
  /\ \E c \in new :
       /\ new = {c} /\ c.kind \in HomeKinds /\ c.command = s.nextCommand
       /\ c.mission = s.nextMission /\ c.revision = 1
       /\ c.orders[d] = [id |-> t.aux[d].id, legs |-> HomeLegs]

Tasked(s, t, d, new) ==
  /\ s.phase = "IDLE" /\ t.phase = "WAITING" /\ t.aux[d] = s.aux[d]
  /\ t.provisional[d] = s.planned[d] /\ t.planned = NoRoutes
  /\ t.activeCommand = s.nextCommand
  /\ \/ t.activeMission = s.activeMission /\ t.activeRevision = s.activeRevision + 1
     \/ t.activeMission = s.nextMission /\ t.activeRevision = 1 /\ Owners(s.current) = {}
  /\ \E c \in new :
       /\ new = {c} /\ c.kind = "EXECUTE" /\ c.command = s.nextCommand
       /\ Version(c) = ActiveVersion(t)
       /\ c.orders[d] = [id |-> s.planned[d].id, legs |-> Len(s.planned[d].targets)]
  /\ s.planned[d].id # 0 => ~s.excluded[d] /\ s.aux[d].id = 0

(* A plan takes over unfinished routes only.                               *)
PlansOn(s, t, d) ==
  t.planned[d].id # 0 /\ t.planned[d].finished =>
    \/ s.planned[d].id # 0 /\ s.planned[d].finished
    \/ LET route == Book(s)[d]
       IN  route.id # 0 /\ route.finished /\ route.completed < Len(route.targets)

Touches(s, t, d, new) ==
  /\ PlansOn(s, t, d)
  /\ \/ Spared(s, t, d, new) \/ Stopped(s, t, d, new)
     \/ SentOff(s, t, d, new) \/ Tasked(s, t, d, new)

LEMMA NoPlanOn ==
  ASSUME NEW s, NEW t, NEW d \in Drones, t.planned = s.planned \/ t.planned = NoRoutes
  PROVE  PlansOn(s, t, d)
BY DEF PlansOn, NoRoutes, NoRoute

LEMMA AddressedGrows ==
  ASSUME NEW s \in Memory, NEW t, NEW new, Adds(s, t, new), new \subseteq Broadcasts,
         s.nextMission <= t.nextMission, s.nextRoute <= t.nextRoute, NEW d
  PROVE  Brings(s, t, d, {c \in new : ForDrone(c, d)})
BY DEF Brings, Addressed, Adds

LEMMA NoRouteIs == NoRoute.id = 0 /\ NoAux.id = 0 /\ \A d \in Drones : NoRoutes[d].id = 0
BY DEF NoRoute, NoAux, NoRoutes

(* The counters of a memory are numbers, and its routes have ids.          *)
LEMMA Counters ==
  ASSUME NEW s \in Memory
  PROVE  /\ s.nextCommand \in Nat /\ s.nextMission \in Nat /\ s.nextRoute \in Nat
         /\ s.activeCommand \in Nat /\ s.activeMission \in Nat /\ s.activeRevision \in Nat
         /\ \A d \in Drones : /\ s.current[d].id \in Nat /\ s.provisional[d].id \in Nat
                              /\ s.planned[d].id \in Nat /\ s.aux[d].id \in Nat
                              /\ s.aux[d].command \in Nat /\ s.aux[d].mission \in Nat
                              /\ Book(s)[d].id \in Nat
BY BooksField, Zenon DEF Books, Route, Aux, Book, Memory

LEMMA UnmovedTouches ==
  ASSUME NEW s \in Memory, NEW t \in Memory, NEW new, Unmoved(s, t, new), NEW d \in Drones
  PROVE  \E v \in SUBSET Broadcasts : Brings(s, t, d, v) /\ Touches(s, t, d, v)
<1> DEFINE v == {c \in new : ForDrone(c, d)}
<1>1. /\ SameBooks(s, t) /\ SameVersions(s, t) /\ new \subseteq Broadcasts /\ Adds(s, t, new)
      /\ \A c \in new : c.kind \in SettingKinds
      /\ \/ t.planned = NoRoutes
         \/ t.planned = s.planned /\ \A x \in Drones : s.excluded[x] => t.excluded[x]
  BY DEF Unmoved
<1>2. Brings(s, t, d, v)
  BY <1>1, Counters, AddressedGrows DEF SameVersions
<1>3. v = {}
  BY <1>1, KindsDiffer DEF ForDrone, ForMissionReader, ForFlightReader
<1>4. Book(t)[d] = Book(s)[d]
  BY <1>1 DEF Book, SameBooks
<1>5. Live(t, d) \subseteq Live(s, d)
  BY <1>1, <1>4, NoRouteIs DEF Live
<1>6. Spared(s, t, d, v)
  BY <1>1, <1>3, <1>4, <1>5 DEF Spared, SameBooks, SameVersions, SameActive
<1> QED
  BY <1>1, <1>2, <1>6, NoPlanOn DEF Touches

LEMMA CalculatedTouches ==
  ASSUME NEW s \in Memory, NEW t \in Memory, Calculated(s, t), s.phase = "IDLE",
         NEW d \in Drones
  PROVE  \E v \in SUBSET Broadcasts : Brings(s, t, d, v) /\ Touches(s, t, d, v)
<1>1. /\ SameBooks(s, t) /\ SaysNothing(s, t) /\ SameActive(s, t)
      /\ t.nextMission = s.nextMission /\ s.nextRoute <= t.nextRoute
      /\ t.excluded = s.excluded /\ Planned(s, t)
  BY DEF Calculated, SameActive, SameSafety
<1>2. Adds(s, t, {})
  BY <1>1, NothingAdded
<1>3. Brings(s, t, d, {})
  BY <1>1, <1>2, Counters DEF Brings, Addressed, Adds
<1>4. Book(t)[d] = Book(s)[d] /\ Book(s) = s.current
  BY <1>1 DEF Book, SameBooks
<1>5. ASSUME NEW id \in Live(t, d)
      PROVE  id \in Live(s, d) \/ s.nextRoute <= id
  <2>1. CASE id = Book(t)[d].id
    BY <1>4, <1>5, <2>1 DEF Live
  <2>2. CASE id = t.planned[d].id /\ ~s.excluded[d]
    <3>1. d \in Owners(t.planned)
      BY <1>5, <2>2 DEF Live, Owners
    <3>2. id = s.current[d].id \/ s.nextRoute <= id
      BY <1>1, <2>2, <3>1 DEF Planned
    <3> QED
      BY <1>4, <1>5, <3>2 DEF Live
  <2> QED
    BY <1>1, <1>5, <2>1, <2>2 DEF Live
<1>6. Spared(s, t, d, {})
  BY <1>1, <1>4, <1>5 DEF Spared, SameBooks
<1>7. PlansOn(s, t, d)
  BY <1>1, <1>4 DEF PlansOn, Planned, Owners
<1> QED
  BY <1>3, <1>6, <1>7 DEF Touches

LEMMA DispatchedTouches ==
  ASSUME NEW s, Good(s), NEW t \in Memory, CanDispatch(s), Dispatched(s, t), Counted(s),
         NEW d \in Drones
  PROVE  \E v \in SUBSET Broadcasts : Brings(s, t, d, v) /\ Touches(s, t, d, v)
<1> DEFINE c == Broadcast("EXECUTE", s.nextCommand, t.activeMission, t.activeRevision,
                          Owners(s.planned), Orders(s.planned))
<1>1. s \in Memory /\ c \in Broadcasts /\ Adds(s, t, {c})
  BY DispatchSends DEF Good
<1>2. c.kind = "EXECUTE" /\ c.command = s.nextCommand /\ Version(c) = ActiveVersion(t)
      /\ c.orders[d] = [id |-> s.planned[d].id, legs |-> Len(s.planned[d].targets)]
  BY DEF Broadcast, Version, ActiveVersion, Orders
<1> HIDE DEF c
<1>3. ForDrone(c, d)
  BY <1>2 DEF ForDrone, ForMissionReader, ExecuteKinds
<1>4. s.nextMission <= t.nextMission /\ s.nextRoute <= t.nextRoute
  BY <1>1, Counters DEF Dispatched
<1>5. Brings(s, t, d, {c})
  <2>1. {x \in {c} : ForDrone(x, d)} = {c}
    BY <1>3
  <2> QED
    BY <1>1, <1>4, <2>1, AddressedGrows
<1>6. s.phase = "IDLE" /\ (s.plannedRecalc <=> (Owners(s.current) # {}))
  BY DEF CanDispatch
<1>7. ASSUME s.planned[d].id # 0
      PROVE  ~s.excluded[d] /\ s.aux[d].id = 0
  <2>1. DroneReadyForMission(s, d) /\ (~s.busy[d] \/ d \in Owners(s.current))
    BY <1>7 DEF CanDispatch, Owners
  <2>2. d \in Owners(s.aux) => s.busy[d] /\ d \notin Owners(s.current)
    BY DEF Good, Exclusive, Assigned
  <2> QED
    BY <2>1, <2>2 DEF DroneReadyForMission, DroneHealthy, Owners
<1>8. /\ t.phase = "WAITING" /\ t.aux[d] = s.aux[d] /\ t.provisional[d] = s.planned[d]
      /\ t.planned = NoRoutes /\ t.activeCommand = s.nextCommand
      /\ \/ t.activeMission = s.activeMission /\ t.activeRevision = s.activeRevision + 1
         \/ /\ t.activeMission = s.nextMission /\ t.activeRevision = 1
            /\ Owners(s.current) = {}
  BY <1>6 DEF Dispatched
<1>9. Tasked(s, t, d, {c})
  BY <1>2, <1>6, <1>7, <1>8 DEF Tasked
<1> QED
  BY <1>1, <1>5, <1>8, <1>9, NoPlanOn DEF Touches

LEMMA CalledOffStops ==
  ASSUME NEW s \in Memory, NEW t \in Memory, VersionsKnown(s), SameVersions(s, t),
         t.aux = s.aux, Owners(t.current) = {}, Owners(t.provisional) = {},
         t.planned = NoRoutes,
         CalledOff(s, t), NEW d \in Drones
  PROVE  \E v \in SUBSET Broadcasts : Brings(s, t, d, v) /\ Stopped(s, t, d, v)
<1>1. Book(t)[d].id = 0 /\ Live(t, d) = {} /\ SameActive(s, t)
  BY NoRouteIs DEF Book, Live, Owners, SameVersions, SameActive
<1>2. s.nextMission <= t.nextMission /\ s.nextRoute <= t.nextRoute
  BY Counters DEF SameVersions
<1>3. CASE s.activeMission = 0
  <2>1. SaysNothing(s, t) /\ Assigned(s) = {}
    BY <1>3 DEF CalledOff, VersionsKnown
  <2>2. Adds(s, t, {})
    BY <2>1, NothingAdded
  <2>3. Brings(s, t, d, {})
    BY <1>2, <2>2 DEF Brings, Addressed, Adds
  <2>4. Book(s)[d].id = 0
    BY <2>1 DEF Assigned, Owners, Book
  <2>5. Stopped(s, t, d, {})
    BY <1>1, <2>4 DEF Stopped
  <2> QED
    BY <2>3, <2>5
<1>4. CASE s.activeMission # 0
  <2> DEFINE c == CancelAll(s)
  <2>1. /\ c.kind = "CANCEL" /\ c.command = s.nextCommand /\ c.mission = s.activeMission
        /\ c.revision = s.activeRevision /\ d \in c.to
    BY DEF CancelAll, Broadcast
  <2>2. c \in Broadcasts
    BY Counters DEF CancelAll, Broadcast, Broadcasts, Kinds, NoOrders, NoOrder, Order
  <2>3. Posts(s, t, c)
    BY <1>4 DEF CalledOff
  <2> HIDE DEF c
  <2>4. Adds(s, t, {c})
    BY <2>1, <2>2, <2>3, PostAdded
  <2>5. {x \in {c} : ForDrone(x, d)} = {c}
    BY <2>1 DEF ForDrone, ForMissionReader
  <2>6. Brings(s, t, d, {c})
    BY <1>2, <2>2, <2>4, <2>5, AddressedGrows
  <2>7. Ends(c, d, s.activeMission, s.activeRevision)
    BY <2>1, Counters DEF Ends
  <2>8. Stopped(s, t, d, {c})
    BY <1>1, <2>1, <2>7 DEF Stopped
  <2> QED
    BY <2>2, <2>6, <2>8
<1> QED
  BY <1>3, <1>4

(* What a failure of the dispatch leaves: nothing, whatever there was.     *)
LEMMA FailedIs ==
  ASSUME NEW s \in Memory, NEW t \in Memory, Counted(s), s.phase = "WAITING", Failed(s, t)
  PROVE  Owners(t.current) = {} /\ t.planned = NoRoutes /\ Owners(t.provisional) = {}
<1>1. s.planned = NoRoutes /\ (s.recalculation \/ Owners(s.current) = {})
  BY DEF Counted, RevisionKnown
<1>2. t.planned = NoRoutes /\ Owners(t.provisional) = {}
  BY <1>1, NoRouteIs DEF Failed, Owners
<1>3. CASE s.recalculation
  BY <1>2, <1>3, NoRouteIs DEF Failed, Owners
<1>4. CASE ~s.recalculation
  <2>1. t.current = s.current /\ Owners(t.current) = {}
    BY <1>1, <1>4 DEF Failed
  <2> QED
    BY <1>2, <2>1
<1> QED
  BY <1>3, <1>4

LEMMA FreedTouches ==
  ASSUME NEW s, Good(s), NEW t \in Memory, s.phase = "IDLE", NEW ds \in SUBSET Drones,
         NEW new, Freed(s, t, ds, new), HomesNumbered(s), NEW d \in Drones
  PROVE  \E v \in SUBSET Broadcasts : Brings(s, t, d, v) /\ Touches(s, t, d, v)
<1> DEFINE v == {c \in new : ForDrone(c, d)}
<1>1. /\ s \in Memory /\ t.phase = "IDLE" /\ SameVersions(s, t) /\ SameActive(s, t)
      /\ t.current = Detached(s.current, ds) /\ t.aux = WithoutAux(s.aux, ds)
      /\ t.planned = s.planned \/ t.planned = NoRoutes
      /\ t.planned = s.planned => t.planned = NoRoutes \/ \A x \in ds : t.excluded[x]
      /\ \A x \in Drones : s.excluded[x] => t.excluded[x]
      /\ new \subseteq Broadcasts /\ Adds(s, t, new)
  BY DEF Freed, Released, Good, SameVersions, SameActive
<1>2. Brings(s, t, d, v)
  BY <1>1, Counters, AddressedGrows DEF SameVersions
<1>3. v \in SUBSET Broadcasts /\ Book(s) = s.current /\ Book(t) = t.current
  BY <1>1 DEF Book
<1>4. \A c \in v : c.kind \in FlightKinds \cup {"CANCEL"} /\ d \in ds
  BY KindsDiffer DEF Freed, ForDrone, ForMissionReader, ForFlightReader
<1>5. CASE d \notin ds
  <2>1. t.current[d] = s.current[d] /\ t.aux[d] = s.aux[d] /\ v = {}
    BY <1>1, <1>4, <1>5 DEF Detached, WithoutAux
  <2>2. Live(t, d) \subseteq Live(s, d)
    BY <1>1, <1>3, <2>1, NoRouteIs DEF Live
  <2>3. Spared(s, t, d, v)
    BY <1>1, <1>3, <2>1, <2>2 DEF Spared
  <2> QED
    BY <1>1, <1>2, <1>3, <2>3, NoPlanOn DEF Touches
<1>6. CASE d \in ds
  <2>1. t.current[d] = NoRoute /\ t.aux[d] = NoAux
    BY <1>1, <1>6 DEF Detached, WithoutAux
  <2>2. Live(t, d) = {}
    BY <1>1, <1>3, <1>6, <2>1, NoRouteIs DEF Live
  <2>3. ASSUME d \in Owners(s.aux) \cup Assigned(s)
        PROVE  \E c \in v : Halts(s, d, c)
    <3>1. PICK c \in new : d \in c.to /\ Halts(s, d, c)
      BY <1>6, <2>3 DEF Freed
    <3>2. ForDrone(c, d)
      BY <3>1 DEF Halts, ForDrone, ForMissionReader, ForFlightReader
    <3> QED
      BY <3>1, <3>2
  <2>4. ASSUME Book(s)[d].id # 0
        PROVE  \E c \in v : Ends(c, d, s.activeMission, s.activeRevision)
    <3>1. d \in Assigned(s) /\ d \notin Owners(s.aux)
      BY <1>3, <2>4 DEF Assigned, Owners, Good, Exclusive
    <3>2. PICK c \in v : Halts(s, d, c)
      BY <2>3, <3>1
    <3>3. Ends(c, d, s.activeMission, s.activeRevision)
      BY <1>1, <3>1, <3>2, Counters DEF Halts, Ends, Version, ActiveVersion
    <3> QED
      BY <3>3
  <2>5. ASSUME s.aux[d].id # 0
        PROVE  \E c \in v : Ends(c, d, s.aux[d].mission, 1)
    <3>1. d \in Owners(s.aux)
      BY <2>5 DEF Owners
    <3>2. PICK c \in v : Halts(s, d, c)
      BY <2>3, <3>1
    <3>3. Ends(c, d, s.aux[d].mission, 1)
      BY <3>1, <3>2 DEF Halts, Ends, Version
    <3> QED
      BY <3>3
  <2>6. Stopped(s, t, d, v)
    BY <1>1, <1>3, <1>4, <2>1, <2>2, <2>4, <2>5, NoRouteIs DEF Stopped
  <2> QED
    BY <1>1, <1>2, <1>3, <2>6, NoPlanOn DEF Touches
<1> QED
  BY <1>5, <1>6

LEMMA SentHomeTouches ==
  ASSUME NEW s \in Memory, NEW t \in Memory, s.phase = "IDLE", NEW ds \in SUBSET Drones,
         NEW purpose \in HomeKinds, SentHome(s, t, ds, purpose), NEW d \in Drones
  PROVE  \E v \in SUBSET Broadcasts : Brings(s, t, d, v) /\ Touches(s, t, d, v)
<1> DEFINE c == Broadcast(purpose, s.nextCommand, s.nextMission, 1, ds, HomeOrders(t, ds))
<1>1. c \in Broadcasts /\ Adds(s, t, {c})
  BY SentHomeSends
<1>2. /\ c.kind = purpose /\ c.command = s.nextCommand /\ c.mission = s.nextMission
      /\ c.revision = 1 /\ c.orders[d] = HomeOrders(t, ds)[d]
  BY DEF Broadcast
<1> HIDE DEF c
<1>3. /\ t.current = Detached(s.current, ds) /\ t.planned = NoRoutes /\ t.phase = s.phase
      /\ SameActive(s, t) /\ t.nextMission = s.nextMission + 1 /\ s.nextRoute <= t.nextRoute
  BY DEF SentHome, SameActive
<1>4. {x \in {c} : ForDrone(x, d)} = {c}
  BY <1>2, KindsDiffer DEF ForDrone, ForMissionReader
<1>5. Brings(s, t, d, {c})
  <2>1. s.nextMission <= t.nextMission
    BY <1>3, Counters
  <2> QED
    BY <1>1, <1>3, <1>4, <2>1, AddressedGrows
<1>6. Book(s) = s.current /\ Book(t) = t.current
  BY <1>3 DEF Book
<1>7. CASE d \in ds
  <2>1. t.current[d].id = 0
    BY <1>3, <1>7, NoRouteIs DEF Detached
  <2>2. Live(t, d) = {}
    BY <1>3, <1>6, <2>1, NoRouteIs DEF Live
  <2>3. /\ t.aux[d].id # 0 /\ t.aux[d].command = s.nextCommand
        /\ t.aux[d].mission = s.nextMission /\ t.aux[d].id < t.nextRoute
    BY <1>7 DEF SentHome
  <2>4. c.orders[d] = [id |-> t.aux[d].id, legs |-> HomeLegs]
    BY <1>2, <1>7 DEF HomeOrders
  <2>5. SentOff(s, t, d, {c})
    BY <1>2, <1>3, <1>6, <2>1, <2>2, <2>3, <2>4 DEF SentOff
  <2> QED
    BY <1>1, <1>3, <1>5, <2>5, NoPlanOn DEF Touches
<1>8. CASE d \notin ds
  <2>1. t.current[d] = s.current[d] /\ t.aux[d] = s.aux[d]
    BY <1>3, <1>8 DEF Detached, SentHome
  <2>2. c.orders[d].id = 0
    BY <1>2, <1>8 DEF HomeOrders, NoOrder
  <2>3. Live(t, d) \subseteq Live(s, d)
    BY <1>3, <1>6, <2>1, NoRouteIs DEF Live
  <2>4. Spared(s, t, d, {c})
    BY <1>2, <1>3, <1>6, <2>1, <2>2, <2>3 DEF Spared
  <2> QED
    BY <1>1, <1>3, <1>5, <2>4, NoPlanOn DEF Touches
<1> QED
  BY <1>7, <1>8

LEMMA BlockTouches ==
  ASSUME NEW s, NEW t, Block(s, t), Counted(s), NEW d \in Drones
  PROVE  \E v \in SUBSET Broadcasts : Brings(s, t, d, v) /\ Touches(s, t, d, v)
<1>1. s \in Memory /\ t \in Memory /\ Good(s) /\ VersionsKnown(s) /\ HomesNumbered(s)
  BY DEF Block, Good, Counted
<1>2. CASE \E new : Unmoved(s, t, new)
  BY <1>1, <1>2, UnmovedTouches
<1>3. CASE s.phase = "IDLE" /\ Calculated(s, t)
  BY <1>1, <1>3, CalculatedTouches
<1>4. CASE CanDispatch(s) /\ Dispatched(s, t)
  BY <1>1, <1>4, DispatchedTouches
<1>5. CASE Aborted(s, t)
  <2>1. Owners(t.current) = {} /\ t.planned = NoRoutes /\ Owners(t.provisional) = {}
    BY <1>5, NoRouteIs DEF Aborted, Emptied, Owners
  <2> QED
    BY <1>1, <1>5, <2>1, CalledOffStops, NoPlanOn DEF Aborted, Emptied, Touches
<1>6. CASE s.phase = "WAITING" /\ Failed(s, t)
  <2>1. Owners(t.current) = {} /\ t.planned = NoRoutes /\ Owners(t.provisional) = {}
    BY <1>1, <1>6, FailedIs
  <2> QED
    BY <1>1, <1>6, <2>1, CalledOffStops, NoPlanOn DEF Failed, Touches
<1>7. CASE s.phase = "IDLE" /\ \E ds \in SUBSET Drones : \E new : Freed(s, t, ds, new)
  BY <1>1, <1>7, FreedTouches
<1>8. CASE s.phase = "IDLE" /\ \E ds \in SUBSET Drones, purpose \in HomeKinds :
                                 SentHome(s, t, ds, purpose)
  BY <1>1, <1>8, SentHomeTouches
<1> QED
  BY <1>2, <1>3, <1>4, <1>5, <1>6, <1>7, <1>8 DEF Block
-----------------------------------------------------------------------------
(* The agreement of the books with one drone: "e" is its memory, "under"   *)
(* the commands and "told" the feedback under way.                         *)

Dated(s, d, e, under, told) ==
  /\ s \in Memory /\ e \in E!Memory /\ under \subseteq Broadcasts /\ told \in Seq(Feedbacks)
  /\ Past(s, Stamp(e))
  /\ \A c \in under : ForDrone(c, d) /\ Past(s, Stamp(c)) /\ e.command < c.command
  /\ \A i \in DOMAIN told : Past(s, Stamp(told[i])) /\ told[i].drone = d

(* The end of a route is the last a drone tells of its command.            *)
Truthful(e, told) ==
  /\ \A i \in DOMAIN told :
       /\ told[i].command <= e.command
       /\ told[i].state \in Terminal /\ e.active => told[i].command < e.command
  /\ \A i, j \in DOMAIN told :
       i < j /\ told[i].state \in Terminal => told[i].command < told[j].command

(* A route under way can be flown, and a way home is of a mission of its   *)
(* own, later than all that the drone has heard of before.                 *)
Sensible(s, d, e, under) ==
  /\ \A c \in under : Carries(c, d) => c.orders[d].legs # 0 /\ c.orders[d].id < s.nextRoute
  /\ \A c \in under : c.kind \in HomeKinds =>
       /\ c.revision = 1 /\ c.mission # s.activeMission /\ e.mission < c.mission
       /\ \A b \in under : b.command < c.command => b.mission < c.mission

(* The coordinator has this route of this version on its books.            *)
Expected(s, d, k, m, r, id) ==
  /\ id # 0
  /\ \/ s.aux[d].id = id /\ s.aux[d].command = k /\ s.aux[d].mission = m /\ r = 1
     \/ /\ k = s.activeCommand /\ m = s.activeMission /\ r = s.activeRevision
        /\ Book(s)[d].id = id

(* It has, or a later command under way ends that route.                   *)
Followed(s, d, under, k, m, r, id) ==
  \/ Expected(s, d, k, m, r, id)
  \/ \E c \in under : k < c.command /\ Ends(c, d, m, r)

NoStray(s, d, e, under) ==
  /\ e.active /\ ~e.cancel =>
       Followed(s, d, under, e.command, e.mission, e.revision, e.route)
  /\ \A b \in under : Carries(b, d) =>
       Followed(s, d, under, b.command, b.mission, b.revision, b.orders[d].id)

(* A route the coordinator knows as finished is behind the drone.          *)
Over(s, d, e, told) ==
  Book(s)[d].id # 0 /\ Book(s)[d].finished =>
    /\ s.activeCommand <= e.command /\ (e.active => s.activeCommand < e.command)
    /\ \A i \in DOMAIN told : s.activeCommand < told[i].command

Complete(s, d) ==
  /\ Book(s)[d].id # 0 /\ Book(s)[d].finished =>
       Len(Book(s)[d].targets) <= Book(s)[d].completed
  /\ s.planned[d].id # 0 => ~s.planned[d].finished

TellsEnd(told, k, m, r, id) ==
  \E i \in DOMAIN told :
    /\ told[i].state \in Terminal /\ told[i].command = k /\ told[i].mission = m
    /\ told[i].revision = r /\ told[i].route = id

(* A drone with a route of the mission flies it from its EXECUTE on, or    *)
(* tells its end; nothing later is under way but other drones' ways home.  *)
Loyal(s, d, e, under, told) ==
  LET route == Book(s)[d]
  IN  route.id # 0 =>
        /\ \A c \in under :
             s.activeCommand < c.command => c.kind \in HomeKinds /\ c.orders[d].id = 0
        /\ \A c \in under : c.command = s.activeCommand =>
             /\ c.kind = "EXECUTE" /\ c.orders[d].id = route.id
             /\ c.mission = s.activeMission /\ c.revision = s.activeRevision
        /\ s.activeCommand <= e.command =>
             /\ e.command = s.activeCommand
             /\ e.mission = s.activeMission /\ e.revision = s.activeRevision
             /\ \/ e.active /\ e.route = route.id
                \/ route.finished
                \/ TellsEnd(told, s.activeCommand, s.activeMission, s.activeRevision, route.id)
        /\ s.phase = "IDLE" \/ route.accepted => s.activeCommand <= e.command

(* A drone on its way home has the command before it, flies it, or tells   *)
(* its end; nothing later that is under way concerns it.                   *)
HomeBound(s, d, e, under, told) ==
  LET a == s.aux[d]
  IN  a.id # 0 =>
        /\ \A c \in under : a.command < c.command =>
             c.kind \notin FlightKinds /\ ~Carries(c, d) /\ c.mission # a.mission
        /\ \/ \E c \in under : /\ c.kind \in HomeKinds /\ c.command = a.command
                               /\ c.mission = a.mission /\ c.orders[d].id = a.id
           \/ /\ e.active /\ e.command = a.command /\ e.mission = a.mission
              /\ e.revision = 1 /\ e.route = a.id
           \/ TellsEnd(told, a.command, a.mission, 1, a.id)

(* It stops a route of the active mission.                                 *)
Stopping(s, d, c) ==
  c.kind \in FlightKinds \/ (~Carries(c, d) /\ c.mission = s.activeMission)

(* A route that may be flown on with has not been canceled at the drone,   *)
(* and nothing under way will have canceled it before the drone is told.   *)
Steady(s, d, e, under) ==
  /\ e.active => e.route < s.nextRoute
  /\ e.active /\ e.purpose \in HomeKinds => e.mission # s.activeMission
  /\ e.active /\ e.mission = s.activeMission /\ e.route \in Live(s, d) =>
       ~e.cancel /\ \A c \in under : ~Stopping(s, d, c)
  /\ \A b, c \in under :
       /\ Carries(b, d) /\ b.mission = s.activeMission /\ b.orders[d].id \in Live(s, d)
       /\ Stopping(s, d, c)
       => c.command < b.command

Step(s, t, d, e, under, told, new) ==
  /\ t \in Memory /\ Counted(s) /\ Dated(s, d, e, under, told)
  /\ Brings(s, t, d, new) /\ Touches(s, t, d, new)

(* What is known of the old and the new commands under way.                *)
LEMMA StepFacts ==
  ASSUME NEW s, NEW t, NEW d \in Drones, NEW e, NEW under, NEW told, NEW new,
         Step(s, t, d, e, under, told, new)
  PROVE  /\ s \in Memory /\ t \in Memory /\ e \in E!Memory /\ under \cup new \subseteq Broadcasts
         /\ e.command < s.nextCommand /\ e.mission < s.nextMission
         /\ \A c \in under : c.command < s.nextCommand /\ c.mission < s.nextMission
         /\ \A c \in new : s.nextCommand <= c.command
         /\ \A b \in under, c \in new : b.command < c.command
         /\ \A c \in under \cup new :
              /\ c.command \in Nat /\ c.mission \in Nat /\ c.revision \in Nat
              /\ c.orders[d].id \in Nat /\ c.orders[d].legs \in Nat
         /\ s.nextCommand <= t.nextCommand /\ s.nextMission <= t.nextMission
         /\ s.nextRoute <= t.nextRoute
         /\ s.activeCommand < s.nextCommand /\ s.activeMission < s.nextMission
<1>1. /\ s \in Memory /\ t \in Memory /\ e \in E!Memory /\ under \cup new \subseteq Broadcasts
      /\ s.nextCommand <= t.nextCommand /\ s.nextMission <= t.nextMission
      /\ s.nextRoute <= t.nextRoute /\ \A c \in new : s.nextCommand <= c.command
      /\ s.activeCommand < s.nextCommand /\ s.activeMission < s.nextMission
  BY DEF Step, Dated, Brings, Counted, VersionsKnown
<1>2. e.command < s.nextCommand /\ e.mission < s.nextMission
  BY StampIs DEF Step, Dated, Past
<1>3. \A c \in under : c.command < s.nextCommand /\ c.mission < s.nextMission
  BY StampIs DEF Step, Dated, Past
<1>4. \A c \in under \cup new :
        /\ c.command \in Nat /\ c.mission \in Nat /\ c.revision \in Nat
        /\ c.orders[d].id \in Nat /\ c.orders[d].legs \in Nat
  BY <1>1, BroadcastFields
<1>5. \A b \in under, c \in new : b.command < c.command
  BY <1>1, <1>3, <1>4, Counters
<1> QED
  BY <1>1, <1>2, <1>3, <1>4, <1>5

LEMMA SensibleStep ==
  ASSUME NEW s, NEW t, NEW d \in Drones, NEW e, NEW under, NEW told, NEW new,
         Step(s, t, d, e, under, told, new), Sensible(s, d, e, under)
  PROVE  Sensible(t, d, e, under \cup new)
<1>1. Counted(s) /\ Touches(s, t, d, new)
  BY DEF Step
<1>2. /\ s \in Memory /\ t \in Memory /\ e \in E!Memory
      /\ e.mission < s.nextMission /\ s.nextMission <= t.nextMission
      /\ s.nextRoute <= t.nextRoute /\ s.activeMission < s.nextMission
  BY StepFacts
<1>3. \A c \in under : c.command < s.nextCommand /\ c.mission < s.nextMission
  BY StepFacts, Zenon
<1>4. \A b \in under, c \in new : b.command < c.command
  BY StepFacts, Zenon
<1>5. \A c \in under \cup new :
        /\ c.command \in Nat /\ c.mission \in Nat /\ c.orders[d].id \in Nat
  BY StepFacts, Zenon
<1>6. t.activeMission \in {s.activeMission, s.nextMission}
  BY <1>1 DEF Touches, Spared, Stopped, SentOff, Tasked, SameActive
<1>7. ASSUME NEW c \in new, Carries(c, d)
      PROVE  c.orders[d].legs # 0 /\ c.orders[d].id < t.nextRoute
  <2>1. CASE Spared(s, t, d, new)
    BY <1>7, <2>1 DEF Spared, Carries
  <2>2. CASE Stopped(s, t, d, new)
    BY <1>7, <2>2, KindsDiffer DEF Stopped, Carries
  <2>3. CASE SentOff(s, t, d, new)
    BY <1>7, <2>3 DEF SentOff, HomeLegs
  <2>4. CASE Tasked(s, t, d, new)
    <3>1. c.orders[d].id = s.planned[d].id /\ c.orders[d].legs = Len(s.planned[d].targets)
      BY <1>7, <2>4 DEF Tasked
    <3>2. d \in Owners(s.planned) /\ s.planned[d].id < s.nextRoute
          /\ s.planned[d].targets # <<>>
      BY <1>1, <1>7, <3>1 DEF Carries, Owners, Counted, RoutesNumbered, PlanFlyable
    <3>3. s.planned[d].targets \in Seq(Nat)
      BY <1>2, BooksField DEF Books, Route
    <3>4. Len(s.planned[d].targets) # 0
      BY <3>2, <3>3
    <3> QED
      BY <1>2, <3>1, <3>2, <3>4, Counters
  <2> QED
    BY <1>1, <2>1, <2>2, <2>3, <2>4 DEF Touches
<1>8. ASSUME NEW c \in new, c.kind \in HomeKinds
      PROVE  /\ c.revision = 1 /\ c.mission = s.nextMission /\ t.activeMission = s.activeMission
             /\ c.command = s.nextCommand /\ \A b \in new : b.command = c.command
  <2>1. "EXECUTE" \notin HomeKinds
    BY DEF HomeKinds
  <2> QED
    BY <1>1, <1>8, <2>1, KindsDiffer DEF Touches, Spared, Stopped, SentOff, Tasked, SameActive
<1>9. ASSUME NEW c \in under \cup new, Carries(c, d)
      PROVE  c.orders[d].legs # 0 /\ c.orders[d].id < t.nextRoute
  BY <1>2, <1>5, <1>7, <1>9, Counters DEF Sensible
<1>10. ASSUME NEW c \in under \cup new, c.kind \in HomeKinds
       PROVE  /\ c.revision = 1 /\ c.mission # t.activeMission /\ e.mission < c.mission
              /\ \A b \in under \cup new : b.command < c.command => b.mission < c.mission
  <2>1. CASE c \in new
    BY <1>2, <1>3, <1>8, <1>10, <2>1, MemoryFields, Counters
  <2>2. CASE c \in under
    <3>1. /\ c.revision = 1 /\ c.mission # s.activeMission /\ e.mission < c.mission
          /\ \A b \in under : b.command < c.command => b.mission < c.mission
      BY <1>10, <2>2 DEF Sensible
    <3>2. \A b \in new : ~(b.command < c.command)
      BY <1>4, <1>5, <2>2
    <3> QED
      BY <1>2, <1>3, <1>5, <1>6, <2>2, <3>1, <3>2, Counters
  <2> QED
    BY <2>1, <2>2
<1> QED
  BY <1>9, <1>10 DEF Sensible

LEMMA FollowedStep ==
  ASSUME NEW s, NEW t, NEW d \in Drones, NEW e, NEW under, NEW told, NEW new,
         Step(s, t, d, e, under, told, new),
         NEW k \in Nat, NEW m \in Nat, NEW r \in Nat, NEW id \in Nat,
         k < s.nextCommand, m < s.nextMission, Followed(s, d, under, k, m, r, id)
  PROVE  Followed(t, d, under \cup new, k, m, r, id)
<1>1. Touches(s, t, d, new) /\ s \in Memory
  BY StepFacts DEF Step
<1>2. \A c \in new : k < c.command
  <2>1. \A c \in new : s.nextCommand <= c.command
    BY StepFacts, Zenon
  <2>2. \A c \in under \cup new : c.command \in Nat
    BY StepFacts, Zenon
  <2> QED
    BY <1>1, <2>1, <2>2, Counters
<1>3. CASE \E c \in under : k < c.command /\ Ends(c, d, m, r)
  BY <1>3 DEF Followed
<1>4. ASSUME NEW c \in new, Ends(c, d, m, r)
      PROVE  Followed(t, d, under \cup new, k, m, r, id)
  BY <1>2, <1>4 DEF Followed
<1>5. CASE Expected(s, d, k, m, r, id)
  <2>1. CASE Spared(s, t, d, new)
    BY <1>5, <2>1 DEF Spared, SameActive, Expected, Followed
  <2>2. CASE Stopped(s, t, d, new)
    BY <1>4, <1>5, <2>2 DEF Stopped, Expected, Followed
  <2>3. CASE SentOff(s, t, d, new)
    <3>1. PICK c \in new : /\ c.kind \in HomeKinds /\ c.mission = s.nextMission
                           /\ c.orders[d].id = t.aux[d].id
      BY <2>3 DEF SentOff
    <3>2. Ends(c, d, m, r)
      BY <1>1, <2>3, <3>1, KindsDiffer, Counters DEF SentOff, Ends, Carries
    <3> QED
      BY <1>4, <3>2
  <2>4. CASE Tasked(s, t, d, new)
    <3>1. CASE s.aux[d].id = id /\ s.aux[d].command = k /\ s.aux[d].mission = m /\ r = 1
      BY <1>5, <2>4, <3>1 DEF Tasked, Expected, Followed
    <3>2. CASE m = s.activeMission /\ r = s.activeRevision /\ Book(s)[d].id = id
      <4>1. d \in Owners(s.current)
        BY <1>5, <2>4, <3>2 DEF Expected, Tasked, Book, Owners
      <4>2. t.activeMission = s.activeMission /\ t.activeRevision = s.activeRevision + 1
        BY <2>4, <4>1 DEF Tasked
      <4>3. PICK c \in new : c.kind = "EXECUTE" /\ Version(c) = ActiveVersion(t)
        BY <2>4 DEF Tasked
      <4>4. c.mission = m /\ c.revision = r + 1
        BY <3>2, <4>2, <4>3 DEF Version, ActiveVersion
      <4>5. Ends(c, d, m, r)
        BY <4>3, <4>4 DEF Ends, ExecuteKinds
      <4> QED
        BY <1>4, <4>5
    <3> QED
      BY <1>5, <3>1, <3>2 DEF Expected
  <2> QED
    BY <1>1, <2>1, <2>2, <2>3, <2>4 DEF Touches
<1> QED
  BY <1>3, <1>5 DEF Followed

LEMMA NoStrayStep ==
  ASSUME NEW s, NEW t, NEW d \in Drones, NEW e, NEW under, NEW told, NEW new,
         Step(s, t, d, e, under, told, new), NoStray(s, d, e, under)
  PROVE  NoStray(t, d, e, under \cup new)
<1>1. /\ s \in Memory /\ t \in Memory /\ e \in E!Memory /\ under \cup new \subseteq Broadcasts
      /\ e.command < s.nextCommand /\ e.mission < s.nextMission
  BY StepFacts, Zenon
<1>2. \A c \in under : c.command < s.nextCommand /\ c.mission < s.nextMission
  BY StepFacts
<1>3. \A c \in under \cup new :
        /\ c.command \in Nat /\ c.mission \in Nat /\ c.revision \in Nat
        /\ c.orders[d].id \in Nat
  BY StepFacts, Zenon
<1>4. ASSUME e.active, ~e.cancel
      PROVE  Followed(t, d, under \cup new, e.command, e.mission, e.revision, e.route)
  <2>1. Followed(s, d, under, e.command, e.mission, e.revision, e.route)
    BY <1>4 DEF NoStray
  <2>2. e.command \in Nat /\ e.mission \in Nat /\ e.revision \in Nat /\ e.route \in Nat
    BY <1>1, MemoryFields
  <2> QED
    BY <1>1, <2>1, <2>2, FollowedStep
<1>5. ASSUME NEW b \in under, Carries(b, d)
      PROVE  Followed(t, d, under \cup new, b.command, b.mission, b.revision, b.orders[d].id)
  <2>1. Followed(s, d, under, b.command, b.mission, b.revision, b.orders[d].id)
    BY <1>5 DEF NoStray
  <2> QED
    BY <1>2, <1>3, <2>1, FollowedStep
<1>6. ASSUME NEW b \in new, Carries(b, d)
      PROVE  Followed(t, d, under \cup new, b.command, b.mission, b.revision, b.orders[d].id)
  <2>1. Touches(s, t, d, new)
    BY DEF Step
  <2>2. ~Spared(s, t, d, new) /\ ~Stopped(s, t, d, new)
    BY <1>6, KindsDiffer DEF Spared, Stopped, Carries
  <2>3. CASE SentOff(s, t, d, new)
    BY <1>6, <2>3 DEF SentOff, Expected, Followed
  <2>4. CASE Tasked(s, t, d, new)
    BY <1>6, <2>4 DEF Tasked, Expected, Followed, Version, ActiveVersion, Carries, Book
  <2> QED
    BY <2>1, <2>2, <2>3, <2>4 DEF Touches
<1> QED
  BY <1>4, <1>5, <1>6 DEF NoStray

LEMMA OverStep ==
  ASSUME NEW s, NEW t, NEW d \in Drones, NEW e, NEW under, NEW told, NEW new,
         Step(s, t, d, e, under, told, new), Over(s, d, e, told), Complete(s, d)
  PROVE  Over(t, d, e, told) /\ Complete(t, d)
<1>1. Touches(s, t, d, new)
  BY DEF Step
<1>2. CASE Tasked(s, t, d, new)
  <2>1. /\ Book(t)[d] = s.planned[d] /\ t.planned[d].id = 0
        /\ s.planned[d].id # 0 => ~s.planned[d].finished
    BY <1>2, NoRouteIs DEF Tasked, Complete, Book
  <2> QED
    BY <2>1 DEF Over, Complete
<1>3. PlansOn(s, t, d) /\ Complete(s, d) => (t.planned[d].id # 0 => ~t.planned[d].finished)
  <2> SUFFICES ASSUME PlansOn(s, t, d), Complete(s, d), t.planned[d].id # 0,
                      t.planned[d].finished
               PROVE  FALSE
    OBVIOUS
  <2> DEFINE route == Book(s)[d]
  <2>1. route.id # 0 /\ route.finished /\ route.completed < Len(route.targets)
    BY DEF PlansOn, Complete
  <2>2. Len(route.targets) <= route.completed
    BY <2>1 DEF Complete
  <2>3. route.completed \in Nat /\ route.targets \in Seq(Nat)
    BY BooksField DEF Step, Dated, Book, Books, Route
  <2>4. Len(route.targets) \in Nat
    BY <2>3
  <2> HIDE DEF route
  <2> QED
    BY <2>1, <2>2, <2>3, <2>4
<1>4. CASE Spared(s, t, d, new)
  BY <1>1, <1>3, <1>4 DEF Touches, Spared, SameActive, Over, Complete
<1>5. CASE Stopped(s, t, d, new) \/ SentOff(s, t, d, new)
  BY <1>1, <1>3, <1>5 DEF Touches, Stopped, SentOff, Over, Complete
<1> QED
  BY <1>1, <1>2, <1>4, <1>5 DEF Touches

LEMMA LoyalStep ==
  ASSUME NEW s, NEW t, NEW d \in Drones, NEW e, NEW under, NEW told, NEW new,
         Step(s, t, d, e, under, told, new), Loyal(s, d, e, under, told)
  PROVE  Loyal(t, d, e, under \cup new, told)
<1>1. Touches(s, t, d, new) /\ PlanFlyable(s)
  BY DEF Step, Counted
<1>2. /\ s \in Memory /\ t \in Memory /\ e \in E!Memory /\ e.command < s.nextCommand
      /\ s.activeCommand < s.nextCommand
  BY StepFacts
<1>3. /\ \A c \in under : c.command < s.nextCommand
      /\ \A c \in new : s.nextCommand <= c.command
      /\ \A c \in under \cup new : c.command \in Nat
  BY StepFacts, Zenon
<1>4. s.nextCommand \in Nat /\ s.activeCommand \in Nat /\ e.command \in Nat
  BY <1>2, Counters, MemoryFields
<1>5. CASE Spared(s, t, d, new)
  <2>1. \A c \in new : /\ c.kind \in HomeKinds /\ c.orders[d].id = 0
                       /\ c.command # s.activeCommand
    BY <1>2, <1>3, <1>4, <1>5 DEF Spared
  <2> QED
    BY <1>5, <2>1 DEF Spared, SameActive, Loyal
<1>6. CASE Stopped(s, t, d, new) \/ SentOff(s, t, d, new)
  BY <1>6 DEF Stopped, SentOff, Loyal
<1>7. CASE Tasked(s, t, d, new)
  <2>1. PICK c \in new :
          /\ new = {c} /\ c.kind = "EXECUTE" /\ c.command = s.nextCommand
          /\ Version(c) = ActiveVersion(t) /\ c.orders[d].id = s.planned[d].id
    BY <1>7 DEF Tasked
  <2>2. c.mission = t.activeMission /\ c.revision = t.activeRevision
    BY <2>1 DEF Version, ActiveVersion
  <2>3. /\ t.phase = "WAITING" /\ t.activeCommand = s.nextCommand
        /\ Book(t)[d] = s.planned[d]
    BY <1>7 DEF Tasked, Book
  <2>4. \A b \in under \cup new : ~(t.activeCommand < b.command)
    BY <1>3, <1>4, <2>1, <2>3
  <2>5. ~(t.activeCommand <= e.command) /\ \A b \in under : b.command # t.activeCommand
    BY <1>2, <1>3, <1>4, <2>3
  <2>6. s.planned[d].id # 0 => ~s.planned[d].accepted
    BY <1>1 DEF PlanFlyable, Owners
  <2> QED
    BY <2>1, <2>2, <2>3, <2>4, <2>5, <2>6 DEF Loyal
<1> QED
  BY <1>1, <1>5, <1>6, <1>7 DEF Touches

LEMMA HomeBoundStep ==
  ASSUME NEW s, NEW t, NEW d \in Drones, NEW e, NEW under, NEW told, NEW new,
         Step(s, t, d, e, under, told, new), HomeBound(s, d, e, under, told)
  PROVE  HomeBound(t, d, e, under \cup new, told)
<1>1. Touches(s, t, d, new) /\ HomesNumbered(s)
  BY DEF Step, Counted
<1>2. /\ s \in Memory /\ t \in Memory /\ s.activeMission < s.nextMission
  BY StepFacts, Zenon
<1>3. /\ \A c \in under : c.command < s.nextCommand
      /\ \A c \in under \cup new : c.command \in Nat
  BY StepFacts, Zenon
<1>4. ASSUME t.aux[d] = s.aux[d],
             s.aux[d].id # 0 => \A c \in new :
               c.kind \notin FlightKinds /\ ~Carries(c, d) /\ c.mission # s.aux[d].mission
      PROVE  HomeBound(t, d, e, under \cup new, told)
  BY <1>4 DEF HomeBound
<1>5. s.aux[d].id # 0 => s.aux[d].mission # s.activeMission /\ s.aux[d].mission < s.nextMission
                         /\ s.aux[d].mission \in Nat /\ s.nextMission \in Nat
  BY <1>1, <1>2, Counters DEF HomesNumbered, Owners
<1>6. CASE Spared(s, t, d, new)
  BY <1>4, <1>5, <1>6, KindsDiffer DEF Spared, Carries
<1>7. CASE Stopped(s, t, d, new)
  <2>1. CASE t.aux[d] = s.aux[d]
    BY <1>4, <1>5, <1>7, <2>1, KindsDiffer DEF Stopped, Carries
  <2>2. CASE t.aux[d] = NoAux
    BY <2>2, NoRouteIs DEF HomeBound
  <2> QED
    BY <1>7, <2>1, <2>2 DEF Stopped
<1>8. CASE SentOff(s, t, d, new)
  <2>1. PICK c \in new :
          /\ new = {c} /\ c.kind \in HomeKinds /\ c.command = t.aux[d].command
          /\ c.mission = t.aux[d].mission /\ c.orders[d].id = t.aux[d].id
    BY <1>8 DEF SentOff
  <2>2. t.aux[d].command = s.nextCommand
    BY <1>8 DEF SentOff
  <2>3. \A b \in under \cup new : ~(t.aux[d].command < b.command)
    BY <1>2, <1>3, <2>1, <2>2, Counters
  <2> QED
    BY <2>1, <2>3 DEF HomeBound
<1>9. CASE Tasked(s, t, d, new)
  <2>1. PICK c \in new : /\ new = {c} /\ c.kind = "EXECUTE" /\ Version(c) = ActiveVersion(t)
                         /\ c.orders[d].id = s.planned[d].id
    BY <1>9 DEF Tasked
  <2>2. c.mission \in {s.activeMission, s.nextMission}
    BY <1>9, <2>1 DEF Tasked, Version, ActiveVersion
  <2>3. s.aux[d].id # 0 => s.planned[d].id = 0
    BY <1>9 DEF Tasked
  <2>4. "EXECUTE" \notin FlightKinds
    BY DEF FlightKinds
  <2>5. s.aux[d].id # 0 => \A b \in new :
          b.kind \notin FlightKinds /\ ~Carries(b, d) /\ b.mission # s.aux[d].mission
    BY <1>5, <2>1, <2>2, <2>3, <2>4 DEF Carries
  <2>6. t.aux[d] = s.aux[d]
    BY <1>9 DEF Tasked
  <2> QED
    BY <1>4, <2>5, <2>6
<1> QED
  BY <1>1, <1>6, <1>7, <1>8, <1>9 DEF Touches

LEMMA SteadyStep ==
  ASSUME NEW s, NEW t, NEW d \in Drones, NEW e, NEW under, NEW told, NEW new,
         Step(s, t, d, e, under, told, new), Sensible(s, d, e, under),
         Steady(s, d, e, under)
  PROVE  Steady(t, d, e, under \cup new)
<1>1. Touches(s, t, d, new)
  BY DEF Step
<1>2. /\ s \in Memory /\ t \in Memory /\ e \in E!Memory /\ e.mission < s.nextMission
      /\ s.nextRoute <= t.nextRoute /\ s.activeMission < s.nextMission
  BY StepFacts
<1>3. \A c \in under : c.mission < s.nextMission
  BY StepFacts, Zenon
<1>4. \A b \in under, c \in new : b.command < c.command
  BY StepFacts, Zenon
<1>5. \A c \in under \cup new : c.mission \in Nat /\ c.orders[d].id \in Nat
  BY StepFacts, Zenon
<1>6. /\ s.nextMission \in Nat /\ s.nextRoute \in Nat /\ t.nextRoute \in Nat
      /\ s.activeMission \in Nat /\ e.mission \in Nat /\ e.route \in Nat
  BY <1>2, Counters, MemoryFields
<1>7. t.activeMission \in {s.activeMission, s.nextMission}
  BY <1>1 DEF Touches, Spared, Stopped, SentOff, Tasked, SameActive
<1>8. /\ e.active => e.route < t.nextRoute
      /\ e.active /\ e.purpose \in HomeKinds => e.mission # t.activeMission
  BY <1>2, <1>6, <1>7 DEF Steady
(* What stays alive was, and nothing new stops it.                         *)
<1>9. ASSUME t.activeMission = s.activeMission, NEW id \in Live(t, d), id < s.nextRoute
      PROVE  id \in Live(s, d) /\ \A c \in new : ~Stopping(t, d, c)
  <2>1. CASE Spared(s, t, d, new)
    <3>0. id \in Nat
      BY <1>2, <1>9, Counters DEF Live
    <3>1. id \in Live(s, d)
      BY <1>6, <1>9, <2>1, <3>0 DEF Spared
    <3>2. \A c \in new : c.kind \in HomeKinds /\ c.mission # t.activeMission
      BY <1>2, <1>6, <1>9, <2>1 DEF Spared
    <3> QED
      BY <3>1, <3>2, KindsDiffer DEF Stopping
  <2>2. CASE Stopped(s, t, d, new) \/ SentOff(s, t, d, new)
    BY <1>9, <2>2 DEF Stopped, SentOff
  <2>3. CASE Tasked(s, t, d, new)
    <3>1. Book(t)[d] = s.planned[d] /\ t.planned[d].id = 0
      BY <2>3, NoRouteIs DEF Tasked, Book
    <3>2. id = s.planned[d].id /\ id # 0
      BY <1>9, <3>1 DEF Live
    <3>3. ~s.excluded[d]
      BY <2>3, <3>2 DEF Tasked
    <3>4. id \in Live(s, d)
      BY <3>2, <3>3 DEF Live
    <3>5. \A c \in new : c.kind = "EXECUTE" /\ c.orders[d].id = id
      BY <2>3, <3>2 DEF Tasked
    <3>6. "EXECUTE" \notin FlightKinds /\ "EXECUTE" \in ExecuteKinds
      BY DEF FlightKinds, ExecuteKinds
    <3> QED
      BY <3>2, <3>4, <3>5, <3>6 DEF Stopping, Carries
  <2> QED
    BY <1>1, <2>1, <2>2, <2>3 DEF Touches
<1>10. ASSUME NEW b \in new, Carries(b, d)
       PROVE  \A c \in new : ~Stopping(t, d, c)
  <2>1. ~Spared(s, t, d, new) /\ ~Stopped(s, t, d, new)
    BY <1>10, KindsDiffer DEF Spared, Stopped, Carries
  <2>2. new = {b}
    BY <1>1, <1>10, <2>1 DEF Touches, SentOff, Tasked
  <2> QED
    BY <1>10, <2>2, KindsDiffer DEF Stopping, Carries
<1>11. ASSUME e.active, e.mission = t.activeMission, e.route \in Live(t, d)
       PROVE  ~e.cancel /\ \A c \in under \cup new : ~Stopping(t, d, c)
  <2>1. t.activeMission = s.activeMission
    BY <1>2, <1>6, <1>7, <1>11
  <2>2. e.route < s.nextRoute
    BY <1>11 DEF Steady
  <2>3. e.route \in Live(s, d) /\ \A c \in new : ~Stopping(t, d, c)
    BY <1>9, <1>11, <2>1, <2>2
  <2>4. ~e.cancel /\ \A c \in under : ~Stopping(s, d, c)
    BY <1>11, <2>1, <2>3 DEF Steady
  <2> QED
    BY <2>1, <2>3, <2>4 DEF Stopping
<1>12. ASSUME NEW b \in under \cup new, NEW c \in under \cup new, Carries(b, d),
              b.mission = t.activeMission, b.orders[d].id \in Live(t, d), Stopping(t, d, c)
       PROVE  c.command < b.command
  <2>1. CASE b \in new
    BY <1>4, <1>10, <1>12, <2>1
  <2>2. CASE b \in under
    <3>1. t.activeMission = s.activeMission
      BY <1>3, <1>5, <1>6, <1>7, <1>12, <2>2
    <3>2. b.orders[d].id < s.nextRoute
      BY <1>12, <2>2 DEF Sensible
    <3>3. b.orders[d].id \in Live(s, d) /\ \A x \in new : ~Stopping(t, d, x)
      BY <1>9, <1>12, <3>1, <3>2
    <3>4. c \in under /\ Stopping(s, d, c)
      BY <1>12, <3>1, <3>3 DEF Stopping
    <3> QED
      BY <1>12, <2>2, <3>1, <3>3, <3>4 DEF Steady
  <2> QED
    BY <2>1, <2>2
<1> QED
  BY <1>8, <1>11, <1>12 DEF Steady

(* The coordinator and the drone agree.                                    *)
Agreed(s, d, e, under, told) ==
  /\ Dated(s, d, e, under, told) /\ Truthful(e, told) /\ Sensible(s, d, e, under)
  /\ NoStray(s, d, e, under) /\ Over(s, d, e, told) /\ Complete(s, d)
  /\ Loyal(s, d, e, under, told) /\ HomeBound(s, d, e, under, told)
  /\ Steady(s, d, e, under)

LEMMA DatedStep ==
  ASSUME NEW s \in Memory, NEW t \in Memory, Dates(s, t), Counted(s), NEW d \in Drones,
         NEW e, NEW under, NEW told, Dated(s, d, e, under, told),
         NEW new, Brings(s, t, d, new), Addressed(s, d) \subseteq under
  PROVE  Dated(t, d, e, under \cup new, told)
<1>1. /\ e \in E!Memory /\ under \subseteq Broadcasts /\ told \in Seq(Feedbacks)
      /\ new \subseteq Broadcasts /\ e.command < s.nextCommand
  BY StampIs DEF Dated, Brings, Past
<1>2. Past(t, Stamp(e))
  <2>1. Stamp(e) \in Stamps
    BY <1>1, MemoryFields DEF Stamp, Stamps
  <2> QED
    BY <2>1 DEF Dated, Dates
<1>3. ASSUME NEW c \in under
      PROVE  ForDrone(c, d) /\ Past(t, Stamp(c)) /\ e.command < c.command
  <2>1. Stamp(c) \in Stamps
    BY <1>1, StampType
  <2> QED
    BY <2>1 DEF Dated, Dates
<1>4. ASSUME NEW c \in new
      PROVE  ForDrone(c, d) /\ Past(t, Stamp(c)) /\ e.command < c.command
  <2>1. ForDrone(c, d) /\ s.nextCommand <= c.command /\ c \in Sent(t) /\ c \in Broadcasts
    BY <1>1 DEF Brings, Addressed
  <2>2. e.command < c.command
    BY <1>1, <2>1, Counters, MemoryFields, BroadcastFields
  <2>3. CASE c \in Sent(s)
    BY <1>3, <2>1, <2>3 DEF Addressed
  <2>4. CASE c \notin Sent(s)
    BY <2>1, <2>2, <2>4, KindsDiffer
       DEF Dates, ForDrone, ForMissionReader, ForFlightReader
  <2> QED
    BY <2>3, <2>4
<1>5. \A i \in DOMAIN told : Past(t, Stamp(told[i])) /\ told[i].drone = d
  BY <1>1, Unread DEF Dated
<1> QED
  BY <1>1, <1>2, <1>3, <1>4, <1>5 DEF Dated

LEMMA TouchAgrees ==
  ASSUME NEW s \in Memory, NEW t \in Memory, Dates(s, t), Counted(s), NEW d \in Drones,
         \E v \in SUBSET Broadcasts : Brings(s, t, d, v) /\ Touches(s, t, d, v),
         NEW e, NEW under, NEW told, Agreed(s, d, e, under \cup Addressed(s, d), told)
  PROVE  Agreed(t, d, e, under \cup Addressed(t, d), told)
<1> DEFINE old == under \cup Addressed(s, d)
<1>1. PICK v \in SUBSET Broadcasts : Brings(s, t, d, v) /\ Touches(s, t, d, v)
  OBVIOUS
<1>2. under \cup Addressed(t, d) = old \cup v
  BY <1>1 DEF Brings
<1>3. Addressed(s, d) \subseteq old /\ Agreed(s, d, e, old, told)
  OBVIOUS
<1> HIDE DEF old
<1>4. Step(s, t, d, e, old, told, v)
  BY <1>1, <1>3 DEF Step, Agreed
<1>5. Dated(t, d, e, old \cup v, told)
  BY <1>1, <1>3, DatedStep DEF Agreed
<1>6. /\ Sensible(s, d, e, old) /\ NoStray(s, d, e, old) /\ Over(s, d, e, told)
      /\ Complete(s, d) /\ Loyal(s, d, e, old, told) /\ HomeBound(s, d, e, old, told)
      /\ Steady(s, d, e, old) /\ Truthful(e, told)
  BY <1>3 DEF Agreed
<1>7. Sensible(t, d, e, old \cup v) /\ Steady(t, d, e, old \cup v)
  BY <1>4, <1>6, SensibleStep, SteadyStep
<1>8. NoStray(t, d, e, old \cup v) /\ Over(t, d, e, told) /\ Complete(t, d)
  BY <1>4, <1>6, NoStrayStep, OverStep
<1>9. Loyal(t, d, e, old \cup v, told) /\ HomeBound(t, d, e, old \cup v, told)
  BY <1>4, <1>6, LoyalStep, HomeBoundStep
<1> QED
  BY <1>2, <1>5, <1>6, <1>7, <1>8, <1>9 DEF Agreed

LEMMA BlockAgrees ==
  ASSUME NEW s, NEW t, Block(s, t), Counted(s), NEW d \in Drones,
         NEW e, NEW under, NEW told, Agreed(s, d, e, under \cup Addressed(s, d), told)
  PROVE  Agreed(t, d, e, under \cup Addressed(t, d), told)
<1>1. s \in Memory /\ t \in Memory /\ Dates(s, t)
  BY BlockDates DEF Block, Good
<1>2. \E v \in SUBSET Broadcasts : Brings(s, t, d, v) /\ Touches(s, t, d, v)
  BY BlockTouches
<1> QED
  BY <1>1, <1>2, TouchAgrees, Zenon

LEMMA SwitchedOnAgrees ==
  ASSUME NEW s, NEW t, Good(s), Counted(s), SwitchedOn(s, t), NEW d \in Drones,
         NEW e, NEW under, NEW told, Agreed(s, d, e, under \cup Addressed(s, d), told)
  PROVE  Agreed(t, d, e, under \cup Addressed(t, d), told)
<1>1. s \in Memory /\ t \in Memory /\ Unmoved(s, t, {})
  BY DEF SwitchedOn, Good
<1>2. Dates(s, t)
  BY <1>1, QuietDates DEF SwitchedOn, Unmoved, SameBooks
<1>3. \E v \in SUBSET Broadcasts : Brings(s, t, d, v) /\ Touches(s, t, d, v)
  BY <1>1, UnmovedTouches
<1> QED
  BY <1>1, <1>2, <1>3, TouchAgrees, Zenon

LEMMA ChainAgrees ==
  ASSUME NEW s, NEW t, Chain(s, t), Counted(s), NEW d \in Drones,
         NEW e, NEW under, NEW told, Agreed(s, d, e, under \cup Addressed(s, d), told)
  PROVE  Agreed(t, d, e, under \cup Addressed(t, d), told)
<1>1. \A x, y : Block(x, y) /\ Counted(x) /\ Agreed(x, d, e, under \cup Addressed(x, d), told) =>
        Counted(y) /\ Agreed(y, d, e, under \cup Addressed(y, d), told)
  BY BlockAgrees, BlockCounted, Zenon
<1>2. PICK m1, m2, m3, m4 \in Memory :
        Block(s, m1) /\ Block(m1, m2) /\ Block(m2, m3) /\ Block(m3, m4) /\ Block(m4, t)
  BY DEF Chain
<1> QED
  BY <1>1, <1>2, Zenon

-----------------------------------------------------------------------------
(* Feedback is heard: the first of what the drone told.                    *)

LEMMA FedIs ==
  ASSUME NEW r \in Route, NEW fb \in Feedbacks
  PROVE  LET f == Fed(r, fb)
         IN  /\ f.id = r.id /\ f.targets = r.targets
             /\ f.accepted = (r.accepted \/ fb.state \in Acceptances)
             /\ f.finished = (r.finished \/ fb.state = "SUCCEEDED")
             /\ fb.state = "SUCCEEDED" => f.completed = Len(r.targets)
<1> DEFINE n == IF fb.state = "SUCCEEDED" THEN Len(r.targets) ELSE fb.completed
           a == r.accepted \/ fb.state \in Acceptances
           x == r.finished \/ fb.state = "SUCCEEDED"
           f == [r EXCEPT !.completed = n, !.accepted = a, !.finished = x]
<1>1. Fed(r, fb) = f
  BY DEF Fed, Route
<1>2. fb.state = "SUCCEEDED" => n = Len(r.targets)
  OBVIOUS
<1> HIDE DEF n, a, x
<1>3. /\ f.id = r.id /\ f.targets = r.targets /\ f.accepted = a /\ f.finished = x
      /\ f.completed = n
  BY DEF Route
<1> HIDE DEF f
<1> QED
  BY <1>1, <1>2, <1>3 DEF a, x

LEMMA FirstTold ==
  ASSUME NEW told \in Seq(Feedbacks), told # <<>>
  PROVE  /\ Tail(told) \in Seq(Feedbacks) /\ 1 \in DOMAIN told /\ Head(told) = told[1]
         /\ Head(told) \in Feedbacks
         /\ \A i \in DOMAIN Tail(told) :
              i + 1 \in DOMAIN told /\ 1 < i + 1 /\ Tail(told)[i] = told[i + 1] /\ i \in Nat
         /\ \A i \in DOMAIN told :
              i = 1 \/ (i - 1 \in DOMAIN Tail(told) /\ Tail(told)[i - 1] = told[i])
<1>1. /\ Len(told) \in Nat /\ DOMAIN told = 1..Len(told) /\ Len(told) > 0
  BY LenProperties, EmptySeq
<1>2. /\ Tail(told) \in Seq(Feedbacks) /\ Len(Tail(told)) = Len(told) - 1
      /\ \A i \in 1..Len(Tail(told)) : Tail(told)[i] = told[i + 1]
      /\ Head(told) = told[1] /\ Head(told) \in Feedbacks
  BY HeadTailProperties
<1>3. DOMAIN Tail(told) = 1..(Len(told) - 1)
  BY <1>1, <1>2, LenProperties
<1>4. \A i \in DOMAIN told : i = 1 \/ (i - 1 \in 1..(Len(told) - 1) /\ (i - 1) + 1 = i)
  BY <1>1
<1> QED
  BY <1>1, <1>2, <1>3, <1>4

(* It ends the route home, or a route of the mission.                      *)
EndsHome(s, fb) == MatchesAux(s, fb) /\ fb.state \in Terminal

Matches(s, fb) ==
  /\ fb.mission = s.activeMission /\ fb.revision = s.activeRevision
  /\ fb.route # 0 /\ Book(s)[fb.drone].id = fb.route

EndsRoute(s, fb) ==
  Matches(s, fb) /\ fb.command = s.activeCommand /\ fb.state \in Terminal

(* What agrees whatever was heard.                                         *)
LEMMA Heard ==
  ASSUME NEW s, NEW d \in Drones, NEW e, NEW under, NEW told,
         Agreed(s, d, e, under, told), told # <<>>, Head(told).drone = d
  PROVE  LET rest == Tail(told)
         IN  /\ Dated(s, d, e, under, rest) /\ Truthful(e, rest) /\ Over(s, d, e, rest)
             /\ ~EndsHome(s, Head(told)) => HomeBound(s, d, e, under, rest)
             /\ ~EndsRoute(s, Head(told)) => Loyal(s, d, e, under, rest)
<1> DEFINE rest == Tail(told)
           fb == Head(told)
<1>1. told \in Seq(Feedbacks)
  BY DEF Agreed, Dated
<1>2. /\ rest \in Seq(Feedbacks) /\ fb = told[1] /\ fb \in Feedbacks
      /\ \A i \in DOMAIN rest :
           i + 1 \in DOMAIN told /\ rest[i] = told[i + 1] /\ i \in Nat
      /\ \A i \in DOMAIN told :
              i = 1 \/ (i - 1 \in DOMAIN rest /\ rest[i - 1] = told[i])
  BY <1>1, FirstTold
<1> HIDE DEF rest, fb
<1>3. Dated(s, d, e, under, rest) /\ Over(s, d, e, rest)
  BY <1>2 DEF Agreed, Dated, Over
<1>4. Truthful(e, rest)
  <2>1. \A i, j \in DOMAIN rest : i < j => i + 1 < j + 1
    BY <1>2
  <2> QED
    BY <1>2, <2>1 DEF Agreed, Truthful
<1>5. ASSUME NEW k, NEW m, NEW r, NEW id, TellsEnd(told, k, m, r, id)
      PROVE  \/ TellsEnd(rest, k, m, r, id)
             \/ /\ fb.state \in Terminal /\ fb.command = k /\ fb.mission = m
                /\ fb.revision = r /\ fb.route = id
  <2>1. PICK i \in DOMAIN told :
          /\ told[i].state \in Terminal /\ told[i].command = k /\ told[i].mission = m
          /\ told[i].revision = r /\ told[i].route = id
    BY <1>5 DEF TellsEnd
  <2>2. CASE i = 1
    BY <1>2, <2>1, <2>2
  <2>3. CASE i # 1
    BY <1>2, <2>1, <2>3 DEF TellsEnd
  <2> QED
    BY <2>2, <2>3
<1>6. ASSUME ~EndsHome(s, fb)
      PROVE  HomeBound(s, d, e, under, rest)
  <2>1. fb.drone = d /\ HomeBound(s, d, e, under, told)
    BY DEF Agreed, fb
  <2>2. s.aux[d].id # 0 /\ TellsEnd(told, s.aux[d].command, s.aux[d].mission, 1, s.aux[d].id)
        => TellsEnd(rest, s.aux[d].command, s.aux[d].mission, 1, s.aux[d].id)
    BY <1>5, <1>6, <2>1 DEF EndsHome, MatchesAux
  <2> QED
    BY <2>1, <2>2 DEF HomeBound
<1>7. ASSUME ~EndsRoute(s, fb)
      PROVE  Loyal(s, d, e, under, rest)
  <2>1. fb.drone = d /\ Loyal(s, d, e, under, told)
    BY DEF Agreed, fb
  <2> DEFINE id == Book(s)[d].id
  <2>2. id # 0 /\ TellsEnd(told, s.activeCommand, s.activeMission, s.activeRevision, id)
        => TellsEnd(rest, s.activeCommand, s.activeMission, s.activeRevision, id)
    BY <1>5, <1>7, <2>1 DEF EndsRoute, Matches
  <2> QED
    BY <2>1, <2>2 DEF Loyal
<1> QED
  BY <1>3, <1>4, <1>6, <1>7 DEF rest, fb

(* A report about the route the coordinator has for the drone is of the    *)
(* command that the drone follows, and the first that tells of its end.    *)
LEMMA MatchIs ==
  ASSUME NEW s, NEW d \in Drones, NEW e, NEW under, NEW told,
         Agreed(s, d, e, under, told), told # <<>>, Head(told).drone = d,
         Matches(s, Head(told))
  PROVE  LET fb == Head(told)
         IN  /\ fb.command = s.activeCommand /\ e.command = s.activeCommand
             /\ fb.state \in Terminal => ~e.active
             /\ Book(s)[d].id # 0 /\ ~Book(s)[d].finished
             /\ \A i \in DOMAIN Tail(told) :
                  fb.state \in Terminal => s.activeCommand < Tail(told)[i].command
<1> DEFINE fb == Head(told)
<1>1. /\ told \in Seq(Feedbacks) /\ s \in Memory /\ e \in E!Memory
  BY DEF Agreed, Dated
<1>2. /\ 1 \in DOMAIN told /\ fb = told[1] /\ fb \in Feedbacks
      /\ \A i \in DOMAIN Tail(told) :
           i + 1 \in DOMAIN told /\ 1 < i + 1 /\ Tail(told)[i] = told[i + 1]
  BY <1>1, FirstTold
<1> HIDE DEF fb
<1>3. Past(s, Stamp(fb)) /\ fb.command <= e.command
  BY <1>2 DEF Agreed, Dated, Truthful
<1>4. /\ fb.mission = s.activeMission /\ fb.revision = s.activeRevision
      /\ Book(s)[d].id # 0
  BY DEF Matches, fb
<1>5. s.activeCommand \in Nat /\ fb.command \in Nat /\ e.command \in Nat
  BY <1>1, <1>2, Counters, MemoryFields DEF Feedbacks
<1>6. s.activeCommand <= fb.command
  BY <1>3, <1>4, StampIs DEF Past, Version, ActiveVersion
<1>7. s.activeCommand <= e.command
  BY <1>3, <1>5, <1>6
<1>8. e.command = s.activeCommand
  BY <1>4, <1>7 DEF Agreed, Loyal
<1>9. fb.command = s.activeCommand
  BY <1>3, <1>5, <1>6, <1>8
<1>10. ~Book(s)[d].finished
  <2>1. ~(s.activeCommand < fb.command)
    BY <1>5, <1>9
  <2> QED
    BY <1>2, <1>4, <2>1 DEF Agreed, Over
<1>11. ASSUME fb.state \in Terminal
       PROVE  ~e.active /\ \A i \in DOMAIN Tail(told) : s.activeCommand < Tail(told)[i].command
  <2>1. ~(fb.command < e.command)
    BY <1>5, <1>8, <1>9
  <2>2. ~e.active
    BY <1>2, <1>11, <2>1 DEF Agreed, Truthful
  <2>3. \A i \in DOMAIN Tail(told) : fb.command < Tail(told)[i].command
    BY <1>2, <1>11 DEF Agreed, Truthful
  <2> QED
    BY <1>9, <2>2, <2>3
<1> QED
  BY <1>4, <1>8, <1>9, <1>10, <1>11 DEF fb

(* What of the node's memory the agreement is about, but for its books.    *)
SameGround(s, t) ==
  /\ SameVersions(s, t) /\ t.aux = s.aux /\ t.excluded = s.excluded
  /\ t.out = s.out /\ t.nextCommand = s.nextCommand

LEMMA GroundIs ==
  ASSUME NEW s, NEW t, SameGround(s, t)
  PROVE  /\ SameActive(s, t) /\ t.nextMission = s.nextMission /\ t.nextRoute = s.nextRoute
         /\ \A d : Addressed(t, d) = Addressed(s, d)
BY DEF SameGround, SameVersions, SameActive, Addressed, Sent

LEMMA Redated ==
  ASSUME NEW s \in Memory, NEW t \in Memory, Dates(s, t), NEW d, NEW e, NEW under, NEW told,
         Dated(s, d, e, under, told)
  PROVE  Dated(t, d, e, under, told)
<1>1. e \in E!Memory /\ under \subseteq Broadcasts /\ told \in Seq(Feedbacks)
  BY DEF Dated
<1>2. Past(t, Stamp(e))
  BY <1>1, MemoryFields DEF Stamp, Stamps, Dated, Dates
<1>3. ASSUME NEW c \in under
      PROVE  Past(t, Stamp(c))
  BY <1>1, <1>3, StampType DEF Dated, Dates
<1>4. \A i \in DOMAIN told : Past(t, Stamp(told[i])) /\ told[i].drone = d
  BY <1>1, Unread DEF Dated
<1> QED
  BY <1>1, <1>2, <1>3, <1>4 DEF Dated

(* A report of progress is noted for the drone that tells it.              *)
LEMMA NotedAgrees ==
  ASSUME NEW s, NEW t \in Memory, Dates(s, t), SameGround(s, t), t.phase = s.phase,
         t.planned = s.planned, NEW d \in Drones, NEW e, NEW under, NEW told,
         Agreed(s, d, e, under, told), told # <<>>, Head(told).drone = d,
         Matches(s, Head(told)), Head(told).state \notin Failures, ~EndsHome(s, Head(told)),
         Book(t)[d] = Fed(Book(s)[d], Head(told))
  PROVE  Agreed(t, d, e, under, Tail(told))
<1> DEFINE rest == Tail(told)
           fb == Head(told)
           was == Book(s)[d]
           is == Book(t)[d]
<1>1. /\ s \in Memory /\ told \in Seq(Feedbacks) /\ e \in E!Memory
      /\ under \subseteq Broadcasts
  BY DEF Agreed, Dated
<1>2. /\ fb.command = s.activeCommand /\ e.command = s.activeCommand
      /\ fb.state \in Terminal => ~e.active
      /\ was.id # 0 /\ ~was.finished
      /\ fb.state \in Terminal =>
           \A i \in DOMAIN rest : s.activeCommand < rest[i].command
  BY MatchIs
<1>3. /\ Dated(s, d, e, under, rest) /\ Truthful(e, rest)
      /\ HomeBound(s, d, e, under, rest)
  BY Heard
<1>4. fb \in Feedbacks /\ was \in Route
  BY <1>1, FirstTold, BooksField DEF Books, Book
<1>5. /\ is.id = was.id /\ is.targets = was.targets
      /\ is.accepted = (was.accepted \/ fb.state \in Acceptances)
      /\ is.finished = (was.finished \/ fb.state = "SUCCEEDED")
      /\ fb.state = "SUCCEEDED" => is.completed = Len(was.targets)
  BY <1>4, FedIs
<1>6. /\ SameActive(s, t) /\ t.nextMission = s.nextMission /\ t.nextRoute = s.nextRoute
      /\ t.aux = s.aux /\ t.excluded = s.excluded
  BY GroundIs DEF SameGround
<1>7. fb.state \in Terminal <=> fb.state = "SUCCEEDED"
  BY DEF Terminal, fb
<1>8. s.activeCommand \in Nat /\ s.activeCommand <= e.command
  BY <1>1, <1>2, Counters
<1>9. was.targets \in Seq(Nat) /\ Len(was.targets) \in Nat
  BY <1>4 DEF Route
<1>10. \A k, m, r, id : TellsEnd(told, k, m, r, id) =>
         TellsEnd(rest, k, m, r, id) \/ fb.state \in Terminal
  <2> SUFFICES ASSUME NEW k, NEW m, NEW r, NEW id, TellsEnd(told, k, m, r, id),
                      fb.state \notin Terminal
               PROVE  TellsEnd(rest, k, m, r, id)
    OBVIOUS
  <2>1. PICK i \in DOMAIN told :
          /\ told[i].state \in Terminal /\ told[i].command = k /\ told[i].mission = m
          /\ told[i].revision = r /\ told[i].route = id
    BY DEF TellsEnd
  <2>2. i # 1 /\ i - 1 \in DOMAIN rest /\ rest[i - 1] = told[i]
    BY <1>1, <2>1, FirstTold
  <2> QED
    BY <2>1, <2>2 DEF TellsEnd
<1> HIDE DEF rest, fb
<1>11. /\ Sensible(s, d, e, under) /\ NoStray(s, d, e, under) /\ Complete(s, d)
       /\ Loyal(s, d, e, under, told) /\ Steady(s, d, e, under)
  BY DEF Agreed
<1>12. Dated(t, d, e, under, rest)
  BY <1>1, <1>3, Redated
<1>13. Sensible(t, d, e, under)
  BY <1>6, <1>11 DEF Sensible, SameActive
<1>14. NoStray(t, d, e, under)
  BY <1>5, <1>6, <1>11 DEF NoStray, Followed, Expected, SameActive
<1>15. Over(t, d, e, rest) /\ Complete(t, d)
  <2>1. is.finished => fb.state = "SUCCEEDED"
    BY <1>2, <1>5, Zenon
  <2>2. is.finished =>
          /\ s.activeCommand <= e.command /\ ~e.active
          /\ \A i \in DOMAIN rest : s.activeCommand < rest[i].command
    BY <1>2, <1>7, <1>8, <2>1
  <2>3. is.finished => Len(is.targets) <= is.completed
    BY <1>5, <1>9, <2>1
  <2> QED
    BY <1>6, <1>11, <2>2, <2>3 DEF Over, Complete, SameActive
<1>16. Loyal(t, d, e, under, rest)
  <2>1. \/ e.active /\ e.route = is.id
        \/ is.finished
        \/ TellsEnd(rest, t.activeCommand, t.activeMission, t.activeRevision, is.id)
    BY <1>2, <1>5, <1>6, <1>7, <1>8, <1>10, <1>11, Zenon DEF Loyal, SameActive
  <2> QED
    BY <1>2, <1>5, <1>6, <1>8, <1>11, <2>1 DEF Loyal, SameActive
<1>17. HomeBound(t, d, e, under, rest)
  BY <1>3, <1>6 DEF HomeBound
<1>18. Steady(t, d, e, under)
  <2>1. Live(t, d) = Live(s, d)
    BY <1>5, <1>6 DEF Live
  <2> QED
    BY <1>6, <1>11, <2>1 DEF Steady, Stopping, SameActive
<1>19. Truthful(e, rest)
  BY <1>3
<1> QED
  BY <1>12, <1>13, <1>14, <1>15, <1>16, <1>17, <1>18, <1>19 DEF Agreed, rest

(* The mission goes on as committed, or is over.                           *)
LEMMA SettledAgrees ==
  ASSUME NEW s, NEW t \in Memory, Dates(s, t), SameGround(s, t), t.planned = NoRoutes,
         NEW d \in Drones, NEW e, NEW under, NEW told, Agreed(s, d, e, under, told),
         \/ /\ Book(t)[d] = Book(s)[d]
            /\ Book(s)[d].id # 0 => s.phase = "IDLE" \/ Book(s)[d].accepted
         \/ Book(t)[d].id = 0 /\ (Book(s)[d].id # 0 => Book(s)[d].finished)
  PROVE  Agreed(t, d, e, under, told)
<1>1. /\ s \in Memory /\ e \in E!Memory /\ under \subseteq Broadcasts
      /\ \A c \in under : e.command < c.command
  BY DEF Agreed, Dated
<1>2. /\ SameActive(s, t) /\ t.nextMission = s.nextMission /\ t.nextRoute = s.nextRoute
      /\ t.aux = s.aux /\ t.excluded = s.excluded /\ t.planned[d].id = 0
  BY GroundIs, NoRouteIs DEF SameGround
<1>3. /\ Sensible(s, d, e, under) /\ NoStray(s, d, e, under) /\ Complete(s, d)
      /\ Loyal(s, d, e, under, told) /\ Steady(s, d, e, under) /\ Over(s, d, e, told)
      /\ HomeBound(s, d, e, under, told) /\ Truthful(e, told) /\ Dated(s, d, e, under, told)
  BY DEF Agreed
<1>4. Dated(t, d, e, under, told)
  BY <1>1, <1>3, Redated
<1>5. Sensible(t, d, e, under) /\ HomeBound(t, d, e, under, told)
  BY <1>2, <1>3 DEF Sensible, HomeBound, SameActive
<1>6. Steady(t, d, e, under)
  <2>1. Live(t, d) \subseteq Live(s, d)
    BY <1>2 DEF Live
  <2> QED
    BY <1>2, <1>3, <2>1 DEF Steady, Stopping, SameActive
<1>7. CASE /\ Book(t)[d] = Book(s)[d]
           /\ Book(s)[d].id # 0 => s.phase = "IDLE" \/ Book(s)[d].accepted
  <2>1. NoStray(t, d, e, under)
    BY <1>2, <1>3, <1>7 DEF NoStray, Followed, Expected, SameActive
  <2>2. Over(t, d, e, told) /\ Complete(t, d)
    BY <1>2, <1>3, <1>7 DEF Over, Complete, SameActive
  <2>3. Loyal(t, d, e, under, told)
    BY <1>2, <1>3, <1>7 DEF Loyal, SameActive
  <2> QED
    BY <1>3, <1>4, <1>5, <1>6, <2>1, <2>2, <2>3 DEF Agreed
<1>8. CASE Book(t)[d].id = 0 /\ (Book(s)[d].id # 0 => Book(s)[d].finished)
  <2>1. Over(t, d, e, told) /\ Complete(t, d) /\ Loyal(t, d, e, under, told)
    BY <1>2, <1>8 DEF Over, Complete, Loyal
  <2>2. Book(s)[d].id # 0 => s.activeCommand <= e.command /\ (e.active => s.activeCommand < e.command)
    BY <1>3, <1>8 DEF Over
  <2>3. /\ s.activeCommand \in Nat /\ e.command \in Nat
        /\ \A c \in under : c.command \in Nat
    BY <1>1, Counters, MemoryFields, BroadcastFields
  <2>4. ASSUME NEW k, NEW m, NEW r, NEW id, Followed(s, d, under, k, m, r, id),
               Book(s)[d].id # 0 => k # s.activeCommand
        PROVE  Followed(t, d, under, k, m, r, id)
    BY <1>2, <2>4 DEF Followed, Expected
  <2>5. e.active /\ Book(s)[d].id # 0 => e.command # s.activeCommand
    BY <2>2, <2>3
  <2>6. \A c \in under : Book(s)[d].id # 0 => c.command # s.activeCommand
    BY <1>1, <2>2, <2>3
  <2>7. NoStray(t, d, e, under)
    BY <1>3, <2>4, <2>5, <2>6 DEF NoStray
  <2> QED
    BY <1>3, <1>4, <1>5, <1>6, <2>1, <2>7 DEF Agreed
<1> QED
  BY <1>7, <1>8

(* The drone tells that its way home is over.                              *)
LEMMA HomedAgrees ==
  ASSUME NEW s, NEW t \in Memory, Dates(s, t), HomesNumbered(s), NEW d \in Drones,
         NEW e, NEW under, NEW told, Agreed(s, d, e, under, told), told # <<>>,
         Head(told).drone = d, EndsHome(s, Head(told)), Homed(s, Head(told), t)
  PROVE  Agreed(t, d, e, under, Tail(told))
<1> DEFINE rest == Tail(told)
           fb == Head(told)
<1>1. /\ s \in Memory /\ e \in E!Memory /\ under \subseteq Broadcasts
      /\ \A c \in under : e.command < c.command
      /\ told \in Seq(Feedbacks)
  BY DEF Agreed, Dated
<1>2. /\ t.activeCommand = s.activeCommand /\ t.activeMission = s.activeMission
      /\ t.activeRevision = s.activeRevision /\ t.nextRoute = s.nextRoute
      /\ t.excluded = s.excluded /\ t.planned = s.planned
      /\ t.phase = s.phase /\ Book(t) = Book(s)
      /\ t.aux[d] = NoAux
  BY DEF Homed, Silent, SameVersions, SameSafety, Book, WithoutAux, fb
<1>3. /\ s.aux[d].id # 0 /\ fb.command = s.aux[d].command /\ fb.mission = s.aux[d].mission
      /\ fb.state \in Terminal /\ fb \in Feedbacks
      /\ fb.command <= e.command /\ (e.active => fb.command < e.command)
  <2>1. 1 \in DOMAIN told /\ fb = told[1] /\ fb \in Feedbacks
    BY <1>1, FirstTold
  <2>2. MatchesAux(s, fb) /\ fb.state \in Terminal /\ fb.drone = d
    BY DEF EndsHome, fb
  <2> HIDE DEF fb
  <2> QED
    BY <2>1, <2>2 DEF MatchesAux, Agreed, Truthful
<1>4. fb.mission # s.activeMission
  BY <1>3 DEF HomesNumbered, Owners
<1>5. ~EndsRoute(s, fb)
  BY <1>4 DEF EndsRoute, Matches
<1>6. /\ Dated(s, d, e, under, rest) /\ Truthful(e, rest) /\ Over(s, d, e, rest)
      /\ Loyal(s, d, e, under, rest)
  BY <1>5, Heard
<1>7. /\ Sensible(s, d, e, under) /\ NoStray(s, d, e, under) /\ Complete(s, d)
      /\ Steady(s, d, e, under)
  BY DEF Agreed
<1>8. /\ fb.command \in Nat /\ e.command \in Nat
      /\ \A c \in under : c.command \in Nat
  BY <1>1, <1>3, MemoryFields, BroadcastFields, Zenon DEF Feedbacks
<1> HIDE DEF rest, fb
<1>9. Dated(t, d, e, under, rest)
  BY <1>1, <1>6, Redated
<1>10. Sensible(t, d, e, under) /\ Over(t, d, e, rest) /\ Complete(t, d)
  BY <1>2, <1>6, <1>7 DEF Sensible, Over, Complete
<1>11. Loyal(t, d, e, under, rest)
  BY <1>2, <1>6 DEF Loyal
<1>12. Steady(t, d, e, under)
  <2>1. Live(t, d) = Live(s, d)
    BY <1>2 DEF Live
  <2> QED
    BY <1>2, <1>7, <2>1 DEF Steady, Stopping
<1>13. HomeBound(t, d, e, under, rest)
  BY <1>2, NoRouteIs DEF HomeBound
<1>14. NoStray(t, d, e, under)
  <2>1. ASSUME NEW k, NEW m, NEW r, NEW id, Followed(s, d, under, k, m, r, id),
               k # s.aux[d].command
        PROVE  Followed(t, d, under, k, m, r, id)
    BY <1>2, <2>1 DEF Followed, Expected
  <2>2. e.active => e.command # s.aux[d].command
    BY <1>3, <1>8
  <2>3. \A c \in under : c.command # s.aux[d].command
    BY <1>1, <1>3, <1>8
  <2> QED
    BY <1>7, <2>1, <2>2, <2>3 DEF NoStray
<1> QED
  BY <1>6, <1>9, <1>10, <1>11, <1>12, <1>13, <1>14 DEF Agreed, rest

-----------------------------------------------------------------------------
(* What a report can do: end a way home, be noted on a route and settle    *)
(* the dispatch or the mission, lose it, or nothing.                       *)

NotedOn(s, fb, f) ==
  /\ SameGround(s, f) /\ f.phase = s.phase /\ f.planned = s.planned
  /\ Book(f) = [Book(s) EXCEPT ![fb.drone] = Fed(Book(s)[fb.drone], fb)]
  /\ Matches(s, fb) /\ ~EndsHome(s, fb)

Lost(s, t) ==
  /\ SameVersions(s, t) /\ t.aux = s.aux /\ t.planned = NoRoutes
  /\ Owners(t.current) = {} /\ Owners(t.provisional) = {} /\ CalledOff(s, t)

Settles(f, t) ==
  /\ SameGround(f, t) /\ t.planned = NoRoutes /\ t.phase \in {f.phase, "IDLE"}
  /\ \A d \in Drones :
       \/ /\ Book(t)[d] = Book(f)[d]
          /\ Book(f)[d].id # 0 => f.phase = "IDLE" \/ Book(f)[d].accepted
       \/ Book(t)[d].id = 0 /\ (Book(f)[d].id # 0 => Book(f)[d].finished)

LEMMA Unheard ==
  ASSUME NEW s \in Memory, NEW fb \in Feedbacks, NEW t, t = FeedbackResult(s, fb),
         ~ReportsHome(s, fb, t), ~ReportsDispatch(s, fb, t), ~ReportsMission(s, fb, t)
  PROVE  t = s /\ ~EndsHome(s, fb) /\ ~EndsRoute(s, fb)
<1>1. t = s
  BY FeedbackEffect
<1>2. ~(MatchesAux(s, fb) /\ fb.state \in Terminal)
  <2> SUFFICES ASSUME MatchesAux(s, fb), fb.state \in Terminal
               PROVE  FALSE
    OBVIOUS
  <2>1. t = AuxFeedback(s, fb)
    BY DEF FeedbackResult
  <2>2. Homed(s, fb, AuxFeedback(s, fb))
    BY AuxFeedbackEffect
  <2> QED
    BY <2>1, <2>2 DEF ReportsHome
<1>3. ~EndsRoute(s, fb)
  <2> SUFFICES ASSUME Matches(s, fb), CurrentBroadcast(s, fb), fb.state \in Terminal
               PROVE  FALSE
    BY DEF EndsRoute, Matches, CurrentBroadcast
  <2>1. CASE s.phase = "WAITING"
    <3>1. s.provisional[fb.drone].id = fb.route /\ fb.route # 0
      BY <2>1 DEF Matches, Book
    <3>2. t = ProvisionalFeedback(s, fb)
      BY <1>2, <2>1, <3>1 DEF FeedbackResult
    <3>3. ProvisionalNews(s, fb, ProvisionalFeedback(s, fb))
      BY <3>1, ProvisionalFeedbackEffect
    <3> QED
      BY <1>2, <2>1, <3>1, <3>2, <3>3 DEF ReportsDispatch
  <2>2. CASE s.phase # "WAITING"
    <3>1. s.current[fb.drone].id = fb.route /\ fb.route # 0
          /\ fb.mission = s.activeMission /\ fb.revision = s.activeRevision
      BY <2>2 DEF Matches, Book
    <3>2. t = MissionFeedback(s, fb)
      BY <1>2, <2>2, <3>1 DEF FeedbackResult
    <3>3. MissionNews(s, fb, MissionFeedback(s, fb))
      BY MissionFeedbackEffect
    <3> QED
      BY <1>2, <2>2, <3>1, <3>2, <3>3 DEF ReportsMission
  <2> QED
    BY <2>1, <2>2
<1> QED
  BY <1>1, <1>2, <1>3 DEF EndsHome

LEMMA CalledOffFrom ==
  ASSUME NEW s, NEW f, NEW t, SameGround(s, f), SameVersions(f, t), t.aux = f.aux,
         CalledOff(f, t)
  PROVE  SameVersions(s, t) /\ t.aux = s.aux /\ CalledOff(s, t)
<1>1. /\ f.nextCommand = s.nextCommand /\ f.out = s.out /\ f.activeMission = s.activeMission
      /\ f.activeRevision = s.activeRevision
  BY DEF SameGround, SameVersions
<1>2. CancelAll(f) = CancelAll(s)
  BY <1>1 DEF CancelAll
<1>3. CalledOff(s, t)
  BY <1>1, <1>2 DEF CalledOff, Posts, SaysNothing
<1> QED
  BY <1>3 DEF SameGround, SameVersions

LEMMA DispatchNews ==
  ASSUME NEW s \in Memory, Counted(s), NEW fb \in Feedbacks, NEW t \in Memory,
         ReportsDispatch(s, fb, t)
  PROVE  \E f \in Memory :
           /\ NotedOn(s, fb, f)
           /\ \/ fb.state \in Failures /\ Lost(s, t)
              \/ fb.state \notin Failures /\ (t = f \/ Settles(f, t))
<1>1. PICK f \in Memory :
        /\ NotedProvisional(s, fb, f)
        /\ IF fb.state \in Failures THEN Failed(f, t)
           ELSE IF AllAccepted(f) THEN Committed(f, t) ELSE t = f
  BY DEF ReportsDispatch, ProvisionalNews
<1>2. /\ s.phase = "WAITING" /\ CurrentBroadcast(s, fb) /\ fb.route # 0
      /\ s.provisional[fb.drone].id = fb.route /\ ~MatchesAux(s, fb)
  BY DEF ReportsDispatch
<1>3. /\ SameGround(s, f) /\ f.phase = s.phase /\ f.planned = s.planned
      /\ f.provisional = [s.provisional EXCEPT ![fb.drone] = Fed(s.provisional[fb.drone], fb)]
  BY <1>1 DEF NotedProvisional, Noted, Silent, SameSafety, SaysNothing, SameGround
<1>4. NotedOn(s, fb, f) /\ Book(f) = f.provisional
  BY <1>2, <1>3 DEF NotedOn, Book, Matches, CurrentBroadcast, EndsHome
<1>5. Counted(f) /\ f.planned = NoRoutes
  BY <1>1, <1>2, <1>3, NotedProvisionalCounted DEF Counted, RevisionKnown
<1>6. CASE fb.state \in Failures
  <2>1. Failed(f, t)
    BY <1>1, <1>6
  <2>2. /\ f.phase = "WAITING" /\ SameVersions(f, t) /\ t.aux = f.aux /\ CalledOff(f, t)
    BY <1>2, <1>3, <2>1 DEF Failed
  <2>3. Owners(t.current) = {} /\ t.planned = NoRoutes /\ Owners(t.provisional) = {}
    BY <1>5, <2>1, <2>2, FailedIs
  <2>4. SameVersions(s, t) /\ t.aux = s.aux /\ CalledOff(s, t)
    BY <1>3, <2>2, CalledOffFrom
  <2>5. Lost(s, t)
    BY <2>3, <2>4 DEF Lost
  <2> QED
    BY <1>4, <1>6, <2>5
<1>7. CASE fb.state \notin Failures /\ AllAccepted(f)
  <2>1. Committed(f, t)
    BY <1>1, <1>7
  <2>2. /\ SameGround(f, t) /\ t.planned = NoRoutes /\ t.phase = "IDLE"
        /\ t.current = IF AllFinished(f.provisional) THEN NoRoutes ELSE f.provisional
    BY <1>5, <2>1 DEF Committed, SameGround, SameSafety, SaysNothing
  <2>3. Book(t) = t.current
    BY <2>2 DEF Book
  <2>4. ASSUME NEW d \in Drones
        PROVE  \/ /\ Book(t)[d] = Book(f)[d]
                  /\ Book(f)[d].id # 0 => f.phase = "IDLE" \/ Book(f)[d].accepted
               \/ Book(t)[d].id = 0 /\ (Book(f)[d].id # 0 => Book(f)[d].finished)
    <3>1. CASE AllFinished(f.provisional)
      BY <1>4, <2>2, <2>3, <3>1, NoRouteIs DEF AllFinished, Owners
    <3>2. CASE ~AllFinished(f.provisional)
      BY <1>4, <1>7, <2>2, <2>3, <3>2 DEF AllAccepted, Owners
    <3> QED
      BY <3>1, <3>2
  <2>5. Settles(f, t)
    BY <2>2, <2>4 DEF Settles
  <2> QED
    BY <1>4, <1>7, <2>5
<1>8. CASE fb.state \notin Failures /\ ~AllAccepted(f)
  BY <1>1, <1>4, <1>8
<1> QED
  BY <1>6, <1>7, <1>8

LEMMA MissionNewsOf ==
  ASSUME NEW s \in Memory, NEW fb \in Feedbacks, NEW t, Timely(s, fb),
         ReportsMission(s, fb, t)
  PROVE  \E f \in Memory :
           /\ NotedOn(s, fb, f)
           /\ \/ fb.state \in Failures /\ Lost(s, t)
              \/ fb.state \notin Failures /\ (t = f \/ Settles(f, t))
<1>1. PICK f \in Memory :
        /\ NotedCurrent(s, fb, f)
        /\ IF fb.state \in Failures THEN Aborted(f, t)
           ELSE IF AllFinished(f.current) THEN Finished(f, t) ELSE t = f
  BY DEF ReportsMission, MissionNews
<1>2. /\ s.phase # "WAITING" /\ fb.mission = s.activeMission
      /\ fb.revision = s.activeRevision /\ fb.route # 0
      /\ s.current[fb.drone].id = fb.route /\ ~MatchesAux(s, fb)
  BY DEF ReportsMission, Timely, CurrentBroadcast
<1>3. /\ SameGround(s, f) /\ f.phase = s.phase /\ f.planned = s.planned
      /\ f.current = [s.current EXCEPT ![fb.drone] = Fed(s.current[fb.drone], fb)]
  BY <1>1 DEF NotedCurrent, Noted, Silent, SameSafety, SaysNothing, SameGround
<1>4. NotedOn(s, fb, f) /\ Book(f) = f.current
  BY <1>2, <1>3 DEF NotedOn, Book, Matches, EndsHome
<1>6. CASE fb.state \in Failures
  <2>1. Emptied(f, t) /\ CalledOff(f, t)
    BY <1>1, <1>6 DEF Aborted
  <2>2. /\ SameVersions(f, t) /\ t.aux = f.aux /\ t.planned = NoRoutes
        /\ Owners(t.current) = {} /\ Owners(t.provisional) = {}
    BY <2>1, NoRouteIs DEF Emptied, Owners
  <2>3. Lost(s, t)
    BY <1>3, <2>1, <2>2, CalledOffFrom DEF Lost
  <2> QED
    BY <1>4, <1>6, <2>3
<1>7. CASE fb.state \notin Failures /\ AllFinished(f.current)
  <2>1. Finished(f, t)
    BY <1>1, <1>7
  <2>2. /\ SameGround(f, t) /\ t.planned = NoRoutes /\ t.phase = f.phase
        /\ t.current = NoRoutes
    BY <2>1 DEF Finished, Silent, SameGround, SameSafety, SaysNothing
  <2>3. Book(t) = NoRoutes
    BY <1>2, <1>3, <2>2 DEF Book
  <2>4. Settles(f, t)
    BY <1>4, <1>7, <2>2, <2>3, NoRouteIs DEF Settles, AllFinished, Owners
  <2> QED
    BY <1>4, <1>7, <2>4
<1>8. CASE fb.state \notin Failures /\ ~AllFinished(f.current)
  BY <1>1, <1>4, <1>8
<1> QED
  BY <1>6, <1>7, <1>8

(* The drone's own report loses the route the coordinator has for it.      *)
LEMMA LostAgrees ==
  ASSUME NEW s \in Memory, NEW t \in Memory, Dates(s, t), Counted(s), NEW d \in Drones,
         \E v \in SUBSET Broadcasts : Brings(s, t, d, v) /\ Stopped(s, t, d, v),
         PlansOn(s, t, d),
         NEW e, NEW under, NEW told, Agreed(s, d, e, under \cup Addressed(s, d), told),
         told # <<>>, Head(told).drone = d, ~EndsHome(s, Head(told))
  PROVE  Agreed(t, d, e, under \cup Addressed(t, d), Tail(told))
<1> DEFINE old == under \cup Addressed(s, d)
           rest == Tail(told)
<1>1. PICK v \in SUBSET Broadcasts : Brings(s, t, d, v) /\ Stopped(s, t, d, v)
  OBVIOUS
<1>2. under \cup Addressed(t, d) = old \cup v
  BY <1>1 DEF Brings
<1>3. Addressed(s, d) \subseteq old /\ Agreed(s, d, e, old, told)
  OBVIOUS
<1> HIDE DEF old
<1>4. /\ Dated(s, d, e, old, rest) /\ Truthful(e, rest) /\ Over(s, d, e, rest)
      /\ HomeBound(s, d, e, old, rest)
  BY <1>3, Heard
<1>5. /\ Sensible(s, d, e, old) /\ NoStray(s, d, e, old) /\ Complete(s, d)
      /\ Steady(s, d, e, old)
  BY <1>3 DEF Agreed
<1> HIDE DEF rest
<1>6. Step(s, t, d, e, old, rest, v)
  BY <1>1, <1>4 DEF Step, Touches
<1>7. Dated(t, d, e, old \cup v, rest)
  BY <1>1, <1>3, <1>4, DatedStep
<1>8. Sensible(t, d, e, old \cup v) /\ Steady(t, d, e, old \cup v)
  BY <1>5, <1>6, SensibleStep, SteadyStep
<1>9. NoStray(t, d, e, old \cup v) /\ Over(t, d, e, rest) /\ Complete(t, d)
  BY <1>4, <1>5, <1>6, NoStrayStep, OverStep
<1>10. HomeBound(t, d, e, old \cup v, rest)
  BY <1>4, <1>6, HomeBoundStep
<1>11. Loyal(t, d, e, old \cup v, rest)
  BY <1>1 DEF Stopped, Loyal
<1> QED
  BY <1>2, <1>4, <1>7, <1>8, <1>9, <1>10, <1>11, Zenon DEF Agreed, rest

(* What does not touch the drone leaves the agreement with it.             *)
LEMMA SparedAgrees ==
  ASSUME NEW s \in Memory, NEW t \in Memory, Dates(s, t), Counted(s), NEW d \in Drones,
         SameActive(s, t), t.excluded = s.excluded, t.planned = s.planned, t.phase = s.phase,
         t.nextMission = s.nextMission, t.nextRoute = s.nextRoute, SaysNothing(s, t),
         Book(t)[d] = Book(s)[d], t.aux[d] = s.aux[d],
         NEW e, NEW under, NEW told, Agreed(s, d, e, under \cup Addressed(s, d), told)
  PROVE  Agreed(t, d, e, under \cup Addressed(t, d), told)
<1>1. Brings(s, t, d, {})
  <2>1. t.nextCommand = s.nextCommand /\ Addressed(t, d) = Addressed(s, d)
    BY DEF SaysNothing, Addressed, Sent
  <2> QED
    BY <2>1, Counters DEF Brings
<1>2. Live(t, d) = Live(s, d)
  BY DEF Live
<1>3. Spared(s, t, d, {})
  BY <1>2 DEF Spared
<1>4. \E v \in SUBSET Broadcasts : Brings(s, t, d, v) /\ Touches(s, t, d, v)
  BY <1>1, <1>3, NoPlanOn DEF Touches
<1> QED
  BY <1>4, TouchAgrees, Zenon

LEMMA FeedbackAgrees ==
  ASSUME NEW s, Good(s), Counted(s), NEW fb \in Feedbacks, Timely(s, fb),
         NEW t \in Memory, t = FeedbackResult(s, fb), NEW d \in Drones,
         NEW e, NEW under, NEW told, Agreed(s, d, e, under \cup Addressed(s, d), told),
         d = fb.drone => told # <<>> /\ Head(told) = fb
  PROVE  Agreed(t, d, e, under \cup Addressed(t, d),
                IF d = fb.drone THEN Tail(told) ELSE told)
<1> DEFINE old == under \cup Addressed(s, d)
           rest == IF d = fb.drone THEN Tail(told) ELSE told
<1>1. /\ s \in Memory /\ VersionsKnown(s) /\ HomesNumbered(s)
      /\ Dates(s, t)
  BY ReportedDates DEF Good, Counted
<1>2. CASE ReportsHome(s, fb, t)
  <2>1. Homed(s, fb, t) /\ EndsHome(s, fb)
    BY <1>2 DEF ReportsHome, EndsHome
  <2>2. /\ SaysNothing(s, t) /\ SameActive(s, t) /\ t.excluded = s.excluded
        /\ t.planned = s.planned /\ t.phase = s.phase /\ Book(t) = Book(s)
        /\ t.nextMission = s.nextMission /\ t.nextRoute = s.nextRoute
        /\ t.aux = WithoutAux(s.aux, {fb.drone})
    BY <2>1 DEF Homed, Silent, SameVersions, SameActive, SameSafety, Book
  <2>3. CASE d = fb.drone
    <3>1. Addressed(t, d) = Addressed(s, d)
      BY <2>2 DEF SaysNothing, Addressed, Sent
    <3>2. Agreed(t, d, e, old, Tail(told))
      BY <1>1, <2>1, <2>3, HomedAgrees
    <3> QED
      BY <2>3, <3>1, <3>2
  <2>4. CASE d # fb.drone
    <3>1. t.aux[d] = s.aux[d]
      BY <2>2, <2>4 DEF WithoutAux
    <3> QED
      BY <1>1, <2>2, <2>4, <3>1, SparedAgrees, Zenon
  <2> QED
    BY <2>3, <2>4
<1>3. ASSUME NEW f \in Memory, NotedOn(s, fb, f)
      PROVE  /\ fb.state \in Failures /\ Lost(s, t) => Agreed(t, d, e, under \cup Addressed(t, d), rest)
             /\ fb.state \notin Failures => Agreed(f, d, e, under \cup Addressed(f, d), rest)
  <2>1. /\ SameGround(s, f) /\ f.phase = s.phase /\ f.planned = s.planned
        /\ Book(f) = [Book(s) EXCEPT ![fb.drone] = Fed(Book(s)[fb.drone], fb)]
        /\ Matches(s, fb) /\ ~EndsHome(s, fb)
    BY <1>3 DEF NotedOn
  <2>2. /\ SameVersions(s, f) /\ SaysNothing(s, f) /\ SameActive(s, f)
        /\ f.nextMission = s.nextMission /\ f.nextRoute = s.nextRoute
        /\ f.aux = s.aux /\ f.excluded = s.excluded /\ Addressed(f, d) = Addressed(s, d)
    BY <2>1, GroundIs DEF SameGround, SaysNothing
  <2>3. Dates(s, f)
    BY <1>1, <2>1, <2>2, QuietDates
  <2>4. Book(s) \in Books
    BY <1>1, BooksField DEF Book
  <2>5. ASSUME fb.state \notin Failures
        PROVE  Agreed(f, d, e, under \cup Addressed(f, d), rest)
    <3>1. CASE d = fb.drone
      <4>1. Book(f)[d] = Fed(Book(s)[d], fb)
        BY <2>1, <2>4, <3>1 DEF Books
      <4>2. Agreed(f, d, e, old, Tail(told))
        BY <2>1, <2>3, <2>5, <3>1, <4>1, NotedAgrees, Zenon
      <4> QED
        BY <2>2, <3>1, <4>2
    <3>2. CASE d # fb.drone
      <4>1. Book(f)[d] = Book(s)[d]
        BY <2>1, <2>4, <3>2 DEF Books
      <4> QED
        BY <1>1, <2>1, <2>2, <2>3, <3>2, <4>1, SparedAgrees, Zenon
    <3> QED
      BY <3>1, <3>2
  <2>6. ASSUME Lost(s, t)
        PROVE  Agreed(t, d, e, under \cup Addressed(t, d), rest)
    <3>1. \E v \in SUBSET Broadcasts : Brings(s, t, d, v) /\ Stopped(s, t, d, v)
      BY <1>1, <2>6, CalledOffStops DEF Lost
    <3>2. PlansOn(s, t, d)
      BY <2>6, NoPlanOn DEF Lost
    <3>3. CASE d = fb.drone
      <4>1. Agreed(t, d, e, under \cup Addressed(t, d), Tail(told))
        BY <1>1, <2>1, <3>1, <3>2, <3>3, LostAgrees, Zenon
      <4> QED
        BY <3>3, <4>1
    <3>4. CASE d # fb.drone
      <4>1. \E v \in SUBSET Broadcasts : Brings(s, t, d, v) /\ Touches(s, t, d, v)
        BY <3>1, <3>2 DEF Touches
      <4> QED
        BY <1>1, <3>4, <4>1, TouchAgrees, Zenon
    <3> QED
      BY <3>3, <3>4
  <2> QED
    BY <2>5, <2>6
<1>4. ASSUME NEW f \in Memory, fb.state \notin Failures, Settles(f, t),
             Agreed(f, d, e, under \cup Addressed(f, d), rest)
      PROVE  Agreed(t, d, e, under \cup Addressed(t, d), rest)
  <2>1. /\ SameGround(f, t) /\ t.planned = NoRoutes /\ t.phase \in {f.phase, "IDLE"}
        /\ \/ /\ Book(t)[d] = Book(f)[d]
              /\ Book(f)[d].id # 0 => f.phase = "IDLE" \/ Book(f)[d].accepted
           \/ Book(t)[d].id = 0 /\ (Book(f)[d].id # 0 => Book(f)[d].finished)
    BY <1>4 DEF Settles
  <2>2. Dates(f, t) /\ Addressed(t, d) = Addressed(f, d)
    BY <2>1, QuietDates, GroundIs DEF SameGround, SaysNothing
  <2> DEFINE kept == under \cup Addressed(f, d)
  <2> HIDE DEF kept, rest
  <2>3. Agreed(f, d, e, kept, rest)
    BY <1>4 DEF kept
  <2>4. Agreed(t, d, e, kept, rest)
    BY <2>1, <2>2, <2>3, SettledAgrees
  <2> QED
    BY <2>2, <2>4 DEF kept
<1>5. ASSUME \E f \in Memory :
               /\ NotedOn(s, fb, f)
               /\ \/ fb.state \in Failures /\ Lost(s, t)
                  \/ fb.state \notin Failures /\ (t = f \/ Settles(f, t))
      PROVE  Agreed(t, d, e, under \cup Addressed(t, d), rest)
  <2> HIDE DEF rest
  <2> QED
    BY <1>3, <1>4, <1>5, Zenon
<1>6. CASE ReportsDispatch(s, fb, t)
  <2>1. \E f \in Memory :
          /\ NotedOn(s, fb, f)
          /\ \/ fb.state \in Failures /\ Lost(s, t)
             \/ fb.state \notin Failures /\ (t = f \/ Settles(f, t))
    BY <1>1, <1>6, DispatchNews
  <2> QED
    BY <1>5, <2>1
<1>7. CASE ReportsMission(s, fb, t)
  <2>1. \E f \in Memory :
          /\ NotedOn(s, fb, f)
          /\ \/ fb.state \in Failures /\ Lost(s, t)
             \/ fb.state \notin Failures /\ (t = f \/ Settles(f, t))
    BY <1>1, <1>7, MissionNewsOf
  <2> QED
    BY <1>5, <2>1
<1>8. CASE ~ReportsHome(s, fb, t) /\ ~ReportsDispatch(s, fb, t) /\ ~ReportsMission(s, fb, t)
  <2>1. t = s /\ ~EndsHome(s, fb) /\ ~EndsRoute(s, fb)
    BY <1>1, <1>8, Unheard
  <2>2. CASE d = fb.drone
    <3>1. Agreed(s, d, e, old, told) /\ told # <<>> /\ Head(told) = fb
      BY <2>2
    <3> HIDE DEF old
    <3>2. /\ Dated(s, d, e, old, Tail(told)) /\ Truthful(e, Tail(told))
          /\ Over(s, d, e, Tail(told)) /\ HomeBound(s, d, e, old, Tail(told))
          /\ Loyal(s, d, e, old, Tail(told))
      BY <2>1, <2>2, <3>1, Heard
    <3>3. Agreed(s, d, e, old, Tail(told))
      BY <3>1, <3>2 DEF Agreed
    <3> QED
      BY <2>1, <2>2, <3>3 DEF old
  <2>3. CASE d # fb.drone
    BY <2>1, <2>3
  <2> QED
    BY <2>2, <2>3
<1> QED
  BY <1>2, <1>6, <1>7, <1>8

-----------------------------------------------------------------------------
(* A drone's step: what it tells follows what it told.                     *)

LEMMA Joined ==
  ASSUME NEW told \in Seq(Feedbacks), NEW words \in Seq(Feedbacks)
  PROVE  LET q == told \o words
             m == Len(told)
         IN  /\ q \in Seq(Feedbacks) /\ m \in Nat
             /\ \A i \in DOMAIN told : i \in DOMAIN q /\ q[i] = told[i]
             /\ \A i \in DOMAIN words : i + m \in DOMAIN q /\ q[i + m] = words[i]
             /\ \A i \in DOMAIN q :
                  \/ i \in DOMAIN told /\ q[i] = told[i]
                  \/ i \notin DOMAIN told /\ i - m \in DOMAIN words /\ q[i] = words[i - m]
             /\ \A i, j \in DOMAIN q :
                  i < j /\ i \notin DOMAIN told => j \notin DOMAIN told /\ i - m < j - m
<1> DEFINE q == told \o words
           m == Len(told)
<1>1. /\ q \in Seq(Feedbacks) /\ m \in Nat /\ Len(words) \in Nat
      /\ DOMAIN q = 1..(m + Len(words))
      /\ DOMAIN told = 1..m /\ DOMAIN words = 1..Len(words)
      /\ \A i \in 1..m : q[i] = told[i]
      /\ \A i \in (m + 1)..(m + Len(words)) : q[i] = words[i - m]
  BY ConcatProperties, LenProperties
<1> HIDE DEF q, m
<1>2. \A i \in DOMAIN told : i \in DOMAIN q /\ q[i] = told[i]
  BY <1>1
<1>3. \A i \in DOMAIN q :
        \/ i \in DOMAIN told /\ q[i] = told[i]
        \/ i \notin DOMAIN told /\ i - m \in DOMAIN words /\ q[i] = words[i - m]
  BY <1>1
<1>4. \A i \in DOMAIN words : i + m \in DOMAIN q /\ q[i + m] = words[i]
  <2> SUFFICES ASSUME NEW i \in DOMAIN words
               PROVE  i + m \in DOMAIN q /\ q[i + m] = words[i]
    OBVIOUS
  <2>1. i + m \in (m + 1)..(m + Len(words)) /\ (i + m) - m = i
    BY <1>1
  <2> QED
    BY <1>1, <2>1
<1>5. \A i, j \in DOMAIN q :
        i < j /\ i \notin DOMAIN told => j \notin DOMAIN told /\ i - m < j - m
  BY <1>1
<1> QED
  BY <1>1, <1>2, <1>3, <1>4, <1>5, Zenon DEF q, m

LEMMA TellsMore ==
  ASSUME NEW told \in Seq(Feedbacks), NEW words \in Seq(Feedbacks),
         NEW k, NEW m, NEW r, NEW id, TellsEnd(told, k, m, r, id)
  PROVE  TellsEnd(told \o words, k, m, r, id)
<1> DEFINE q == told \o words
<1>1. \A i \in DOMAIN told : i \in DOMAIN q /\ q[i] = told[i]
  BY Joined
<1> HIDE DEF q
<1>2. TellsEnd(q, k, m, r, id)
  BY <1>1 DEF TellsEnd
<1> QED
  BY <1>2 DEF q

LEMMA TruthfulGrows ==
  ASSUME NEW told \in Seq(Feedbacks), NEW words \in Seq(Feedbacks),
         NEW e \in E!Memory, NEW f \in E!Memory, Truthful(e, told), e.command <= f.command,
         \A i \in DOMAIN told : told[i].state \in Terminal /\ f.active => told[i].command < f.command,
         \A i \in DOMAIN words :
           /\ words[i].command <= f.command
           /\ words[i].state \in Terminal /\ f.active => words[i].command < f.command,
         \A i \in DOMAIN told, j \in DOMAIN words :
           told[i].state \in Terminal => told[i].command < words[j].command,
         \A i, j \in DOMAIN words :
           i < j /\ words[i].state \in Terminal => words[i].command < words[j].command
  PROVE  Truthful(f, told \o words)
<1> DEFINE q == told \o words
           m == Len(told)
<1>1. /\ \A i \in DOMAIN q :
           \/ i \in DOMAIN told /\ q[i] = told[i]
           \/ i \notin DOMAIN told /\ i - m \in DOMAIN words /\ q[i] = words[i - m]
      /\ \A i, j \in DOMAIN q :
           i < j /\ i \notin DOMAIN told => j \notin DOMAIN told /\ i - m < j - m
  BY Joined
<1>2. /\ e.command \in Nat /\ f.command \in Nat
      /\ \A i \in DOMAIN told : told[i].command \in Nat
  <2>1. \A i \in DOMAIN told : told[i] \in Feedbacks
    BY ElementOfSeq, LenProperties
  <2> QED
    BY <2>1, MemoryFields DEF Feedbacks
<1> HIDE DEF q, m
<1>3. \A i \in DOMAIN told : told[i].command <= f.command
  BY <1>2 DEF Truthful
<1>4. \A i \in DOMAIN q :
        /\ q[i].command <= f.command
        /\ q[i].state \in Terminal /\ f.active => q[i].command < f.command
  BY <1>1, <1>3
<1>5. ASSUME NEW i \in DOMAIN q, NEW j \in DOMAIN q, i < j, q[i].state \in Terminal
      PROVE  q[i].command < q[j].command
  <2>1. CASE i \in DOMAIN told /\ j \in DOMAIN told
    BY <1>1, <1>5, <2>1 DEF Truthful
  <2>2. CASE i \in DOMAIN told /\ j \notin DOMAIN told
    BY <1>1, <1>5, <2>2
  <2>3. CASE i \notin DOMAIN told
    <3>1. /\ i - m \in DOMAIN words /\ q[i] = words[i - m]
          /\ j - m \in DOMAIN words /\ q[j] = words[j - m] /\ i - m < j - m
      BY <1>1, <1>5, <2>3
    <3> QED
      BY <1>5, <3>1
  <2> QED
    BY <2>1, <2>2, <2>3
<1>6. Truthful(f, q)
  BY <1>4, <1>5 DEF Truthful
<1> QED
  BY <1>6 DEF q

LEMMA ToldMore ==
  ASSUME NEW s, NEW d, NEW e \in E!Memory, NEW f \in E!Memory, NEW under, NEW rest,
         NEW told, NEW words \in Seq(Feedbacks), Dated(s, d, e, under, told),
         rest \subseteq under, Past(s, Stamp(f)), \A c \in rest : f.command < c.command,
         \A i \in DOMAIN words : Past(s, Stamp(words[i])) /\ words[i].drone = d
  PROVE  Dated(s, d, f, rest, told \o words)
<1> DEFINE q == told \o words
           m == Len(told)
<1>1. told \in Seq(Feedbacks)
  BY DEF Dated
<1>2. /\ q \in Seq(Feedbacks)
      /\ \A i \in DOMAIN q :
           \/ i \in DOMAIN told /\ q[i] = told[i]
           \/ i \notin DOMAIN told /\ i - m \in DOMAIN words /\ q[i] = words[i - m]
  BY <1>1, Joined
<1> HIDE DEF q, m
<1>3. \A i \in DOMAIN q : Past(s, Stamp(q[i])) /\ q[i].drone = d
  BY <1>2 DEF Dated
<1>4. Dated(s, d, f, rest, q)
  BY <1>2, <1>3 DEF Dated
<1> QED
  BY <1>4 DEF q

LEMMA OverMore ==
  ASSUME NEW s, NEW d, NEW e, NEW f, NEW told \in Seq(Feedbacks),
         NEW words \in Seq(Feedbacks), Over(s, d, e, told),
         Book(s)[d].id # 0 /\ Book(s)[d].finished =>
           /\ s.activeCommand <= f.command /\ (f.active => s.activeCommand < f.command)
           /\ \A i \in DOMAIN words : s.activeCommand < words[i].command
  PROVE  Over(s, d, f, told \o words)
<1> DEFINE q == told \o words
           m == Len(told)
<1>1. \A i \in DOMAIN q :
        \/ i \in DOMAIN told /\ q[i] = told[i]
        \/ i \notin DOMAIN told /\ i - m \in DOMAIN words /\ q[i] = words[i - m]
  BY Joined
<1> HIDE DEF q, m
<1>2. Over(s, d, f, q)
  BY <1>1 DEF Over
<1> QED
  BY <1>2 DEF q

(* The drone reads the oldest command that is under way to it.             *)
Oldest(s, d, e, c, rest, told) ==
  /\ Agreed(s, d, e, rest \cup {c}, told) /\ \A b \in rest : c.command < b.command

(* It adopts the route, it stops the one it has, or nothing happens.       *)
LEMMA Outcomes ==
  ASSUME NEW s, NEW d \in Drones, NEW e, NEW c, NEW rest, NEW told,
         Oldest(s, d, e, c, rest, told),
         NEW f \in E!Memory, NEW words, Reads(d, c, e, f, words)
  PROVE  \/ Takes(d, c, e, f, words)
         \/ HaltedBy(d, c, e, f, words) /\ words = <<>>
         \/ /\ f = e /\ words = <<>> /\ (Ends(c, d, e.mission, e.revision) => ~e.active)
            /\ Carries(c, d) => E!Stale(e, c)
<1>1. Carries(c, d) => c.orders[d].legs # 0
  BY DEF Oldest, Agreed, Sensible
<1>2. e.command < c.command /\ e \in E!Memory /\ c \in Broadcasts
  BY DEF Oldest, Agreed, Dated
<1>3. e.command \in Nat /\ c.command \in Nat
  BY <1>2, MemoryFields, BroadcastFields
<1> QED
  BY <1>1, <1>2, <1>3 DEF Reads, Drops, HaltedBy

(* What is known of the command, and of the memory after it.               *)
LEMMA OldestFacts ==
  ASSUME NEW s, NEW d \in Drones, NEW e, NEW c, NEW rest, NEW told,
         Oldest(s, d, e, c, rest, told),
         NEW f \in E!Memory, NEW words, Reads(d, c, e, f, words)
  PROVE  /\ s \in Memory /\ e \in E!Memory /\ c \in Broadcasts /\ rest \subseteq Broadcasts
         /\ told \in Seq(Feedbacks)
         /\ e.command \in Nat /\ e.mission \in Nat /\ e.revision \in Nat /\ e.route \in Nat
         /\ c.command \in Nat /\ c.mission \in Nat /\ c.revision \in Nat
         /\ \A b \in rest : b.command \in Nat /\ b.mission \in Nat /\ c.command < b.command
         /\ e.command < c.command /\ f.command \in {e.command, c.command}
         /\ e.command <= f.command /\ f.command <= c.command
         /\ f.mission \in {e.mission, c.mission} /\ Past(s, Stamp(f))
         /\ \A i \in DOMAIN words : Past(s, Stamp(words[i]))
<1>1. /\ s \in Memory /\ e \in E!Memory /\ c \in Broadcasts /\ rest \subseteq Broadcasts
      /\ told \in Seq(Feedbacks) /\ e.command < c.command
      /\ Past(s, Stamp(e)) /\ Past(s, Stamp(c))
  BY DEF Oldest, Agreed, Dated
<1>2. /\ e.command \in Nat /\ e.mission \in Nat /\ e.revision \in Nat /\ e.route \in Nat
      /\ c.command \in Nat /\ c.mission \in Nat /\ c.revision \in Nat
  BY <1>1, MemoryFields, BroadcastFields
<1>3. \A b \in rest : b.command \in Nat /\ b.mission \in Nat /\ c.command < b.command
  BY <1>1, BroadcastFields DEF Oldest
<1>4. /\ f.command \in {e.command, c.command} /\ Past(s, Stamp(f))
      /\ \A i \in DOMAIN words : Past(s, Stamp(words[i]))
  BY <1>1, ReadingDates
<1>5. f.mission \in {e.mission, c.mission}
  BY DEF Reads, Takes, HaltedBy, Drops, Stamp
<1> QED
  BY <1>1, <1>2, <1>3, <1>4, <1>5

LEMMA TakesIs ==
  ASSUME NEW d, NEW c, NEW e, NEW f, NEW words, Takes(d, c, e, f, words)
  PROVE  /\ Carries(c, d) /\ f.active /\ f.route = c.orders[d].id
         /\ f.command = c.command /\ f.mission = c.mission /\ f.revision = c.revision
         /\ \A i \in DOMAIN words : words[i].command = c.command /\ words[i].state = "ACCEPTED"
<1>1. /\ Carries(c, d) /\ f.active /\ f.route = c.orders[d].id
      /\ f.command = c.command /\ f.mission = c.mission /\ f.revision = c.revision
  BY DEF Takes, Stamp
<1>2. PICK n \in Nat :
        words = <<Feedback(c.command, c.mission, c.revision, d, c.orders[d].id, "ACCEPTED", n)>>
  BY DEF Takes
<1> DEFINE w == Feedback(c.command, c.mission, c.revision, d, c.orders[d].id, "ACCEPTED", n)
<1>3. w.command = c.command /\ w.state = "ACCEPTED"
  BY DEF Feedback
<1> HIDE DEF w
<1>4. words = <<w>>
  BY <1>2 DEF w
<1> QED
  BY <1>1, <1>3, <1>4

LEMMA HaltedIs ==
  ASSUME NEW d, NEW c, NEW e, NEW f, NEW words, HaltedBy(d, c, e, f, words)
  PROVE  /\ words = <<>> /\ ~Carries(c, d) /\ Ends(c, d, e.mission, e.revision)
         /\ f.command = c.command /\ f.mission = e.mission
         /\ f.route = e.route /\ f.active = e.active /\ f.purpose = e.purpose
         /\ f.active => f.cancel
BY DEF HaltedBy, Stamp

(* The books' view of the drone: dates, truth, sense and what is over.     *)
LEMMA ReadRegular ==
  ASSUME NEW s, NEW d \in Drones, NEW e, NEW c, NEW rest, NEW told,
         Oldest(s, d, e, c, rest, told),
         NEW f \in E!Memory, NEW words \in Seq(Feedbacks), Reads(d, c, e, f, words),
         \A i \in DOMAIN words : words[i].drone = d
  PROVE  /\ Dated(s, d, f, rest, told \o words) /\ Truthful(f, told \o words)
         /\ Sensible(s, d, f, rest) /\ Over(s, d, f, told \o words)
<1> DEFINE under == rest \cup {c}
<1>1. /\ Dated(s, d, e, under, told) /\ Truthful(e, told) /\ Sensible(s, d, e, under)
      /\ Over(s, d, e, told)
  BY DEF Oldest, Agreed
<1>2. /\ s \in Memory /\ e \in E!Memory /\ told \in Seq(Feedbacks)
      /\ e.command \in Nat /\ c.command \in Nat /\ e.mission \in Nat /\ c.mission \in Nat
      /\ \A b \in rest : b.command \in Nat /\ b.mission \in Nat /\ c.command < b.command
      /\ e.command < c.command /\ f.command \in {e.command, c.command}
      /\ e.command <= f.command /\ f.command <= c.command
      /\ f.mission \in {e.mission, c.mission} /\ Past(s, Stamp(f))
      /\ \A i \in DOMAIN words : Past(s, Stamp(words[i]))
  BY OldestFacts
<1>3. s.activeCommand \in Nat
  BY <1>2, Counters
<1>12. \/ Takes(d, c, e, f, words)
       \/ HaltedBy(d, c, e, f, words) /\ words = <<>>
       \/ f = e /\ words = <<>>
  BY Outcomes
<1>4. \/ f.command = c.command
      \/ f = e /\ words = <<>>
  BY <1>12, TakesIs, HaltedIs
<1>5. \A i \in DOMAIN words :
        words[i].command = c.command /\ words[i].state = "ACCEPTED" /\ f.command = c.command
  <2>1. CASE Takes(d, c, e, f, words)
    BY <2>1, TakesIs
  <2>2. CASE words = <<>>
    BY <2>2, Silence
  <2> QED
    BY <1>12, <2>1, <2>2
<1>6. \A i \in DOMAIN told : told[i].command \in Nat
  <2>1. \A i \in DOMAIN told : told[i] \in Feedbacks
    BY <1>2, ElementOfSeq, LenProperties
  <2> QED
    BY <2>1 DEF Feedbacks
<1>7. \A b \in rest : f.command < b.command
  BY <1>2
<1>8. Dated(s, d, f, rest, told \o words)
  <2> HIDE DEF under
  <2>1. rest \subseteq under
    BY DEF under
  <2> QED
    BY <1>1, <1>2, <1>7, <2>1, ToldMore
<1>9. Truthful(f, told \o words)
  <2>1. \A i \in DOMAIN told : told[i].state \in Terminal /\ f.active => told[i].command < f.command
    BY <1>1, <1>2, <1>4, <1>6 DEF Truthful
  <2>2. \A i \in DOMAIN words : words[i].command <= f.command /\ words[i].state \notin Terminal
    BY <1>2, <1>5 DEF Terminal, Failures
  <2>3. \A i \in DOMAIN told, j \in DOMAIN words : told[i].command < words[j].command
    BY <1>1, <1>2, <1>5, <1>6 DEF Truthful
  <2> QED
    BY <1>1, <1>2, <2>1, <2>2, <2>3, TruthfulGrows, Zenon
<1>10. Sensible(s, d, f, rest)
  <2>1. \A b \in rest : Carries(b, d) => b.orders[d].legs # 0 /\ b.orders[d].id < s.nextRoute
    BY <1>1 DEF Sensible
  <2>2. ASSUME NEW b \in rest, b.kind \in HomeKinds
        PROVE  /\ b.revision = 1 /\ b.mission # s.activeMission /\ f.mission < b.mission
               /\ \A x \in rest : x.command < b.command => x.mission < b.mission
    <3>1. /\ b.revision = 1 /\ b.mission # s.activeMission /\ e.mission < b.mission
          /\ \A x \in under : x.command < b.command => x.mission < b.mission
      BY <1>1, <2>2 DEF Sensible
    <3>2. c.mission < b.mission
      BY <1>2, <2>2, <3>1
    <3> QED
      BY <1>2, <3>1, <3>2
  <2> QED
    BY <2>1, <2>2 DEF Sensible
<1>11. Over(s, d, f, told \o words)
  <2>1. Book(s)[d].id # 0 /\ Book(s)[d].finished =>
          /\ s.activeCommand <= e.command /\ (e.active => s.activeCommand < e.command)
    BY <1>1 DEF Over
  <2>2. Book(s)[d].id # 0 /\ Book(s)[d].finished =>
          /\ s.activeCommand <= f.command /\ (f.active => s.activeCommand < f.command)
          /\ \A i \in DOMAIN words : s.activeCommand < words[i].command
    BY <1>2, <1>3, <1>4, <1>5, <2>1
  <2> QED
    BY <1>1, <1>2, <2>2, OverMore
<1> QED
  BY <1>8, <1>9, <1>10, <1>11

LEMMA ReadNoStray ==
  ASSUME NEW s, NEW d \in Drones, NEW e, NEW c, NEW rest, NEW told,
         Oldest(s, d, e, c, rest, told),
         NEW f \in E!Memory, NEW words, Reads(d, c, e, f, words)
  PROVE  NoStray(s, d, f, rest)
<1> DEFINE under == rest \cup {c}
<1>1. NoStray(s, d, e, under)
  BY DEF Oldest, Agreed
<1>2. /\ c.command \in Nat
      /\ \A b \in rest : b.command \in Nat /\ c.command < b.command
  BY OldestFacts, Zenon
<1>3. ASSUME NEW k \in Nat, NEW m, NEW r, NEW id, Followed(s, d, under, k, m, r, id),
             c.command <= k \/ ~Ends(c, d, m, r)
      PROVE  Followed(s, d, rest, k, m, r, id)
  <2>1. CASE Expected(s, d, k, m, r, id)
    BY <2>1 DEF Followed
  <2>2. ASSUME NEW x \in under, k < x.command, Ends(x, d, m, r)
        PROVE  Followed(s, d, rest, k, m, r, id)
    <3>1. x # c
      BY <1>2, <1>3, <2>2
    <3> QED
      BY <2>2, <3>1 DEF Followed
  <2> QED
    BY <1>3, <2>1, <2>2 DEF Followed
<1>4. ASSUME NEW b \in rest, Carries(b, d)
      PROVE  Followed(s, d, rest, b.command, b.mission, b.revision, b.orders[d].id)
  <2>1. Followed(s, d, under, b.command, b.mission, b.revision, b.orders[d].id)
    BY <1>1, <1>4 DEF NoStray
  <2>2. c.command <= b.command
    BY <1>2
  <2> QED
    BY <1>2, <1>3, <2>1, <2>2
<1>5. ASSUME f.active, ~f.cancel
      PROVE  Followed(s, d, rest, f.command, f.mission, f.revision, f.route)
  <2>1. CASE Takes(d, c, e, f, words)
    <3>1. /\ Carries(c, d) /\ f.route = c.orders[d].id
          /\ f.command = c.command /\ f.mission = c.mission /\ f.revision = c.revision
      BY <2>1, TakesIs
    <3>2. Followed(s, d, under, c.command, c.mission, c.revision, c.orders[d].id)
      BY <1>1, <3>1 DEF NoStray
    <3>3. c.command <= c.command
      BY <1>2
    <3> QED
      BY <1>2, <1>3, <3>1, <3>2, <3>3
  <2>2. CASE HaltedBy(d, c, e, f, words)
    BY <1>5, <2>2, HaltedIs
  <2>3. CASE f = e /\ (Ends(c, d, e.mission, e.revision) => ~e.active)
    <3>1. Followed(s, d, under, e.command, e.mission, e.revision, e.route)
      BY <1>1, <1>5, <2>3 DEF NoStray
    <3>2. e.command \in Nat
      BY OldestFacts, Zenon
    <3> QED
      BY <1>3, <1>5, <2>3, <3>1, <3>2
  <2> QED
    BY <2>1, <2>2, <2>3, Outcomes
<1> QED
  BY <1>4, <1>5 DEF NoStray

LEMMA ReadLoyal ==
  ASSUME NEW s, NEW d \in Drones, NEW e, NEW c, NEW rest, NEW told,
         Oldest(s, d, e, c, rest, told),
         NEW f \in E!Memory, NEW words \in Seq(Feedbacks), Reads(d, c, e, f, words)
  PROVE  Loyal(s, d, f, rest, told \o words)
<1> DEFINE under == rest \cup {c}
           route == Book(s)[d]
<1>1. Loyal(s, d, e, under, told) /\ Sensible(s, d, e, under)
  BY DEF Oldest, Agreed
<1>2. /\ s \in Memory /\ e.command \in Nat /\ c.command \in Nat /\ e.mission \in Nat
      /\ c.mission \in Nat /\ e.command < c.command /\ f.command \in {e.command, c.command}
      /\ e.command <= f.command /\ f.command <= c.command /\ told \in Seq(Feedbacks)
  BY OldestFacts
<1>3. s.activeCommand \in Nat
  BY <1>2, Counters
<1>4. \/ Takes(d, c, e, f, words)
      \/ HaltedBy(d, c, e, f, words) /\ words = <<>>
      \/ f = e /\ words = <<>> /\ (Carries(c, d) => E!Stale(e, c))
  BY Outcomes
<1>5. CASE route.id = 0
  BY <1>5 DEF Loyal
<1>6. CASE route.id # 0
  <2>1. /\ \A b \in rest :
             s.activeCommand < b.command => b.kind \in HomeKinds /\ b.orders[d].id = 0
        /\ \A b \in rest : b.command = s.activeCommand =>
             /\ b.kind = "EXECUTE" /\ b.orders[d].id = route.id
             /\ b.mission = s.activeMission /\ b.revision = s.activeRevision
    BY <1>1, <1>6 DEF Loyal
  <2>2. /\ s.activeCommand < c.command => c.kind \in HomeKinds /\ c.orders[d].id = 0
        /\ c.command = s.activeCommand =>
             /\ c.kind = "EXECUTE" /\ c.orders[d].id = route.id
             /\ c.mission = s.activeMission /\ c.revision = s.activeRevision
        /\ s.activeCommand <= e.command =>
             /\ e.command = s.activeCommand
             /\ e.mission = s.activeMission /\ e.revision = s.activeRevision
             /\ \/ e.active /\ e.route = route.id
                \/ route.finished
                \/ TellsEnd(told, s.activeCommand, s.activeMission, s.activeRevision, route.id)
        /\ s.phase = "IDLE" \/ route.accepted => s.activeCommand <= e.command
    BY <1>1, <1>6 DEF Loyal
  <2>3. s.phase = "IDLE" \/ route.accepted => s.activeCommand <= f.command
    BY <1>2, <1>3, <2>2
  <2>4. ASSUME s.activeCommand <= f.command
        PROVE  /\ f.command = s.activeCommand
               /\ f.mission = s.activeMission /\ f.revision = s.activeRevision
               /\ \/ f.active /\ f.route = route.id
                  \/ route.finished
                  \/ TellsEnd(told \o words, s.activeCommand, s.activeMission,
                              s.activeRevision, route.id)
    <3>1. CASE s.activeCommand < c.command
      <4>1. c.kind \in HomeKinds /\ ~Carries(c, d) /\ e.mission < c.mission
        BY <1>1, <2>2, <3>1 DEF Carries, Sensible
      <4>2. ~Ends(c, d, e.mission, e.revision)
        BY <1>2, <4>1, KindsDiffer DEF Ends
      <4>3. f = e
        BY <1>4, <4>1, <4>2, TakesIs, HaltedIs
      <4>4. TellsEnd(told, s.activeCommand, s.activeMission, s.activeRevision, route.id) =>
              TellsEnd(told \o words, s.activeCommand, s.activeMission, s.activeRevision,
                       route.id)
        BY <1>2, TellsMore
      <4> QED
        BY <2>2, <2>4, <4>3, <4>4
    <3>2. CASE c.command = s.activeCommand
      <4>1. Carries(c, d)
        BY <1>6, <2>2, <3>2 DEF Carries, ExecuteKinds
      <4>2. f # e
        BY <1>2, <2>4, <3>2
      <4>3. Takes(d, c, e, f, words)
        BY <1>4, <4>1, <4>2, HaltedIs
      <4> QED
        BY <2>2, <3>2, <4>3, TakesIs
    <3>3. CASE c.command < s.activeCommand
      BY <1>2, <1>3, <2>4, <3>3
    <3> QED
      BY <1>2, <1>3, <3>1, <3>2, <3>3
  <2> QED
    BY <2>1, <2>3, <2>4 DEF Loyal
<1> QED
  BY <1>5, <1>6

LEMMA ReadHomeBound ==
  ASSUME NEW s, NEW d \in Drones, NEW e, NEW c, NEW rest, NEW told,
         Oldest(s, d, e, c, rest, told),
         NEW f \in E!Memory, NEW words \in Seq(Feedbacks), Reads(d, c, e, f, words)
  PROVE  HomeBound(s, d, f, rest, told \o words)
<1> DEFINE under == rest \cup {c}
           a == s.aux[d]
           Way(x, q) ==
             \/ x.active /\ x.command = a.command /\ x.mission = a.mission
                /\ x.revision = 1 /\ x.route = a.id
             \/ TellsEnd(q, a.command, a.mission, 1, a.id)
           Coming(cs) == \E b \in cs : /\ b.kind \in HomeKinds /\ b.command = a.command
                                       /\ b.mission = a.mission /\ b.orders[d].id = a.id
<1>1. HomeBound(s, d, e, under, told) /\ Sensible(s, d, e, under)
  BY DEF Oldest, Agreed
<1>2. /\ s \in Memory /\ e.command \in Nat /\ c.command \in Nat /\ e.mission \in Nat
      /\ c.mission \in Nat /\ e.command < c.command /\ told \in Seq(Feedbacks)
  BY OldestFacts
<1>4. \/ Takes(d, c, e, f, words)
      \/ HaltedBy(d, c, e, f, words) /\ words = <<>>
      \/ f = e /\ words = <<>> /\ (Carries(c, d) => E!Stale(e, c))
  BY Outcomes
<1>5. CASE a.id = 0
  BY <1>5 DEF HomeBound
<1>6. CASE a.id # 0
  <2>1. /\ \A b \in under : a.command < b.command =>
             b.kind \notin FlightKinds /\ ~Carries(b, d) /\ b.mission # a.mission
        /\ Coming(under) \/ Way(e, told)
    BY <1>1, <1>6 DEF HomeBound
  <2>2. CASE Coming(rest)
    BY <2>1, <2>2 DEF HomeBound
  <2>3. CASE /\ c.kind \in HomeKinds /\ c.command = a.command
             /\ c.mission = a.mission /\ c.orders[d].id = a.id
    <3>1. Carries(c, d) /\ c.revision = 1 /\ e.mission < c.mission
      BY <1>1, <1>6, <2>3, KindsDiffer DEF Carries, Sensible
    <3>2. ~E!Stale(e, c)
      BY <1>2, <3>1 DEF E!Stale
    <3>3. Takes(d, c, e, f, words)
      BY <1>4, <3>1, <3>2, HaltedIs
    <3>4. Way(f, told \o words)
      BY <2>3, <3>1, <3>3, TakesIs
    <3> QED
      BY <2>1, <3>4 DEF HomeBound
  <2>4. CASE /\ e.active /\ e.command = a.command /\ e.mission = a.mission
             /\ e.revision = 1 /\ e.route = a.id
    <3>1. c.kind \notin FlightKinds /\ ~Carries(c, d) /\ c.mission # e.mission
      BY <1>2, <2>1, <2>4
    <3>2. ~Ends(c, d, e.mission, e.revision)
      BY <3>1 DEF Ends
    <3>3. f = e
      BY <1>4, <3>1, <3>2, TakesIs, HaltedIs
    <3> QED
      BY <2>1, <2>4, <3>3 DEF HomeBound
  <2>5. CASE TellsEnd(told, a.command, a.mission, 1, a.id)
    <3>1. TellsEnd(told \o words, a.command, a.mission, 1, a.id)
      BY <1>2, <2>5, TellsMore
    <3> QED
      BY <2>1, <3>1 DEF HomeBound
  <2> QED
    BY <2>1, <2>2, <2>3, <2>4, <2>5
<1> QED
  BY <1>5, <1>6

LEMMA ReadSteady ==
  ASSUME NEW s, NEW d \in Drones, NEW e, NEW c, NEW rest, NEW told,
         Oldest(s, d, e, c, rest, told),
         NEW f \in E!Memory, NEW words, Reads(d, c, e, f, words)
  PROVE  Steady(s, d, f, rest)
<1> DEFINE under == rest \cup {c}
<1>1. Steady(s, d, e, under) /\ Sensible(s, d, e, under)
  BY DEF Oldest, Agreed
<1>2. /\ c.command \in Nat
      /\ \A b \in rest : b.command \in Nat /\ c.command < b.command
  BY OldestFacts
<1>3. \A b, x \in rest :
        /\ Carries(b, d) /\ b.mission = s.activeMission /\ b.orders[d].id \in Live(s, d)
        /\ Stopping(s, d, x)
        => x.command < b.command
  BY <1>1 DEF Steady
<1>4. CASE Takes(d, c, e, f, words)
  <2>1. /\ Carries(c, d) /\ f.active /\ f.route = c.orders[d].id /\ f.mission = c.mission
    BY <1>4, TakesIs
  <2>2. \/ ~f.cancel /\ f.purpose = c.kind
        \/ /\ e.active /\ e.mission = c.mission /\ e.route = c.orders[d].id
           /\ f.cancel = e.cancel /\ f.purpose = e.purpose
    BY <1>4 DEF Takes
  <2>3. f.route < s.nextRoute
    BY <1>1, <2>1 DEF Sensible
  <2>4. f.purpose \in HomeKinds => f.mission # s.activeMission
    BY <1>1, <2>1, <2>2 DEF Sensible, Steady
  <2>5. ASSUME f.mission = s.activeMission, f.route \in Live(s, d)
        PROVE  ~f.cancel /\ \A x \in rest : ~Stopping(s, d, x)
    <3>1. ~f.cancel
      BY <1>1, <2>1, <2>2, <2>5 DEF Steady
    <3>2. ASSUME NEW x \in rest, Stopping(s, d, x)
          PROVE  FALSE
      <4>1. x.command < c.command
        BY <1>1, <2>1, <2>5, <3>2, Zenon DEF Steady
      <4> QED
        BY <1>2, <4>1
    <3> QED
      BY <3>1, <3>2
  <2> QED
    BY <1>3, <2>3, <2>4, <2>5 DEF Steady
<1>5. CASE HaltedBy(d, c, e, f, words)
  <2>1. /\ ~Carries(c, d) /\ Ends(c, d, e.mission, e.revision) /\ f.mission = e.mission
        /\ f.route = e.route /\ f.active = e.active /\ f.purpose = e.purpose
    BY <1>5, HaltedIs
  <2>2. ~(f.active /\ f.mission = s.activeMission /\ f.route \in Live(s, d))
    BY <1>1, <2>1 DEF Steady, Stopping, Ends
  <2> QED
    BY <1>1, <1>3, <2>1, <2>2 DEF Steady
<1>6. CASE f = e
  BY <1>1, <1>6 DEF Steady
<1>7. \/ Takes(d, c, e, f, words) \/ HaltedBy(d, c, e, f, words) \/ f = e
  BY Outcomes
<1> QED
  BY <1>4, <1>5, <1>6, <1>7

LEMMA ReadAgrees ==
  ASSUME NEW s, NEW d \in Drones, NEW e, NEW c, NEW rest, NEW told,
         Agreed(s, d, e, rest \cup {c}, told), \A b \in rest : c.command < b.command,
         NEW f \in E!Memory, NEW words \in Seq(Feedbacks), Reads(d, c, e, f, words),
         \A i \in DOMAIN words : words[i].drone = d
  PROVE  Agreed(s, d, f, rest, told \o words)
<1>1. Oldest(s, d, e, c, rest, told)
  BY DEF Oldest
<1>2. /\ Dated(s, d, f, rest, told \o words) /\ Truthful(f, told \o words)
      /\ Sensible(s, d, f, rest) /\ Over(s, d, f, told \o words)
  BY <1>1, ReadRegular
<1>3. NoStray(s, d, f, rest) /\ Steady(s, d, f, rest)
  BY <1>1, ReadNoStray, ReadSteady
<1>4. Loyal(s, d, f, rest, told \o words) /\ HomeBound(s, d, f, rest, told \o words)
  BY <1>1, ReadLoyal, ReadHomeBound
<1> QED
  BY <1>2, <1>3, <1>4 DEF Agreed

-----------------------------------------------------------------------------
(* The drone flies on, or comes to the end of its route.                   *)

Flown(s, d, e, under, told, f, words) ==
  /\ Agreed(s, d, e, under, told)
  /\ f \in E!Memory /\ words \in Seq(Feedbacks)
  /\ \A i \in DOMAIN words : words[i].drone = d
  /\ FliesOn(e, f, words) \/ ComesToEnd(d, e, f, words)

LEMMA FlownIs ==
  ASSUME NEW s, NEW d, NEW e, NEW under, NEW told, NEW f, NEW words,
         Flown(s, d, e, under, told, f, words)
  PROVE  /\ s \in Memory /\ e \in E!Memory /\ f \in E!Memory
         /\ told \in Seq(Feedbacks) /\ words \in Seq(Feedbacks)
         /\ f.command = e.command /\ f.mission = e.mission /\ f.revision = e.revision
         /\ f.route = e.route /\ (f.active => e.active)
<1>1. Stamp(f) = Stamp(e) /\ f.route = e.route /\ (f.active => e.active)
  BY DEF Flown, FliesOn, ComesToEnd, SameRoute
<1> QED
  BY <1>1, StampIs DEF Flown, Agreed, Dated

LEMMA FlownOn ==
  ASSUME NEW s, NEW d, NEW e, NEW under, NEW told, NEW f, NEW words,
         Flown(s, d, e, under, told, f, words), f.active
  PROVE  FliesOn(e, f, words)
BY DEF Flown, ComesToEnd

(* All it tells is of its route; the end is told last.                     *)
LEMMA FlownWords ==
  ASSUME NEW s, NEW d, NEW e, NEW under, NEW told, NEW f, NEW words,
         Flown(s, d, e, under, told, f, words)
  PROVE  /\ words # <<>> => e.active
         /\ \A i \in DOMAIN words :
              /\ words[i].command = e.command /\ words[i].mission = e.mission
              /\ words[i].revision = e.revision /\ words[i].route = e.route
              /\ f.active => words[i].state \notin Terminal
         /\ \A i, j \in DOMAIN words : i < j => words[i].state \notin Terminal
         /\ e.active /\ ~f.active => \E i \in DOMAIN words : words[i].state \in Terminal
<1>1. CASE FliesOn(e, f, words)
  BY <1>1, StampIs DEF FliesOn, Terminal, Failures
<1>2. CASE ComesToEnd(d, e, f, words)
  <2>1. PICK state \in Terminal, n \in Nat :
          words = <<Feedback(e.command, e.mission, e.revision, d, e.route, state, n)>>
    BY <1>2 DEF ComesToEnd
  <2> DEFINE w == Feedback(e.command, e.mission, e.revision, d, e.route, state, n)
  <2>2. /\ w.command = e.command /\ w.mission = e.mission /\ w.revision = e.revision
        /\ w.route = e.route /\ w.state \in Terminal
    BY DEF Feedback
  <2> HIDE DEF w
  <2>3. words = <<w>>
    BY <2>1 DEF w
  <2>4. DOMAIN words = {1} /\ words[1] = w
    BY <2>3
  <2>5. e.active /\ ~f.active
    BY <1>2 DEF ComesToEnd
  <2> QED
    BY <2>2, <2>4, <2>5
<1> QED
  BY <1>1, <1>2 DEF Flown

LEMMA FlownRegular ==
  ASSUME NEW s, NEW d \in Drones, NEW e, NEW under, NEW told, NEW f, NEW words,
         Flown(s, d, e, under, told, f, words)
  PROVE  /\ Dated(s, d, f, under, told \o words) /\ Truthful(f, told \o words)
         /\ Sensible(s, d, f, under) /\ Over(s, d, f, told \o words)
<1>1. /\ s \in Memory /\ e \in E!Memory /\ f \in E!Memory
      /\ told \in Seq(Feedbacks) /\ words \in Seq(Feedbacks)
      /\ f.command = e.command /\ f.mission = e.mission /\ (f.active => e.active)
  BY FlownIs
<1>8. /\ words # <<>> => e.active
      /\ \A i \in DOMAIN words :
           words[i].command = e.command /\ (f.active => words[i].state \notin Terminal)
      /\ \A i, j \in DOMAIN words : i < j => words[i].state \notin Terminal
  BY FlownWords
<1>9. Past(s, Stamp(f)) /\ \A i \in DOMAIN words : Past(s, Stamp(words[i]))
  BY FlyingDates, Zenon DEF Flown, Agreed, Dated
<1>2. /\ Dated(s, d, e, under, told) /\ Truthful(e, told) /\ Sensible(s, d, e, under)
      /\ Over(s, d, e, told) /\ \A i \in DOMAIN words : words[i].drone = d
  BY DEF Flown, Agreed
<1>3. e.command \in Nat /\ s.activeCommand \in Nat
  BY <1>1, MemoryFields, Counters
<1>4. Dated(s, d, f, under, told \o words)
  <2>1. \A c \in under : f.command < c.command
    BY <1>1, <1>2 DEF Dated
  <2> QED
    BY <1>1, <1>2, <1>9, <2>1, ToldMore
<1>5. Truthful(f, told \o words)
  <2>1. \A i \in DOMAIN told : told[i].state \in Terminal /\ f.active => told[i].command < f.command
    BY <1>1, <1>2 DEF Truthful
  <2>2. \A i \in DOMAIN words :
          /\ words[i].command <= f.command
          /\ words[i].state \in Terminal /\ f.active => words[i].command < f.command
    BY <1>1, <1>3, <1>8
  <2>3. ASSUME NEW i \in DOMAIN told, NEW j \in DOMAIN words, told[i].state \in Terminal
        PROVE  told[i].command < words[j].command
    <3>1. e.active
      BY <1>8, <2>3, Silence
    <3> QED
      BY <1>2, <1>8, <2>3, <3>1 DEF Truthful
  <2>4. e.command <= f.command
    BY <1>1, <1>3
  <2> QED
    BY <1>1, <1>2, <1>8, <2>1, <2>2, <2>3, <2>4, TruthfulGrows
<1>6. Sensible(s, d, f, under)
  BY <1>1, <1>2 DEF Sensible
<1>7. Over(s, d, f, told \o words)
  <2>1. Book(s)[d].id # 0 /\ Book(s)[d].finished =>
          s.activeCommand <= e.command /\ (e.active => s.activeCommand < e.command)
    BY <1>2 DEF Over
  <2>2. Book(s)[d].id # 0 /\ Book(s)[d].finished =>
          /\ s.activeCommand <= f.command /\ (f.active => s.activeCommand < f.command)
          /\ \A i \in DOMAIN words : s.activeCommand < words[i].command
    BY <1>1, <1>8, <2>1, Silence
  <2> QED
    BY <1>1, <1>2, <2>2, OverMore
<1> QED
  BY <1>4, <1>5, <1>6, <1>7

(* The end of the route it flew is told.                                   *)
LEMMA FlownTells ==
  ASSUME NEW s, NEW d \in Drones, NEW e, NEW under, NEW told, NEW f, NEW words,
         Flown(s, d, e, under, told, f, words), e.active, ~f.active
  PROVE  TellsEnd(told \o words, e.command, e.mission, e.revision, e.route)
<1> DEFINE q == told \o words
           m == Len(told)
<1>1. /\ told \in Seq(Feedbacks) /\ words \in Seq(Feedbacks)
  BY FlownIs
<1>5. /\ \A i \in DOMAIN words :
           /\ words[i].command = e.command /\ words[i].mission = e.mission
           /\ words[i].revision = e.revision /\ words[i].route = e.route
      /\ \E i \in DOMAIN words : words[i].state \in Terminal
  BY FlownWords
<1>2. \A i \in DOMAIN words : i + m \in DOMAIN q /\ q[i + m] = words[i]
  BY <1>1, Joined
<1> HIDE DEF q, m
<1>3. PICK i \in DOMAIN words : words[i].state \in Terminal
  BY <1>5
<1>4. TellsEnd(q, e.command, e.mission, e.revision, e.route)
  BY <1>2, <1>3, <1>5 DEF TellsEnd
<1> QED
  BY <1>4 DEF q

LEMMA FlownLoyal ==
  ASSUME NEW s, NEW d \in Drones, NEW e, NEW under, NEW told, NEW f, NEW words,
         Flown(s, d, e, under, told, f, words)
  PROVE  Loyal(s, d, f, under, told \o words)
<1> DEFINE route == Book(s)[d]
           q == told \o words
           Ended(p) == TellsEnd(p, s.activeCommand, s.activeMission, s.activeRevision, route.id)
<1>1. /\ told \in Seq(Feedbacks) /\ words \in Seq(Feedbacks) /\ f.command = e.command
      /\ f.mission = e.mission /\ f.revision = e.revision /\ f.route = e.route
  BY FlownIs
<1>2. Loyal(s, d, e, under, told)
  BY DEF Flown, Agreed
<1>3. Ended(told) => Ended(q)
  BY <1>1, TellsMore
<1>4. ASSUME e.active, ~f.active, e.command = s.activeCommand, e.mission = s.activeMission,
             e.revision = s.activeRevision, e.route = route.id
      PROVE  Ended(q)
  <2>1. TellsEnd(q, e.command, e.mission, e.revision, e.route)
    BY <1>4, FlownTells
  <2> QED
    BY <1>4, <2>1
<1> HIDE DEF q
<1>5. Loyal(s, d, f, under, q)
  BY <1>1, <1>2, <1>3, <1>4 DEF Loyal
<1> QED
  BY <1>5 DEF q

LEMMA FlownHomeBound ==
  ASSUME NEW s, NEW d \in Drones, NEW e, NEW under, NEW told, NEW f, NEW words,
         Flown(s, d, e, under, told, f, words)
  PROVE  HomeBound(s, d, f, under, told \o words)
<1> DEFINE a == s.aux[d]
           q == told \o words
           Ended(p) == TellsEnd(p, a.command, a.mission, 1, a.id)
<1>1. /\ told \in Seq(Feedbacks) /\ words \in Seq(Feedbacks) /\ f.command = e.command
      /\ f.mission = e.mission /\ f.revision = e.revision /\ f.route = e.route
  BY FlownIs
<1>2. HomeBound(s, d, e, under, told)
  BY DEF Flown, Agreed
<1>3. Ended(told) => Ended(q)
  BY <1>1, TellsMore
<1>4. ASSUME e.active, ~f.active, e.command = a.command, e.mission = a.mission,
             e.revision = 1, e.route = a.id
      PROVE  Ended(q)
  <2>1. TellsEnd(q, e.command, e.mission, e.revision, e.route)
    BY <1>4, FlownTells
  <2> QED
    BY <1>4, <2>1
<1> HIDE DEF q
<1>5. HomeBound(s, d, f, under, q)
  BY <1>1, <1>2, <1>3, <1>4 DEF HomeBound
<1> QED
  BY <1>5 DEF q

LEMMA FlyAgrees ==
  ASSUME NEW s, NEW d \in Drones, NEW e, NEW under, NEW told, NEW f, NEW words,
         Flown(s, d, e, under, told, f, words)
  PROVE  Agreed(s, d, f, under, told \o words)
<1>1. /\ e \in E!Memory /\ f \in E!Memory
      /\ f.command = e.command /\ f.mission = e.mission /\ f.revision = e.revision
      /\ f.route = e.route /\ (f.active => e.active)
  BY FlownIs
<1>5. f.active => /\ f.purpose = e.purpose /\ (e.cancel => f.cancel)
                  /\ f.cancel # e.cancel => e.purpose \in HomeKinds
  BY FlownOn DEF FliesOn
<1>2. NoStray(s, d, e, under) /\ Steady(s, d, e, under) /\ Complete(s, d)
  BY DEF Flown, Agreed
<1>3. NoStray(s, d, f, under)
  BY <1>1, <1>2, <1>5 DEF NoStray
<1>4. Steady(s, d, f, under)
  <2>1. f.active /\ f.mission = s.activeMission /\ f.route \in Live(s, d) =>
          ~f.cancel /\ \A c \in under : ~Stopping(s, d, c)
    <3>1. e.active /\ e.purpose \in HomeKinds => e.mission # s.activeMission
      BY <1>2 DEF Steady
    <3>2. e.active /\ e.mission = s.activeMission /\ e.route \in Live(s, d) =>
            ~e.cancel /\ \A c \in under : ~Stopping(s, d, c)
      BY <1>2 DEF Steady
    <3>3. f.cancel \in BOOLEAN /\ e.cancel \in BOOLEAN
      BY <1>1, MemoryFields
    <3> QED
      BY <1>1, <1>5, <3>1, <3>2, <3>3
  <2> QED
    BY <1>1, <1>2, <1>5, <2>1 DEF Steady
<1> QED
  BY <1>2, <1>3, <1>4, FlownRegular, FlownLoyal, FlownHomeBound DEF Agreed

-----------------------------------------------------------------------------
(* The books of the coordinator agree with every drone.                    *)

Held(q) == {q[i] : i \in DOMAIN q}

UnderWay(routes, flights) == Held(routes) \cup Held(flights)

AgreementInvariant ==
  /\ MissionInvariant
  /\ \A d \in Drones :
       Agreed(co, d, ex[d], UnderWay(missionInbox[d], flightInbox[d]), reports[d])

LEMMA AgreedPrimed ==
  /\ MissionInvariant'
  /\ \A d \in Drones :
       Agreed(co', d, ex'[d], UnderWay(missionInbox'[d], flightInbox'[d]), reports'[d])
  => AgreementInvariant'
BY Zenon DEF AgreementInvariant, Agreed, UnderWay, Held, Dated, Truthful, Sensible, NoStray, Over,
       Complete, Loyal, HomeBound, Steady, Followed, Expected, TellsEnd, Stopping, Live, Book,
       Past, Stamp, Version, ActiveVersion, ForDrone, ForMissionReader, ForFlightReader,
       Carries, Ends, Terminal, Failures, Memory, E!Memory, Broadcasts, Feedbacks

LEMMA HeldGrows ==
  ASSUME NEW T, NEW q \in Seq(T), NEW out \in Seq(T), NEW kept \in SUBSET DOMAIN out
  PROVE  Held(q \o Picked(out, kept)) = Held(q) \cup {out[i] : i \in kept}
<1> DEFINE p == Picked(out, kept)
           u == q \o p
           m == Len(q)
<1>1. /\ p \in Seq(T)
      /\ \A n \in DOMAIN p : Nth(kept, n) \in kept /\ p[n] = out[Nth(kept, n)]
      /\ \A i \in kept : \E n \in DOMAIN p : p[n] = out[i]
  BY PickedProperties
<1> HIDE DEF p
<1>2. /\ DOMAIN u = 1..(m + Len(p)) /\ m \in Nat /\ Len(p) \in Nat
      /\ \A i \in 1..m : u[i] = q[i]
      /\ \A i \in (m + 1)..(m + Len(p)) : u[i] = p[i - m]
      /\ DOMAIN q = 1..m /\ DOMAIN p = 1..Len(p)
  BY <1>1, ConcatProperties, LenProperties
<1> HIDE DEF u, m
<1>3. \A i \in DOMAIN u : \/ i \in DOMAIN q /\ u[i] = q[i]
                          \/ i - m \in DOMAIN p /\ u[i] = p[i - m]
  BY <1>2
<1>4. \A i \in DOMAIN q : i \in DOMAIN u /\ u[i] = q[i]
  BY <1>2
<1>5. ASSUME NEW n \in DOMAIN p
      PROVE  n + m \in DOMAIN u /\ u[n + m] = p[n]
  <2>1. n + m \in (m + 1)..(m + Len(p)) /\ (n + m) - m = n
    BY <1>2
  <2> QED
    BY <1>2, <2>1
<1>6. ASSUME NEW x \in Held(u)
      PROVE  x \in Held(q) \cup {out[i] : i \in kept}
  <2>1. PICK i \in DOMAIN u : x = u[i]
    BY DEF Held
  <2> QED
    BY <1>1, <1>3, <2>1 DEF Held
<1>7. Held(q) \subseteq Held(u)
  BY <1>4 DEF Held
<1>8. ASSUME NEW i \in kept
      PROVE  out[i] \in Held(u)
  BY <1>1, <1>5 DEF Held
<1>9. Held(u) = Held(q) \cup {out[i] : i \in kept}
  BY <1>6, <1>7, <1>8
<1> QED
  BY <1>9 DEF u, p

LEMMA Delivered ==
  ASSUME MissionTypes, co' \in Memory, Deliver(co'.out), NEW d \in Drones
  PROVE  UnderWay(missionInbox'[d], flightInbox'[d]) =
           UnderWay(missionInbox[d], flightInbox[d]) \cup Addressed(co', d)
<1> DEFINE routes == {i \in DOMAIN co'.out : ForMissionReader(co'.out[i], d)}
           flights == {i \in DOMAIN co'.out : ForFlightReader(co'.out[i], d)}
<1>1. /\ missionInbox'[d] = missionInbox[d] \o Picked(co'.out, routes)
      /\ flightInbox'[d] = flightInbox[d] \o Picked(co'.out, flights)
  BY Zenon DEF Deliver
<1>2. /\ co'.out \in Seq(Broadcasts)
      /\ missionInbox[d] \in Seq(Broadcasts) /\ flightInbox[d] \in Seq(Broadcasts)
  BY BooksField DEF MissionTypes
<1>3. Addressed(co', d) = {co'.out[i] : i \in routes} \cup {co'.out[i] : i \in flights}
  BY DEF Addressed, Sent, ForDrone
<1>4. routes \in SUBSET DOMAIN co'.out /\ flights \in SUBSET DOMAIN co'.out
  OBVIOUS
<1> HIDE DEF routes, flights
<1>5. Held(missionInbox'[d]) = Held(missionInbox[d]) \cup {co'.out[i] : i \in routes}
  BY <1>1, <1>2, <1>4, HeldGrows
<1>6. Held(flightInbox'[d]) = Held(flightInbox[d]) \cup {co'.out[i] : i \in flights}
  BY <1>1, <1>2, <1>4, HeldGrows
<1> QED
  BY <1>3, <1>5, <1>6 DEF UnderWay

LEMMA BeginAgrees ==
  ASSUME co \in Memory, NEW d \in Drones, NEW e, NEW under, NEW told,
         Agreed(co, d, e, under, told)
  PROVE  Agreed(Begin, d, e, under \cup Addressed(Begin, d), told)
<1> DEFINE s == Begin
<1>1. /\ s \in Memory /\ SameBooks(co, s) /\ SameVersions(co, s)
      /\ s.planned = co.planned /\ s.excluded = co.excluded
      /\ s.nextCommand = co.nextCommand /\ s.out = <<>>
  BY BeginSame
<1> HIDE DEF s
<1>2. Addressed(s, d) = {}
  BY <1>1, EmptySeq DEF Addressed, Sent
<1>3. Book(s) = Book(co) /\ Live(s, d) = Live(co, d)
  BY <1>1 DEF Book, Live, SameBooks
<1>4. \A x : Past(s, x) <=> Past(co, x)
  BY <1>1 DEF Past, SameBooks, SameVersions, ActiveVersion
<1>5. /\ s.aux = co.aux /\ s.activeCommand = co.activeCommand /\ s.phase = co.phase
      /\ s.activeMission = co.activeMission /\ s.activeRevision = co.activeRevision
      /\ s.nextRoute = co.nextRoute
  BY <1>1 DEF SameBooks, SameVersions
<1>6. Dated(s, d, e, under, told)
  BY <1>1, <1>4 DEF Agreed, Dated
<1>7. \A k, m, r, id : Followed(s, d, under, k, m, r, id) <=> Followed(co, d, under, k, m, r, id)
  BY <1>3, <1>5 DEF Followed, Expected
<1>8. NoStray(s, d, e, under) /\ Sensible(s, d, e, under) /\ Over(s, d, e, told)
  BY <1>3, <1>5, <1>7 DEF Agreed, NoStray, Sensible, Over
<1>9. Complete(s, d) /\ Loyal(s, d, e, under, told) /\ HomeBound(s, d, e, under, told)
  BY <1>1, <1>3, <1>5 DEF Agreed, Complete, Loyal, HomeBound
<1>10. Steady(s, d, e, under)
  BY <1>3, <1>5 DEF Agreed, Steady, Stopping
<1>11. Agreed(s, d, e, under, told)
  BY <1>6, <1>8, <1>9, <1>10 DEF Agreed
<1>12. under \cup Addressed(s, d) = under
  BY <1>2
<1>13. Agreed(s, d, e, under \cup Addressed(s, d), told)
  BY <1>11, <1>12
<1> QED
  BY <1>13 DEF s

LEMMA CoordinateAgrees ==
  ASSUME AgreementInvariant, MissionInvariant',
         Coordinate(Operator) \/ Coordinate(Timer) \/ Coordinate(Reports)
  PROVE  AgreementInvariant'
<1>1. /\ Operator \/ Timer \/ Reports
      /\ Deliver(co'.out) /\ UNCHANGED <<ex, said>> /\ reports' = reports
  BY DEF Coordinate, droneVars
<1>2. /\ Good(co) /\ Good(Begin) /\ Counted(Begin) /\ co \in Memory /\ MissionTypes
  BY BeginIs DEF AgreementInvariant
<1>3. co' \in Memory
  BY <1>1, <1>2, NextGood DEF Next, Good
<1>4. Chain(Begin, co') \/ SwitchedOn(Begin, co')
  BY <1>1, <1>2, CallbackChain
<1>5. ASSUME NEW d \in Drones
      PROVE  Agreed(co', d, ex'[d], UnderWay(missionInbox'[d], flightInbox'[d]), reports'[d])
  <2> DEFINE under == UnderWay(missionInbox[d], flightInbox[d])
  <2>1. Agreed(co, d, ex[d], under, reports[d])
    BY DEF AgreementInvariant
  <2>2. UnderWay(missionInbox'[d], flightInbox'[d]) = under \cup Addressed(co', d)
    BY <1>1, <1>2, <1>3, Delivered
  <2> HIDE DEF under
  <2>3. Agreed(Begin, d, ex[d], under \cup Addressed(Begin, d), reports[d])
    BY <1>2, <2>1, BeginAgrees
  <2>4. Agreed(co', d, ex[d], under \cup Addressed(co', d), reports[d])
    BY <1>2, <1>4, <2>3, ChainAgrees, SwitchedOnAgrees, Zenon
  <2> QED
    BY <1>1, <2>2, <2>4
<1> QED
  BY <1>5, AgreedPrimed

LEMMA HearFeedbackAgrees ==
  ASSUME AgreementInvariant, MissionInvariant', NEW d \in Drones, HearFeedback(d)
  PROVE  AgreementInvariant'
<1> DEFINE fb == Head(reports[d])
<1>1. /\ Good(co) /\ Good(Begin) /\ Counted(Begin) /\ Begin \in Memory /\ MissionTypes
      /\ co \in Memory /\ Begin.phase = co.phase /\ SameVersions(co, Begin)
  BY BeginIs DEF AgreementInvariant
<1>2. /\ reports[d] # <<>> /\ co' = FeedbackResult(Begin, fb)
      /\ Deliver(co'.out) /\ reports' = [reports EXCEPT ![d] = Tail(reports[d])]
      /\ UNCHANGED <<ex, said>>
  BY DEF HearFeedback, OnMissionFeedback, Become, droneVars
<1>3. \A x \in Drones :
        Agreed(co, x, ex[x], UnderWay(missionInbox[x], flightInbox[x]), reports[x])
  BY DEF AgreementInvariant
<1>4. /\ reports[d] \in Seq(Feedbacks)
      /\ \A i \in DOMAIN reports[d] : Past(co, Stamp(reports[d][i])) /\ reports[d][i].drone = d
  BY <1>3 DEF Agreed, Dated
<1>5. 1 \in DOMAIN reports[d] /\ fb = reports[d][1] /\ fb \in Feedbacks
  <2>1. Len(reports[d]) \in Nat /\ DOMAIN reports[d] = 1..Len(reports[d]) /\ Len(reports[d]) > 0
    BY <1>2, <1>4, LenProperties, EmptySeq
  <2> QED
    BY <1>2, <1>4, <2>1, HeadTailProperties, ElementOfSeq
<1>6. Past(co, Stamp(fb)) /\ fb.drone = d
  BY <1>4, <1>5
<1>7. Timely(Begin, fb)
  <2>1. Begin.nextMission = co.nextMission /\ Begin.nextCommand = co.nextCommand
    BY <1>1, BeginSame DEF SameVersions
  <2> HIDE DEF fb
  <2>2. Past(Begin, Stamp(fb))
    BY <1>1, <1>6, <2>1 DEF Past, ActiveVersion, SameVersions
  <2> QED
    BY <1>1, <1>5, <2>2, PastIsTimely
<1>8. co' \in Memory
  <2> HIDE DEF fb
  <2>1. Reported(Begin, fb, co')
    BY <1>2, <1>7 DEF Reported
  <2> QED
    BY <1>1, <1>5, <2>1, ReportedGood DEF Good
<1>9. ASSUME NEW x \in Drones
      PROVE  Agreed(co', x, ex'[x], UnderWay(missionInbox'[x], flightInbox'[x]), reports'[x])
  <2> DEFINE under == UnderWay(missionInbox[x], flightInbox[x])
             rest == IF x = fb.drone THEN Tail(reports[x]) ELSE reports[x]
  <2>1. UnderWay(missionInbox'[x], flightInbox'[x]) = under \cup Addressed(co', x)
    BY <1>1, <1>2, <1>8, Delivered
  <2>2. reports'[x] = rest
    BY <1>1, <1>2, <1>6 DEF MissionTypes
  <2>3. Agreed(co, x, ex[x], under, reports[x])
    BY <1>3
  <2>4. x = fb.drone => reports[x] # <<>> /\ Head(reports[x]) = fb
    BY <1>2, <1>6
  <2> HIDE DEF under, fb
  <2>5. Agreed(Begin, x, ex[x], under \cup Addressed(Begin, x), reports[x])
    BY <1>1, <2>3, BeginAgrees
  <2>6. Agreed(co', x, ex[x], under \cup Addressed(co', x), rest)
    <3> DEFINE s == Begin
               t == co'
    <3>1. /\ Good(s) /\ Counted(s) /\ Timely(s, fb) /\ fb \in Feedbacks
          /\ t \in Memory /\ t = FeedbackResult(s, fb)
          /\ Agreed(s, x, ex[x], under \cup Addressed(s, x), reports[x])
      BY <1>1, <1>2, <1>5, <1>7, <1>8, <2>5
    <3> HIDE DEF s, t, rest
    <3>2. Agreed(t, x, ex[x], under \cup Addressed(t, x),
                 IF x = fb.drone THEN Tail(reports[x]) ELSE reports[x])
      BY <2>4, <3>1, FeedbackAgrees, Zenon
    <3> QED
      BY <3>2 DEF t, rest
  <2> QED
    BY <1>2, <2>1, <2>2, <2>6
<1> QED
  BY <1>9, AgreedPrimed

(* A step of one drone.                                                    *)
LEMMA DroneAgrees ==
  ASSUME AgreementInvariant, MissionInvariant', NEW d \in Drones, UNCHANGED co,
         NEW f, NEW words, Acts(d, f, words), Report(d),
         NEW routes, missionInbox' = [missionInbox EXCEPT ![d] = routes],
         NEW flights, flightInbox' = [flightInbox EXCEPT ![d] = flights],
         Agreed(co, d, f, UnderWay(routes, flights), reports[d] \o words)
  PROVE  AgreementInvariant'
<1>1. /\ MissionTypes
      /\ \A x \in Drones :
           Agreed(co, x, ex[x], UnderWay(missionInbox[x], flightInbox[x]), reports[x])
  BY DEF AgreementInvariant, MissionInvariant
<1>2. ex' = [ex EXCEPT ![d] = f] /\ said' = [said EXCEPT ![d] = words]
  BY DEF Acts
<1>3. reports' = [reports EXCEPT ![d] = reports[d] \o words]
  BY <1>1, <1>2 DEF Report, MissionTypes
<1>4. ASSUME NEW x \in Drones
      PROVE  Agreed(co', x, ex'[x], UnderWay(missionInbox'[x], flightInbox'[x]), reports'[x])
  <2>1. CASE x = d
    <3>1. /\ ex'[x] = f /\ missionInbox'[x] = routes /\ flightInbox'[x] = flights
          /\ reports'[x] = reports[d] \o words
      BY <1>1, <1>2, <1>3, <2>1 DEF MissionTypes
    <3> QED
      BY <2>1, <3>1
  <2>2. CASE x # d
    <3>1. /\ ex'[x] = ex[x] /\ missionInbox'[x] = missionInbox[x]
          /\ flightInbox'[x] = flightInbox[x] /\ reports'[x] = reports[x]
      BY <1>1, <1>2, <1>3, <2>2 DEF MissionTypes
    <3> QED
      BY <1>1, <3>1
  <2> QED
    BY <2>1, <2>2
<1> QED
  BY <1>4, AgreedPrimed

(* The head of an inbox is read, and the rest of the commands are later.   *)
LEMMA HeadHeld ==
  ASSUME NEW s, NEW d, NEW e, NEW q, InOrder(s, d, e, q), q # <<>>
  PROVE  /\ Held(q) = {Head(q)} \cup Held(Tail(q))
         /\ \A b \in Held(Tail(q)) : Head(q).command < b.command
<1> DEFINE t == Tail(q)
           c == Head(q)
<1>1. /\ q \in Seq(Broadcasts) /\ t \in Seq(Broadcasts) /\ Len(t) = Len(q) - 1
      /\ \A i \in 1..Len(t) : t[i] = q[i + 1]
      /\ c = q[1]
  BY HeadTailProperties DEF InOrder
<1>2. /\ Len(q) \in Nat /\ DOMAIN q = 1..Len(q) /\ DOMAIN t = 1..Len(t)
      /\ Len(t) \in Nat /\ 1 \in DOMAIN q
  BY <1>1, LenProperties, EmptySeq
<1> HIDE DEF t, c
<1>3. \A i \in DOMAIN t : i + 1 \in DOMAIN q /\ 1 < i + 1 /\ t[i] = q[i + 1]
  BY <1>1, <1>2
<1>4. \A i \in DOMAIN q : i = 1 \/ (i - 1 \in DOMAIN t /\ q[i] = t[i - 1])
  <2> SUFFICES ASSUME NEW i \in DOMAIN q, i # 1
               PROVE  i - 1 \in DOMAIN t /\ q[i] = t[i - 1]
    OBVIOUS
  <2>1. i - 1 \in 1..Len(t) /\ (i - 1) + 1 = i
    BY <1>1, <1>2
  <2> QED
    BY <1>1, <1>2, <2>1
<1>5. Held(q) = {c} \cup Held(t)
  <2>1. Held(q) \subseteq {c} \cup Held(t)
    BY <1>1, <1>4 DEF Held
  <2>2. c \in Held(q) /\ Held(t) \subseteq Held(q)
    BY <1>1, <1>2, <1>3 DEF Held
  <2> QED
    BY <2>1, <2>2
<1>6. \A b \in Held(t) : c.command < b.command
  BY <1>1, <1>2, <1>3 DEF Held, InOrder
<1> QED
  BY <1>5, <1>6 DEF t, c

LEMMA ReadingAgrees ==
  ASSUME AgreementInvariant, MissionInvariant', NEW d \in Drones,
         ReadersInOrder, ReadMissionCommand(d) \/ ReadFlightCommand(d)
  PROVE  AgreementInvariant'
<1>1. /\ MissionTypes /\ ex[d] \in E!Memory
      /\ InOrder(co, d, ex[d], missionInbox[d]) /\ InOrder(co, d, ex[d], flightInbox[d])
      /\ Agreed(co, d, ex[d], UnderWay(missionInbox[d], flightInbox[d]), reports[d])
  BY DEF AgreementInvariant, MissionInvariant, MissionTypes, Kept
<1>2. ASSUME NEW inbox, InOrder(co, d, ex[d], inbox), inbox # <<>>,
             NEW other, InOrder(co, d, ex[d], other),
             \A i \in DOMAIN other : other[i].command > Head(inbox).command,
             Agreed(co, d, ex[d], Held(inbox) \cup Held(other), reports[d]),
             E!OnMissionCommand(d, Head(inbox)) \/ E!OnFlightCommand(d, Head(inbox))
      PROVE  \E f, words :
               /\ Acts(d, f, words)
               /\ Agreed(co, d, f, Held(Tail(inbox)) \cup Held(other), reports[d] \o words)
  <2> DEFINE c == Head(inbox)
             rest == Held(Tail(inbox)) \cup Held(other)
  <2>1. c \in Broadcasts /\ ForDrone(c, d)
    BY <1>2, NextRead
  <2>2. Held(inbox) = {c} \cup Held(Tail(inbox)) /\ \A b \in Held(Tail(inbox)) : c.command < b.command
    BY <1>2, HeadHeld
  <2>3. \A b \in Held(other) : c.command < b.command
    <3>1. \A i \in DOMAIN other : other[i] \in Broadcasts
      BY <1>2, ElementOfSeq, LenProperties DEF InOrder
    <3>2. ASSUME NEW i \in DOMAIN other
          PROVE  c.command < other[i].command
      <4>1. other[i].command \in Nat /\ c.command \in Nat
        BY <2>1, <3>1, BroadcastFields
      <4> QED
        BY <1>2, <4>1
    <3> QED
      BY <3>2 DEF Held
  <2>4. E!OnMissionCommand(d, c) \/ E!OnFlightCommand(d, c)
    BY <1>2
  <2>5. Held(inbox) \cup Held(other) = rest \cup {c} /\ \A b \in rest : c.command < b.command
    BY <2>2, <2>3
  <2> HIDE DEF c, rest
  <2>6. PICK f, words : Acts(d, f, words) /\ Reads(d, c, ex[d], f, words)
    BY <1>1, <2>1, <2>4, ReadingActs DEF MissionTypes
  <2>7. /\ f \in E!Memory /\ words \in Seq(Feedbacks)
        /\ \A i \in DOMAIN words : words[i].drone = d
    BY <2>6 DEF Acts
  <2>8. Agreed(co, d, ex[d], rest \cup {c}, reports[d])
    BY <1>2, <2>5, Zenon
  <2>9. Agreed(co, d, f, rest, reports[d] \o words)
    BY <2>5, <2>6, <2>7, <2>8, ReadAgrees
  <2> QED
    BY <2>6, <2>9 DEF rest
<1>3. CASE ReadMissionCommand(d)
  <2>1. PICK f, words :
          /\ Acts(d, f, words)
          /\ Agreed(co, d, f, Held(Tail(missionInbox[d])) \cup Held(flightInbox[d]),
                    reports[d] \o words)
    <3>1. /\ missionInbox[d] # <<>>
          /\ E!OnMissionCommand(d, Head(missionInbox[d]))
          /\ \A i \in DOMAIN flightInbox[d] :
               flightInbox[d][i].command > Head(missionInbox[d]).command
      BY <1>3 DEF ReadMissionCommand
    <3>2. Agreed(co, d, ex[d], Held(missionInbox[d]) \cup Held(flightInbox[d]), reports[d])
      BY <1>1 DEF UnderWay
    <3> QED
      BY <1>1, <1>2, <3>1, <3>2, Zenon
  <2>2. /\ missionInbox' = [missionInbox EXCEPT ![d] = Tail(missionInbox[d])]
        /\ flightInbox' = [flightInbox EXCEPT ![d] = flightInbox[d]]
        /\ Report(d) /\ UNCHANGED co
    BY <1>1, <1>3 DEF ReadMissionCommand, MissionTypes
  <2>3. Agreed(co, d, f, UnderWay(Tail(missionInbox[d]), flightInbox[d]), reports[d] \o words)
    BY <2>1 DEF UnderWay
  <2> QED
    BY <2>1, <2>2, <2>3, DroneAgrees, Zenon
<1>4. CASE ReadFlightCommand(d)
  <2>1. PICK f, words :
          /\ Acts(d, f, words)
          /\ Agreed(co, d, f, Held(Tail(flightInbox[d])) \cup Held(missionInbox[d]),
                    reports[d] \o words)
    <3>1. /\ flightInbox[d] # <<>>
          /\ E!OnFlightCommand(d, Head(flightInbox[d]))
          /\ \A i \in DOMAIN missionInbox[d] :
               missionInbox[d][i].command > Head(flightInbox[d]).command
      BY <1>4 DEF ReadFlightCommand
    <3>2. Held(missionInbox[d]) \cup Held(flightInbox[d])
            = Held(flightInbox[d]) \cup Held(missionInbox[d])
      OBVIOUS
    <3>3. Agreed(co, d, ex[d], Held(flightInbox[d]) \cup Held(missionInbox[d]), reports[d])
      BY <1>1, <3>2 DEF UnderWay
    <3> QED
      BY <1>1, <1>2, <3>1, <3>3, Zenon
  <2>2. /\ flightInbox' = [flightInbox EXCEPT ![d] = Tail(flightInbox[d])]
        /\ missionInbox' = [missionInbox EXCEPT ![d] = missionInbox[d]]
        /\ Report(d) /\ UNCHANGED co
    BY <1>1, <1>4 DEF ReadFlightCommand, MissionTypes
  <2>3. Agreed(co, d, f, UnderWay(missionInbox[d], Tail(flightInbox[d])), reports[d] \o words)
    <3>1. Held(missionInbox[d]) \cup Held(Tail(flightInbox[d]))
            = Held(Tail(flightInbox[d])) \cup Held(missionInbox[d])
      OBVIOUS
    <3> QED
      BY <2>1, <3>1, Zenon DEF UnderWay
  <2> QED
    BY <2>1, <2>2, <2>3, DroneAgrees, Zenon
<1> QED
  BY <1>3, <1>4

LEMMA FlyingAgrees ==
  ASSUME AgreementInvariant, MissionInvariant', NEW d \in Drones, Fly(d)
  PROVE  AgreementInvariant'
<1>1. /\ MissionTypes
      /\ Agreed(co, d, ex[d], UnderWay(missionInbox[d], flightInbox[d]), reports[d])
  BY DEF AgreementInvariant, MissionInvariant
<1>2. PICK f, words : /\ Acts(d, f, words)
                      /\ FliesOn(ex[d], f, words) \/ ComesToEnd(d, ex[d], f, words)
  BY <1>1, LocalActs DEF Fly, MissionTypes
<1>3. Flown(co, d, ex[d], UnderWay(missionInbox[d], flightInbox[d]), reports[d], f, words)
  BY <1>1, <1>2 DEF Flown, Acts
<1>4. Agreed(co, d, f, UnderWay(missionInbox[d], flightInbox[d]), reports[d] \o words)
  BY <1>3, FlyAgrees
<1>5. /\ missionInbox' = [missionInbox EXCEPT ![d] = missionInbox[d]]
      /\ flightInbox' = [flightInbox EXCEPT ![d] = flightInbox[d]]
      /\ Report(d) /\ UNCHANGED co
  BY <1>1 DEF Fly, MissionTypes
<1> QED
  BY <1>2, <1>4, <1>5, DroneAgrees, Zenon

LEMMA InitAgreed == MissionInit => AgreementInvariant
<1> SUFFICES ASSUME MissionInit PROVE AgreementInvariant
  OBVIOUS
<1>1. MissionInvariant
  BY MissionInitGood
<1>2. ASSUME NEW d \in Drones
      PROVE  Agreed(co, d, ex[d], UnderWay(missionInbox[d], flightInbox[d]), reports[d])
  <2>1. /\ ex[d] = E!Idle /\ missionInbox[d] = <<>> /\ flightInbox[d] = <<>>
        /\ reports[d] = <<>> /\ co = Started
    BY <1>2, SameWords DEF MissionInit, E!Init, Init
  <2>2. UnderWay(missionInbox[d], flightInbox[d]) = {}
    BY <2>1, EmptySeq DEF UnderWay, Held
  <2>3. /\ co \in Memory /\ ex[d] \in E!Memory /\ Past(co, Stamp(ex[d]))
        /\ reports[d] \in Seq(Feedbacks) /\ DOMAIN reports[d] = {}
    BY <1>1, <2>1, BeginIs, Silence DEF MissionInvariant, MissionTypes, Kept
  <2>4. /\ Book(co)[d].id = 0 /\ co.planned[d].id = 0 /\ co.aux[d].id = 0
    BY <2>1, NoRouteIs DEF Started, Book
  <2>5. ~ex[d].active
    BY <2>1 DEF E!Idle
  <2> HIDE DEF MissionInit
  <2>6. Dated(co, d, ex[d], {}, reports[d]) /\ Truthful(ex[d], reports[d])
    BY <2>3 DEF Dated, Truthful
  <2>7. /\ Sensible(co, d, ex[d], {}) /\ NoStray(co, d, ex[d], {}) /\ Over(co, d, ex[d], reports[d])
        /\ Complete(co, d)
    BY <2>4, <2>5 DEF Sensible, NoStray, Over, Complete
  <2>8. /\ Loyal(co, d, ex[d], {}, reports[d]) /\ HomeBound(co, d, ex[d], {}, reports[d])
        /\ Steady(co, d, ex[d], {})
    BY <2>4, <2>5 DEF Loyal, HomeBound, Steady
  <2> QED
    BY <2>2, <2>6, <2>7, <2>8 DEF Agreed
<1> QED
  BY <1>1, <1>2 DEF AgreementInvariant

(* What the coordinator has on its books of a drone, what the drone        *)
(* remembers, and all that is under way between them, agree.               *)
THEOREM AgreementInvariance == ReadersInOrder => (MissionSpec => []AgreementInvariant)
<1> SUFFICES ASSUME ReadersInOrder
             PROVE  MissionSpec => []AgreementInvariant
  OBVIOUS
<1>1. AgreementInvariant /\ MissionInvariant' /\ [MissionNext]_missionVars => AgreementInvariant'
  <2> SUFFICES ASSUME AgreementInvariant, MissionInvariant', [MissionNext]_missionVars
               PROVE  AgreementInvariant'
    OBVIOUS
  <2>1. CASE Coordinate(Operator) \/ Coordinate(Timer) \/ Coordinate(Reports)
    BY <2>1, CoordinateAgrees
  <2>2. CASE \E d \in Drones : HearFeedback(d)
    BY <2>2, HearFeedbackAgrees
  <2>3. CASE \E d \in Drones : ReadMissionCommand(d) \/ ReadFlightCommand(d)
    BY <2>3, ReadingAgrees
  <2>4. CASE \E d \in Drones : Fly(d)
    BY <2>4, FlyingAgrees
  <2>5. CASE UNCHANGED missionVars
    <3>1. \A d \in Drones :
            Agreed(co', d, ex'[d], UnderWay(missionInbox'[d], flightInbox'[d]), reports'[d])
      BY <2>5 DEF missionVars, AgreementInvariant
    <3> QED
      BY <3>1, AgreedPrimed
  <2> QED
    BY <2>1, <2>2, <2>3, <2>4, <2>5 DEF MissionNext, Exchange
<1>2. MissionSpec => []MissionInvariant
  BY MissionInvariance
<1> QED
  BY <1>1, <1>2, InitAgreed, PTL DEF MissionSpec

(* What a drone remembers once all its messages have been read.            *)
LEMMA QuietAgreed ==
  ASSUME AgreementInvariant, NEW d \in Drones, Quiet(d)
  PROVE  Agreed(co, d, ex[d], {}, <<>>)
<1>1. /\ missionInbox[d] = <<>> /\ flightInbox[d] = <<>> /\ reports[d] = <<>>
  BY DEF Quiet
<1>2. UnderWay(missionInbox[d], flightInbox[d]) = {}
  BY <1>1, EmptySeq DEF UnderWay, Held
<1> QED
  BY <1>1, <1>2, Zenon DEF AgreementInvariant

LEMMA NothingTold == \A k, m, r, id : ~TellsEnd(<<>>, k, m, r, id)
BY EmptySeq DEF TellsEnd

(* No drone flies on a route that the coordinator has taken off its books. *)
THEOREM NoRouteIsForgotten == ReadersInOrder => (MissionSpec => []NoForgottenRoute)
<1>1. AgreementInvariant => NoForgottenRoute
  <2> SUFFICES ASSUME AgreementInvariant, NEW d \in Drones, Quiet(d), co.phase = "IDLE",
                      d \notin Owners(co.current) \cup Owners(co.aux),
                      ex[d].active, ~ex[d].cancel
               PROVE  FALSE
    BY DEF NoForgottenRoute
  <2>1. NoStray(co, d, ex[d], {})
    BY QuietAgreed DEF Agreed
  <2>2. Expected(co, d, ex[d].command, ex[d].mission, ex[d].revision, ex[d].route)
    BY <2>1 DEF NoStray, Followed
  <2> QED
    BY <2>2 DEF Expected, Owners, Book
<1> QED
  BY <1>1, AgreementInvariance, PTL

(* A drone on the coordinator's books as on its way home flies that very   *)
(* route, or has been told to stop and tells so.                           *)
THEOREM HomesAgree == ReadersInOrder => (MissionSpec => []HomeAgreed)
<1>1. AgreementInvariant => HomeAgreed
  <2> SUFFICES ASSUME AgreementInvariant, NEW d \in Owners(co.aux), Quiet(d)
               PROVE  \/ /\ Holds(d, co.aux[d].mission, 1, co.aux[d].id)
                         /\ ex[d].command = co.aux[d].command
                      \/ ex[d].active /\ ex[d].cancel
    BY DEF HomeAgreed
  <2>1. d \in Drones /\ co.aux[d].id # 0
    BY DEF Owners
  <2>2. HomeBound(co, d, ex[d], {}, <<>>) /\ ex[d] \in E!Memory
    BY <2>1, QuietAgreed DEF Agreed, Dated
  <2>3. /\ ex[d].active /\ ex[d].command = co.aux[d].command
        /\ ex[d].mission = co.aux[d].mission /\ ex[d].revision = 1
        /\ ex[d].route = co.aux[d].id
    BY <2>1, <2>2, NothingTold DEF HomeBound
  <2> QED
    BY <2>3 DEF Holds
<1> QED
  BY <1>1, AgreementInvariance, PTL

(* After a commit every drone of the mission flies the route the           *)
(* coordinator has for it, at the version it expects feedback in.          *)
THEOREM RoutesAgree == ReadersInOrder => (MissionSpec => []RouteAgreed)
<1>1. AgreementInvariant => RouteAgreed
  <2> SUFFICES ASSUME AgreementInvariant, NEW d \in Owners(co.current), co.phase = "IDLE",
                      Quiet(d), ~co.current[d].finished
               PROVE  Holds(d, co.activeMission, co.activeRevision, co.current[d].id)
    BY DEF RouteAgreed
  <2>1. d \in Drones /\ Book(co)[d] = co.current[d] /\ Book(co)[d].id # 0
    BY DEF Owners, Book
  <2>2. /\ Loyal(co, d, ex[d], {}, <<>>) /\ Steady(co, d, ex[d], {}) /\ ex[d] \in E!Memory
        /\ co \in Memory
    BY <2>1, QuietAgreed DEF Agreed, Dated
  <2>3. co.activeCommand <= ex[d].command
    BY <2>1, <2>2 DEF Loyal
  <2>4. /\ ex[d].active /\ ex[d].route = co.current[d].id
        /\ ex[d].mission = co.activeMission /\ ex[d].revision = co.activeRevision
    BY <2>1, <2>2, <2>3, NothingTold DEF Loyal
  <2>5. ex[d].route \in Live(co, d)
    BY <2>1, <2>4 DEF Live
  <2>6. ~ex[d].cancel
    BY <2>2, <2>4, <2>5 DEF Steady
  <2> QED
    BY <2>4, <2>6 DEF Holds
<1> QED
  BY <1>1, AgreementInvariance, PTL
=============================================================================
