---------------------- MODULE SwarmCoordinator_proofs ----------------------
(***************************************************************************)
(* Proofs about the coordinator alone, for every number of drones and any  *)
(* order of operator commands, heartbeats, vehicle states and feedback.    *)
(***************************************************************************)
EXTENDS SwarmCoordinator, TLAPS, SequenceTheorems, FiniteSetTheorems,
        WellFoundedInduction

-----------------------------------------------------------------------------
(* Numbers.                                                                *)

LEMMA LeastNatural ==
  ASSUME NEW S \in SUBSET Nat, S # {}
  PROVE  \E m \in S : \A k \in S : ~(k < m)
<1>1. PICK m \in S : \A k \in S : ~(<<k, m>> \in OpToRel(<, Nat))
  BY NatLessThanWellFounded, WFMin, Zenon
<1> QED
  BY <1>1, Zenon DEF OpToRel

(* A set of K numbers has a first, a second, ... and a K-th one.           *)
LEMMA NthType ==
  ASSUME NEW b \in Nat, NEW K \in SUBSET (1..b), NEW n \in 1..Cardinality(K)
  PROVE  /\ Nth(K, n) \in K
         /\ Cardinality({j \in K : j < Nth(K, n)}) = n - 1
<1> DEFINE Below(m) == {j \in K : j < m}
<1>1. \A j \in K : j \in Nat /\ 1 <= j /\ j <= b
  OBVIOUS
<1>2. IsFiniteSet(K) /\ Cardinality(K) \in Nat
  <2>1. IsFiniteSet(1..b)
    BY FS_Interval
  <2>2. IsFiniteSet(K)
    BY <2>1, FS_Subset, Zenon
  <2> QED
    BY <2>2, FS_CardinalityType
<1>3. \A m : IsFiniteSet(Below(m)) /\ Cardinality(Below(m)) \in Nat
  BY <1>2, FS_Subset, FS_CardinalityType
<1> DEFINE S == {m \in Nat : Cardinality(Below(m)) >= n}
<1>4. b + 1 \in S
  <2>1. \A j \in K : j < b + 1
    BY <1>1
  <2>2. Below(b + 1) = K
    BY <2>1, Zenon
  <2> QED
    BY <1>2, <2>2
<1>5. PICK m \in S : \A k \in S : ~(k < m)
  <2>1. S # {}
    BY <1>4
  <2>2. S \in SUBSET Nat
    OBVIOUS
  <2> HIDE DEF S
  <2> QED
    BY <2>1, <2>2, LeastNatural
<1>6. m # 0
  <2>1. \A j \in K : ~(j < 0)
    BY <1>1
  <2>2. Below(0) = {}
    BY <2>1, Zenon
  <2> QED
    BY <1>2, <2>2, FS_EmptySet
<1> DEFINE e == m - 1
<1>7. e \in Nat /\ e \notin S
  BY <1>5, <1>6
<1>8. Below(m) = IF e \in K THEN Below(e) \cup {e} ELSE Below(e)
  <2>1. \A j \in K : j < m <=> (j < e \/ j = e)
    BY <1>1, <1>7
  <2> QED
    BY <2>1, Zenon
<1>9. e \notin Below(e)
  BY <1>7
<1>10. Cardinality(Below(e) \cup {e}) = Cardinality(Below(e)) + 1
  BY <1>3, <1>9, FS_AddElement, Zenon
<1>11. Cardinality(Below(e)) < n /\ Cardinality(Below(m)) >= n
  BY <1>2, <1>3, <1>5, <1>7
<1> HIDE DEF Below, S
<1>12. e \in K /\ Cardinality(Below(e)) = n - 1
  BY <1>2, <1>3, <1>8, <1>10, <1>11
<1> QED
  BY <1>12, Zenon DEF Nth, Below

LEMMA DroneSubsets ==
  ASSUME NEW ds \in SUBSET Drones
  PROVE  IsFiniteSet(ds) /\ Cardinality(ds) \in Nat
<1>1. IsFiniteSet(Drones)
  BY FS_Interval, DronesAssumption DEF Drones
<1> QED
  BY <1>1, FS_Subset, FS_CardinalityType

-----------------------------------------------------------------------------
(* Types of the pieces.                                                    *)

LEMMA NoRouteType == NoRoute \in Route /\ NoRoutes \in Books /\ NoAux \in Aux
BY DEF NoRoute, Route, NoRoutes, Books, NoAux, Aux

LEMMA StopsType ==
  ASSUME NEW r \in Route
  PROVE  /\ Stops(r) \subseteq Nat
         /\ UnfinishedStops(r) \subseteq Stops(r)
         /\ CompletedStops(r) \subseteq Stops(r)
         /\ Stops(r) = CompletedStops(r) \cup UnfinishedStops(r)
<1>1. \A i \in DOMAIN r.targets : i \in Nat /\ r.targets[i] \in Nat
  BY DEF Route
<1>2. r.completed \in Nat
  BY DEF Route
<1> QED
  BY <1>1, <1>2 DEF Stops, UnfinishedStops, CompletedStops

LEMMA NoRouteStops == Stops(NoRoute) = {} /\ NoRoute.id = 0 /\ ~NoRoute.finished
BY DEF NoRoute, Stops

LEMMA NoOwners == Owners(NoRoutes) = {} /\ BookStops(NoRoutes) = {}
BY NoRouteStops DEF NoRoutes, Owners, BookStops

LEMMA KnownParts ==
  ASSUME NEW s, Known(s)
  PROVE  /\ s.pending \subseteq Submitted(s) /\ s.active \subseteq Submitted(s)
         /\ BookStops(s.current) \subseteq Submitted(s)
         /\ BookStops(s.provisional) \subseteq Submitted(s)
         /\ BookStops(s.planned) \subseteq Submitted(s)
BY DEF Known

LEMMA KnownFrom ==
  ASSUME NEW s, NEW t, t.nextTarget = s.nextTarget,
         t.pending \subseteq Submitted(s), t.active \subseteq Submitted(s),
         BookStops(t.current) \subseteq Submitted(s),
         BookStops(t.provisional) \subseteq Submitted(s),
         BookStops(t.planned) \subseteq Submitted(s)
  PROVE  Known(t)
<1>1. Submitted(t) = Submitted(s)
  BY DEF Submitted
<1> QED
  BY <1>1 DEF Known

LEMMA BooksField ==
  ASSUME NEW s \in Memory
  PROVE  /\ s.current \in Books /\ s.provisional \in Books /\ s.planned \in Books
         /\ s.pending \subseteq Nat /\ s.active \subseteq Nat
         /\ s.reported \subseteq Nat /\ s.withdrawn \subseteq Nat
         /\ s.plannedFrom \subseteq Nat
         /\ s.aux \in [Drones -> Aux] /\ s.busy \in [Drones -> BOOLEAN]
         /\ s.landing \in [Drones -> BOOLEAN] /\ s.returnHome \in [Drones -> BOOLEAN]
         /\ s.events \in Seq(Events) /\ s.out \in Seq(Broadcasts)
         /\ s.nextTarget \in Nat \ {0} /\ s.nextRoute \in Nat \ {0} /\ s.nextCommand \in Nat
         /\ s.nextMission \in Nat /\ s.activeCommand \in Nat
         /\ s.activeMission \in Nat /\ s.activeRevision \in Nat
         /\ s.phase \in {"IDLE", "WAITING"}
         /\ s.recalculation \in BOOLEAN /\ s.plannedRecalc \in BOOLEAN
BY Zenon DEF Memory

LEMMA BookStopsType ==
  ASSUME NEW book \in Books, NEW ds \in SUBSET Drones
  PROVE  /\ UNION {Stops(book[d]) : d \in ds} \subseteq Nat
         /\ UNION {UnfinishedStops(book[d]) : d \in ds} \subseteq Nat
         /\ BookStops(book) \subseteq Nat
BY StopsType DEF Books, BookStops

-----------------------------------------------------------------------------
(* Each transformer: the type of its result and the fields it leaves.      *)

(* t agrees with s on everything the buffers consist of.                   *)
SameBuffers(s, t) ==
  /\ t.pending = s.pending /\ t.active = s.active
  /\ t.reported = s.reported /\ t.withdrawn = s.withdrawn
  /\ t.nextTarget = s.nextTarget /\ t.phase = s.phase
  /\ t.current = s.current /\ t.provisional = s.provisional
  /\ t.planned = s.planned \/ t.planned = NoRoutes

SameOwners(s, t) ==
  t.aux = s.aux /\ t.busy = s.busy /\ t.current = s.current /\ t.provisional = s.provisional

(* The versions the node counts by; the books of its battery safety.       *)
SameVersions(s, t) ==
  /\ t.activeCommand = s.activeCommand /\ t.activeMission = s.activeMission
  /\ t.activeRevision = s.activeRevision /\ t.nextMission = s.nextMission
  /\ t.nextRoute = s.nextRoute

SameSafety(s, t) == t.events = s.events /\ t.excluded = s.excluded

(* t is s and published nothing more, or published the broadcast "c" too.  *)
SaysNothing(s, t) == t.nextCommand = s.nextCommand /\ t.out = s.out

Posts(s, t, c) == t.nextCommand = s.nextCommand + 1 /\ t.out = Append(s.out, c)

Silent(s, t) ==
  /\ SameVersions(s, t) /\ SameSafety(s, t) /\ SaysNothing(s, t)
  /\ t.recalculation = s.recalculation

Says(s, t, c) ==
  /\ SameVersions(s, t) /\ SameSafety(s, t) /\ Posts(s, t, c)
  /\ t.recalculation = s.recalculation

LEMMA SoundNoRoutes == ASSUME NEW s PROVE Sound(s, NoRoutes)
<1>1. \A d \in Drones : NoRoutes[d] = NoRoute
  BY DEF NoRoutes
<1>2. CompletedStops(NoRoute) = {}
  BY DEF NoRoute, CompletedStops
<1> QED
  BY <1>1, <1>2, NoRouteStops DEF Sound, Honest, Separate

LEMMA ConsistentFrame ==
  ASSUME NEW s, NEW t, Consistent(s), SameBuffers(s, t)
  PROVE  Consistent(t)
<1>1. Sound(t, t.planned)
  <2>1. CASE t.planned = NoRoutes
    BY <2>1, SoundNoRoutes
  <2>2. CASE t.planned = s.planned
    BY <2>2 DEF Consistent, SameBuffers, Sound, Honest, Separate
  <2> QED
    BY <2>1, <2>2 DEF SameBuffers
<1>2. Sound(t, t.current) /\ Sound(t, t.provisional)
  BY DEF Consistent, SameBuffers, Sound, Honest, Separate
<1>3. Known(t)
  <2>1. BookStops(t.planned) \subseteq Submitted(s)
    BY KnownParts, NoOwners DEF Consistent, SameBuffers
  <2> QED
    BY <2>1, KnownParts, KnownFrom DEF Consistent, SameBuffers
<1> QED
  BY <1>1, <1>2, <1>3
     DEF Consistent, SameBuffers, Awaited, Accounted, Submitted, Placed, Separate

LEMMA ExclusiveFrame ==
  ASSUME NEW s, NEW t, Exclusive(s), SameOwners(s, t)
  PROVE  Exclusive(t)
BY DEF Exclusive, SameOwners, Assigned

LEMMA InvalidateFields ==
  ASSUME NEW s \in Memory
  PROVE  LET t == InvalidatePlannedRoutes(s)
         IN  /\ t \in Memory /\ SameBuffers(s, t) /\ SameOwners(s, t)
             /\ Silent(s, t) /\ t.planned = NoRoutes
<1>1. NoRoutes \in Books
  BY NoRouteType
<1> QED
  BY <1>1, Zenon DEF InvalidatePlannedRoutes, Memory, SameBuffers, SameOwners, Silent,
              SaysNothing, SameVersions, SameSafety

LEMMA PublishNewFields ==
  ASSUME NEW s \in Memory, NEW kind \in Kinds, NEW mission \in Nat,
         NEW revision \in Nat, NEW to \in SUBSET Drones
  PROVE  LET t == PublishNew(s, kind, mission, revision, to)
         IN  /\ t \in Memory /\ SameBuffers(s, t) /\ SameOwners(s, t)
             /\ Says(s, t, Broadcast(kind, s.nextCommand, mission, revision, to, NoOrders))
             /\ t.planned = s.planned
<1> DEFINE b == Broadcast(kind, s.nextCommand, mission, revision, to, NoOrders)
<1>1. b \in Broadcasts
  BY BooksField DEF Broadcast, Broadcasts, NoOrders, NoOrder, Order
<1> DEFINE o == Append(s.out, b)
<1>2. o \in Seq(Broadcasts)
  BY <1>1, BooksField
<1>3. s.nextCommand + 1 \in Nat
  BY BooksField
<1>4. PublishNew(s, kind, mission, revision, to) =
        [s EXCEPT !.nextCommand = s.nextCommand + 1, !.out = o]
  BY DEF PublishNew
<1> DEFINE n == s.nextCommand + 1
<1> HIDE DEF o, n
<1>5. [s EXCEPT !.nextCommand = n, !.out = o] \in Memory
  BY <1>2, <1>3, Zenon DEF Memory, n
<1>6. LET t == [s EXCEPT !.nextCommand = n, !.out = o]
      IN  /\ SameBuffers(s, t) /\ SameOwners(s, t)
          /\ SameVersions(s, t) /\ SameSafety(s, t)
          /\ t.nextCommand = n /\ t.out = o /\ t.planned = s.planned
          /\ t.recalculation = s.recalculation
  BY DEF Memory, SameBuffers, SameOwners, SameVersions, SameSafety
<1> QED
  BY <1>4, <1>5, <1>6 DEF n, o, Says, Posts

LEMMA PublishCancelFields ==
  ASSUME NEW s \in Memory, NEW mission \in Nat, NEW revision \in Nat,
         NEW to \in SUBSET Drones
  PROVE  LET t == PublishCancelCommand(s, mission, revision, to)
         IN  /\ t \in Memory /\ SameBuffers(s, t) /\ SameOwners(s, t)
             /\ IF mission = 0 THEN Silent(s, t)
                ELSE Says(s, t, Broadcast("CANCEL", s.nextCommand, mission, revision, to,
                                          NoOrders))
             /\ t.planned = s.planned
<1>1. CASE mission = 0
  BY <1>1 DEF PublishCancelCommand, SameBuffers, SameOwners, Silent, SaysNothing, SameVersions, SameSafety
<1>2. CASE mission # 0
  BY <1>2, PublishNewFields DEF PublishCancelCommand, Kinds
<1> QED
  BY <1>1, <1>2

LEMMA PublishFlightFields ==
  ASSUME NEW s \in Memory, NEW kind \in Kinds, NEW to \in SUBSET Drones
  PROVE  LET t == PublishFlightCommand(s, kind, to)
         IN  /\ t \in Memory /\ SameBuffers(s, t) /\ SameOwners(s, t)
             /\ Says(s, t, Broadcast(kind, s.nextCommand, s.activeMission,
                                     s.activeRevision, to, NoOrders))
             /\ t.planned = s.planned
BY PublishNewFields, BooksField DEF PublishFlightCommand

-----------------------------------------------------------------------------
(* Detaching routes.                                                       *)

Detached(book, ds) == [d \in Drones |-> IF d \in ds THEN NoRoute ELSE book[d]]

LEMMA DetachedBook ==
  ASSUME NEW book \in Books, NEW ds \in SUBSET Drones
  PROVE  /\ Detached(book, ds) \in Books
         /\ Owners(Detached(book, ds)) = Owners(book) \ ds
         /\ BookStops(book) \subseteq
              BookStops(Detached(book, ds)) \cup UNION {Stops(book[d]) : d \in ds}
         /\ BookStops(Detached(book, ds)) \subseteq BookStops(book)
<1>1. Detached(book, ds) \in Books
  BY NoRouteType DEF Detached, Books
<1>2. Owners(Detached(book, ds)) = Owners(book) \ ds
  BY NoRouteStops DEF Detached, Owners
<1>3. \A d \in Drones : Detached(book, ds)[d] = IF d \in ds THEN NoRoute ELSE book[d]
  BY DEF Detached
<1>4. BookStops(book) \subseteq
        BookStops(Detached(book, ds)) \cup UNION {Stops(book[d]) : d \in ds}
  BY <1>3 DEF BookStops
<1>5. BookStops(Detached(book, ds)) \subseteq BookStops(book)
  BY <1>3, NoRouteStops DEF BookStops
<1> QED
  BY <1>1, <1>2, <1>4, <1>5

LEMMA DetachedSound ==
  ASSUME NEW s, NEW t, NEW book \in Books, NEW ds \in SUBSET Drones,
         Sound(s, book), t.reported = s.reported
  PROVE  Sound(t, Detached(book, ds))
<1>1. ASSUME NEW d \in Drones
      PROVE  Detached(book, ds)[d] = book[d] \/ Detached(book, ds)[d] = NoRoute
  BY DEF Detached
<1>2. CompletedStops(NoRoute) = {}
  BY DEF NoRoute, CompletedStops
<1> HIDE DEF Detached
<1>3. Honest(t, Detached(book, ds))
  BY <1>1, <1>2, NoRouteStops DEF Sound, Honest
<1>4. Separate(t, Detached(book, ds))
  BY <1>1, NoRouteStops DEF Sound, Separate
<1> QED
  BY <1>3, <1>4 DEF Sound

LEMMA DetachFields ==
  ASSUME NEW s \in Memory, NEW ds \in SUBSET Drones
  PROVE  LET t == DetachDroneRoutes(s, ds)
         IN  /\ t \in Memory
             /\ t.active = s.active \ UNION {Stops(s.current[d]) : d \in ds}
             /\ t.pending = s.pending \cup UNION {UnfinishedStops(s.current[d]) : d \in ds}
             /\ t.current = Detached(s.current, ds)
             /\ t.provisional = Detached(s.provisional, ds)
             /\ t.busy = [d \in Drones |-> d \notin ds /\ s.busy[d]]
             /\ t.reported = s.reported /\ t.withdrawn = s.withdrawn
             /\ t.nextTarget = s.nextTarget /\ t.phase = s.phase
             /\ t.planned = s.planned /\ t.aux = s.aux
             /\ t.nextCommand = s.nextCommand /\ t.nextMission = s.nextMission
             /\ t.nextRoute = s.nextRoute /\ t.returnHome = s.returnHome
             /\ t.out = s.out /\ Silent(s, t)
<1> DEFINE a == s.active \ UNION {Stops(s.current[d]) : d \in ds}
<1> DEFINE p == s.pending \cup UNION {UnfinishedStops(s.current[d]) : d \in ds}
<1> DEFINE c == Detached(s.current, ds)
<1> DEFINE v == Detached(s.provisional, ds)
<1> DEFINE b == [d \in Drones |-> d \notin ds /\ s.busy[d]]
<1>1. a \in SUBSET Nat /\ p \in SUBSET Nat
  BY BooksField, BookStopsType, Zenon
<1>2. c \in Books /\ v \in Books
  BY BooksField, DetachedBook
<1>3. b \in [Drones -> BOOLEAN]
  OBVIOUS
<1> DEFINE t == [s EXCEPT !.active = a, !.pending = p, !.current = c,
                          !.provisional = v, !.busy = b]
<1>4. DetachDroneRoutes(s, ds) = t
  BY DEF DetachDroneRoutes, Detached
<1> HIDE DEF a, p, c, v, b
<1>5. t \in Memory
  BY <1>1, <1>2, <1>3, Zenon DEF Memory
<1>6. /\ t.active = a /\ t.pending = p /\ t.current = c /\ t.provisional = v /\ t.busy = b
      /\ t.reported = s.reported /\ t.withdrawn = s.withdrawn
      /\ t.nextTarget = s.nextTarget /\ t.phase = s.phase
      /\ t.planned = s.planned /\ t.aux = s.aux
      /\ t.nextCommand = s.nextCommand /\ t.nextMission = s.nextMission
      /\ t.nextRoute = s.nextRoute /\ t.returnHome = s.returnHome
      /\ t.out = s.out /\ Silent(s, t)
  BY DEF Memory, Silent, SaysNothing, SameVersions, SameSafety
<1> QED
  BY <1>4, <1>5, <1>6 DEF a, p, c, v, b

LEMMA DetachConsistent ==
  ASSUME NEW s \in Memory, NEW ds \in SUBSET Drones, Consistent(s), s.phase = "IDLE"
  PROVE  Consistent(DetachDroneRoutes(s, ds))
<1> DEFINE t == DetachDroneRoutes(s, ds)
<1> DEFINE gone == UNION {Stops(s.current[d]) : d \in ds}
<1> DEFINE back == UNION {UnfinishedStops(s.current[d]) : d \in ds}
<1>1. /\ t.active = s.active \ gone
      /\ t.pending = s.pending \cup back
      /\ t.current = Detached(s.current, ds)
      /\ t.provisional = Detached(s.provisional, ds)
      /\ t.reported = s.reported /\ t.withdrawn = s.withdrawn
      /\ t.nextTarget = s.nextTarget /\ t.phase = s.phase /\ t.planned = s.planned
  BY DetachFields, Zenon
<1>2. s.current \in Books /\ s.provisional \in Books
  BY BooksField
<1>3. \A d \in Drones : s.current[d] \in Route
  BY <1>2 DEF Books
<1>4. gone \subseteq back \cup s.reported
  <2>1. \A d \in ds : Stops(s.current[d]) \subseteq
                        UnfinishedStops(s.current[d]) \cup s.reported
    BY <1>3, StopsType DEF Consistent, Sound, Honest
  <2> QED
    BY <2>1
<1>5. back \subseteq gone
  BY <1>3, StopsType
<1> HIDE DEF t, gone, back
<1>6. Awaited(t)
  BY <1>1, <1>2, DetachedBook DEF Consistent, Awaited
<1>7. Accounted(t)
  BY <1>1, <1>4 DEF Consistent, Accounted, Submitted
<1>11. Known(t)
  <2>1. gone \subseteq BookStops(s.current)
    BY DEF gone, BookStops
  <2> QED
    BY <1>1, <1>2, <1>5, <2>1, DetachedBook, KnownParts, KnownFrom DEF Consistent
<1>8. Sound(t, t.current) /\ Sound(t, t.provisional)
  BY <1>1, <1>2, DetachedSound DEF Consistent
<1>9. Sound(t, t.planned)
  BY <1>1 DEF Consistent, Sound, Honest, Separate
<1>10. Placed(t)
  <2>1. t.pending \cap t.active = {}
    BY <1>1, <1>5 DEF Consistent, Placed
  <2>2. t.active \subseteq BookStops(t.current)
    BY <1>1, <1>2, DetachedBook DEF Consistent, Placed, gone
  <2> QED
    BY <2>1, <2>2, <1>8 DEF Placed, Sound
<1> QED
  BY <1>1, <1>6, <1>7, <1>8, <1>9, <1>10, <1>11 DEF Consistent, t

LEMMA EraseAuxFields ==
  ASSUME NEW s \in Memory, NEW ds \in SUBSET Drones
  PROVE  LET t == EraseAux(s, ds)
         IN  /\ t \in Memory /\ SameBuffers(s, t)
             /\ t.aux = [d \in Drones |-> IF d \in ds THEN NoAux ELSE s.aux[d]]
             /\ t.busy = s.busy /\ t.planned = s.planned /\ Silent(s, t)
<1> DEFINE a == [d \in Drones |-> IF d \in ds THEN NoAux ELSE s.aux[d]]
<1> DEFINE h == [d \in Drones |-> d \notin ds /\ s.returnHome[d]]
<1>1. a \in [Drones -> Aux]
  BY BooksField, NoRouteType
<1>2. h \in [Drones -> BOOLEAN]
  OBVIOUS
<1>3. EraseAux(s, ds) = [s EXCEPT !.aux = a, !.returnHome = h]
  BY DEF EraseAux
<1> HIDE DEF a, h
<1>4. LET t == [s EXCEPT !.aux = a, !.returnHome = h]
      IN  /\ t \in Memory /\ SameBuffers(s, t) /\ t.aux = a /\ t.busy = s.busy
          /\ t.planned = s.planned /\ Silent(s, t)
  BY <1>1, <1>2, Zenon DEF Memory, SameBuffers, Silent, SaysNothing, SameVersions, SameSafety
<1> QED
  BY <1>3, <1>4 DEF a

LEMMA SetLandingFields ==
  ASSUME NEW s \in Memory, NEW ds \in SUBSET Drones, NEW value \in BOOLEAN
  PROVE  LET t == SetLanding(s, ds, value)
         IN  /\ t \in Memory /\ SameBuffers(s, t) /\ SameOwners(s, t)
             /\ t.planned = s.planned /\ Silent(s, t)
<1> DEFINE a == [d \in Drones |-> IF d \in ds THEN value ELSE s.landing[d]]
<1>1. a \in [Drones -> BOOLEAN]
  BY BooksField
<1>2. SetLanding(s, ds, value) = [s EXCEPT !.landing = a]
  BY DEF SetLanding
<1> HIDE DEF a
<1>3. LET t == [s EXCEPT !.landing = a]
      IN  /\ t \in Memory /\ SameBuffers(s, t) /\ SameOwners(s, t)
          /\ t.planned = s.planned /\ Silent(s, t)
  BY <1>1, Zenon DEF Memory, SameBuffers, SameOwners, Silent, SaysNothing, SameVersions, SameSafety
<1> QED
  BY <1>2, <1>3

(* Taking a drone off every route it may have.                             *)
LEMMA ReleaseDrones ==
  ASSUME NEW s \in Memory, NEW ds \in SUBSET Drones, Consistent(s), Exclusive(s),
         s.phase = "IDLE"
  PROVE  LET t == EraseAux(DetachDroneRoutes(s, ds), ds)
         IN  t \in Memory /\ Consistent(t) /\ Exclusive(t) /\ t.phase = "IDLE"
<1> DEFINE u == DetachDroneRoutes(s, ds)
<1> DEFINE t == EraseAux(u, ds)
<1>1. /\ u \in Memory /\ u.aux = s.aux /\ u.phase = s.phase
      /\ u.busy = [d \in Drones |-> d \notin ds /\ s.busy[d]]
      /\ u.current = Detached(s.current, ds)
      /\ u.provisional = Detached(s.provisional, ds)
  BY DetachFields
<1>2. Consistent(u)
  BY DetachConsistent
<1>3. /\ t \in Memory /\ SameBuffers(u, t)
      /\ t.aux = [d \in Drones |-> IF d \in ds THEN NoAux ELSE u.aux[d]]
      /\ t.busy = u.busy
  BY <1>1, EraseAuxFields
<1> HIDE DEF u, t
<1>4. Owners(t.aux) = Owners(s.aux) \ ds
  BY <1>1, <1>3 DEF Owners, NoAux
<1>5. Assigned(t) = Assigned(s) \ ds
  <2>1. t.current = u.current /\ t.provisional = u.provisional
    BY <1>3 DEF SameBuffers
  <2>2. s.current \in Books /\ s.provisional \in Books
    BY BooksField
  <2> QED
    BY <1>1, <2>1, <2>2, DetachedBook DEF Assigned
<1>6. Exclusive(t)
  BY <1>1, <1>3, <1>4, <1>5, Zenon DEF Exclusive, Owners, Assigned
<1> QED
  BY <1>1, <1>2, <1>3, <1>6, ConsistentFrame DEF u, t, SameBuffers

-----------------------------------------------------------------------------
(* Ending missions.                                                        *)

LEMMA ReleaseUnassignedFields ==
  ASSUME NEW s \in Memory
  PROVE  LET t == ReleaseUnassignedDrones(s)
         IN  /\ t \in Memory /\ SameBuffers(s, t) /\ t.aux = s.aux
             /\ t.busy = [d \in Drones |-> s.busy[d] /\
                   d \in Owners(s.current) \cup Owners(s.provisional) \cup Owners(s.aux)]
             /\ t.planned = s.planned /\ Silent(s, t)
<1> DEFINE b == [d \in Drones |-> s.busy[d] /\
                   d \in Owners(s.current) \cup Owners(s.provisional) \cup Owners(s.aux)]
<1>1. b \in [Drones -> BOOLEAN]
  OBVIOUS
<1>2. ReleaseUnassignedDrones(s) = [s EXCEPT !.busy = b]
  BY DEF ReleaseUnassignedDrones
<1> HIDE DEF b
<1>3. LET t == [s EXCEPT !.busy = b]
      IN  /\ t \in Memory /\ SameBuffers(s, t) /\ t.aux = s.aux /\ t.busy = b
          /\ t.planned = s.planned /\ Silent(s, t)
  BY <1>1, Zenon DEF Memory, SameBuffers, Silent, SaysNothing, SameVersions, SameSafety
<1> QED
  BY <1>2, <1>3 DEF b

LEMMA ReleaseUnassignedGood ==
  ASSUME NEW s \in Memory, Consistent(s), Exclusive(s)
  PROVE  LET t == ReleaseUnassignedDrones(s)
         IN  t \in Memory /\ Consistent(t) /\ Exclusive(t)
<1> DEFINE t == ReleaseUnassignedDrones(s)
<1>1. /\ t \in Memory /\ SameBuffers(s, t) /\ t.aux = s.aux
      /\ t.busy = [d \in Drones |-> s.busy[d] /\
            d \in Owners(s.current) \cup Owners(s.provisional) \cup Owners(s.aux)]
  BY ReleaseUnassignedFields
<1> HIDE DEF t
<1>2. t.current = s.current /\ t.provisional = s.provisional /\ t.aux = s.aux
  BY <1>1 DEF SameBuffers
<1>3. /\ Owners(t.aux) = Owners(s.aux)
      /\ Assigned(t) = Owners(s.current) \cup Owners(s.provisional)
  BY <1>2 DEF Assigned
<1>4. \A d \in Owners(s.aux) \cup Assigned(t) : d \in Drones /\ s.busy[d]
  BY <1>3 DEF Exclusive, Assigned, Owners
<1>5. \A d \in Owners(t.aux) \cup Assigned(t) : t.busy[d]
  BY <1>1, <1>3, <1>4, Zenon
<1>6. Exclusive(t)
  BY <1>3, <1>5 DEF Exclusive, Assigned
<1> QED
  BY <1>1, <1>6, ConsistentFrame DEF t

(* What ClearMission leaves: every assigned target back in the buffer.     *)
LEMMA ClearMissionFields ==
  ASSUME NEW s \in Memory
  PROVE  LET t == ClearMission(s)
         IN  /\ t \in Memory
             /\ t.pending = s.pending \cup s.active /\ t.active = {}
             /\ t.reported = s.reported /\ t.withdrawn = s.withdrawn
             /\ t.nextTarget = s.nextTarget /\ t.phase = "IDLE"
             /\ t.current = NoRoutes /\ t.provisional = NoRoutes
             /\ t.planned = NoRoutes /\ t.aux = s.aux /\ t.busy = s.busy
             /\ SameVersions(s, t) /\ SameSafety(s, t) /\ SaysNothing(s, t) /\ ~t.recalculation
<1> DEFINE p == s.pending \cup s.active
<1> DEFINE t == [s EXCEPT !.pending = p, !.active = {}, !.current = NoRoutes,
                   !.provisional = NoRoutes, !.phase = "IDLE", !.recalculation = FALSE,
                   !.planned = NoRoutes, !.plannedRecalc = FALSE]
<1>1. p \in SUBSET Nat
  BY BooksField
<1>2. ClearMission(s) = t
  BY DEF ClearMission, RestoreActiveTargets, InvalidatePlannedRoutes
<1> HIDE DEF p
<1>3. t \in Memory
  BY <1>1, NoRouteType, Zenon DEF Memory
<1>4. /\ t.pending = p /\ t.active = {}
      /\ t.reported = s.reported /\ t.withdrawn = s.withdrawn
      /\ t.nextTarget = s.nextTarget /\ t.phase = "IDLE"
      /\ t.current = NoRoutes /\ t.provisional = NoRoutes
      /\ t.planned = NoRoutes /\ t.aux = s.aux /\ t.busy = s.busy
      /\ SameVersions(s, t) /\ SameSafety(s, t) /\ SaysNothing(s, t) /\ ~t.recalculation
  BY DEF Memory, SameVersions, SameSafety, SaysNothing
<1> QED
  BY <1>2, <1>3, <1>4 DEF p

LEMMA ClearMissionGood ==
  ASSUME NEW s \in Memory, Consistent(s), Exclusive(s)
  PROVE  LET t == ClearMission(s)
         IN  t \in Memory /\ Consistent(t) /\ Exclusive(t) /\ t.phase = "IDLE"
<1> DEFINE t == ClearMission(s)
<1>1. /\ t \in Memory
      /\ t.pending = s.pending \cup s.active /\ t.active = {}
      /\ t.reported = s.reported /\ t.withdrawn = s.withdrawn
      /\ t.nextTarget = s.nextTarget /\ t.phase = "IDLE"
      /\ t.current = NoRoutes /\ t.provisional = NoRoutes
      /\ t.planned = NoRoutes /\ t.aux = s.aux /\ t.busy = s.busy
  BY ClearMissionFields
<1> HIDE DEF t
<1>2. Sound(t, NoRoutes)
  BY SoundNoRoutes
<1>3. Consistent(t)
  BY <1>1, <1>2, NoOwners DEF Consistent, Awaited, Accounted, Known, Submitted, Placed, Sound
<1>4. Exclusive(t)
  BY <1>1, NoOwners DEF Exclusive, Assigned
<1> QED
  BY <1>1, <1>3, <1>4 DEF t

LEMMA AbortGood ==
  ASSUME NEW s \in Memory, Consistent(s), Exclusive(s), NEW publishCancel \in BOOLEAN
  PROVE  LET t == AbortActiveMission(s, publishCancel)
         IN  t \in Memory /\ Consistent(t) /\ Exclusive(t) /\ t.phase = "IDLE"
<1> DEFINE c == ClearMission(s)
<1> DEFINE u == IF publishCancel
                THEN PublishCancelCommand(c, s.activeMission, s.activeRevision, Drones)
                ELSE c
<1>1. c \in Memory /\ Consistent(c) /\ Exclusive(c) /\ c.phase = "IDLE"
  BY ClearMissionGood
<1>2. u \in Memory /\ SameBuffers(c, u) /\ SameOwners(c, u)
  <2>1. CASE publishCancel
    BY <2>1, <1>1, PublishCancelFields, BooksField
  <2>2. CASE ~publishCancel
    BY <2>2, <1>1 DEF SameBuffers, SameOwners
  <2> QED
    BY <2>1, <2>2
<1>3. AbortActiveMission(s, publishCancel) = ReleaseUnassignedDrones(u)
  BY DEF AbortActiveMission
<1> HIDE DEF c, u
<1>4. Consistent(u) /\ Exclusive(u)
  BY <1>1, <1>2, ConsistentFrame, ExclusiveFrame
<1>5. u.phase = "IDLE"
  BY <1>1, <1>2 DEF SameBuffers
<1>6. ReleaseUnassignedDrones(u).phase = u.phase
  <2>1. SameBuffers(u, ReleaseUnassignedDrones(u))
    BY <1>2, ReleaseUnassignedFields, Zenon
  <2> QED
    BY <2>1 DEF SameBuffers
<1> QED
  BY <1>2, <1>3, <1>4, <1>5, <1>6, ReleaseUnassignedGood
(* The last route is complete: nothing assigned is left unreported.        *)
LEMMA FinishGood ==
  ASSUME NEW s \in Memory, Consistent(s), Exclusive(s), s.phase = "IDLE",
         s.active \subseteq s.reported
  PROVE  LET t == FinishMission(s)
         IN  t \in Memory /\ Consistent(t) /\ Exclusive(t) /\ t.phase = "IDLE"
<1> DEFINE b == [d \in Drones |-> d \in Owners(s.aux)]
<1> DEFINE t == [s EXCEPT !.busy = b, !.current = NoRoutes, !.active = {},
                          !.planned = NoRoutes, !.plannedRecalc = FALSE]
<1>1. b \in [Drones -> BOOLEAN]
  OBVIOUS
<1>2. FinishMission(s) = t
  BY DEF FinishMission, InvalidatePlannedRoutes
<1>3. \A d \in Owners(s.aux) : b[d]
  BY Zenon DEF Owners
<1> HIDE DEF b
<1>4. t \in Memory
  BY <1>1, NoRouteType, Zenon DEF Memory
<1>5. /\ t.pending = s.pending /\ t.active = {} /\ t.reported = s.reported
      /\ t.withdrawn = s.withdrawn /\ t.nextTarget = s.nextTarget
      /\ t.phase = s.phase /\ t.current = NoRoutes
      /\ t.provisional = s.provisional /\ t.planned = NoRoutes
      /\ t.aux = s.aux /\ t.busy = b
  BY DEF Memory
<1> HIDE DEF t
<1>6. Sound(t, NoRoutes)
  BY SoundNoRoutes
<1>7. Sound(t, t.provisional)
  BY <1>5 DEF Consistent, Sound, Honest, Separate
<1>8. Consistent(t)
  BY <1>5, <1>6, <1>7, NoOwners
     DEF Consistent, Awaited, Accounted, Known, Submitted, Placed, Sound
<1>9. Owners(t.provisional) = {}
  BY <1>5 DEF Consistent, Awaited
<1>10. Exclusive(t)
  BY <1>3, <1>5, <1>9, NoOwners DEF Exclusive, Assigned
<1> QED
  BY <1>2, <1>4, <1>5, <1>8, <1>10

(* Every selected drone acknowledged: its targets become active.           *)
LEMMA CommitGood ==
  ASSUME NEW s \in Memory, Consistent(s), Exclusive(s), s.phase = "WAITING"
  PROVE  LET t == CommitProvisional(s)
         IN  t \in Memory /\ Consistent(t) /\ Exclusive(t) /\ t.phase = "IDLE"
<1> DEFINE unfinished == UNION {UnfinishedStops(s.provisional[d]) : d \in Drones}
<1> DEFINE a == s.active \cup unfinished
<1> DEFINE p == s.pending \ unfinished
<1> DEFINE t == [s EXCEPT !.active = a, !.pending = p,
                          !.current = s.provisional, !.provisional = NoRoutes,
                          !.phase = "IDLE", !.recalculation = FALSE]
<1>1. s.provisional \in Books
  BY BooksField
<1>2. a \in SUBSET Nat /\ p \in SUBSET Nat
  BY <1>1, BooksField, BookStopsType, Zenon
<1>3. unfinished \subseteq BookStops(s.provisional)
  <2>1. \A d \in Drones : s.provisional[d] \in Route
    BY <1>1 DEF Books
  <2> QED
    BY <2>1, StopsType DEF BookStops
<1>4. CommitProvisional(s) =
        IF AllFinished(s.provisional) THEN FinishMission(t) ELSE t
  BY DEF CommitProvisional
<1> HIDE DEF unfinished
<1>5. a \subseteq BookStops(s.provisional) /\ p \cap a = {}
      /\ s.pending \cup s.active \subseteq p \cup a
  BY <1>3 DEF Consistent, Placed
<1> HIDE DEF a, p
<1>6. t \in Memory
  BY <1>1, <1>2, NoRouteType, Zenon DEF Memory
<1>7. /\ t.pending = p /\ t.active = a /\ t.reported = s.reported
      /\ t.withdrawn = s.withdrawn /\ t.nextTarget = s.nextTarget
      /\ t.phase = "IDLE" /\ t.current = s.provisional
      /\ t.provisional = NoRoutes /\ t.planned = s.planned
      /\ t.aux = s.aux /\ t.busy = s.busy
  BY DEF Memory
<1> HIDE DEF t
<1>8. Sound(t, s.provisional) /\ Sound(t, s.planned)
  BY <1>7, Zenon DEF Consistent, Sound, Honest, Separate
<1>9. Sound(t, NoRoutes)
  BY SoundNoRoutes
<1>10. Placed(t) /\ Accounted(t)
  BY <1>5, <1>7, <1>8 DEF Consistent, Placed, Accounted, Submitted, Sound
<1>14. Known(t)
  <2>1. p \subseteq s.pending
    BY DEF p
  <2> QED
    BY <1>5, <1>7, <2>1, NoOwners, KnownParts, KnownFrom DEF Consistent
<1>11. Consistent(t)
  BY <1>7, <1>8, <1>9, <1>10, <1>14, NoOwners DEF Consistent, Awaited
<1>12. Exclusive(t)
  BY <1>7, NoOwners DEF Exclusive, Assigned
<1>13. ASSUME AllFinished(s.provisional)
       PROVE  t.active \subseteq t.reported
  <2>1. \A d \in Drones : Stops(s.provisional[d]) \subseteq s.reported
    BY <1>13 DEF AllFinished, Owners, Consistent, Sound, Honest
  <2> QED
    BY <1>5, <1>7, <2>1 DEF BookStops
<1> QED
  <2>1. CASE AllFinished(s.provisional)
    BY <1>4, <1>6, <1>7, <1>11, <1>12, <1>13, <2>1, FinishGood
  <2>2. CASE ~AllFinished(s.provisional)
    BY <1>4, <1>6, <1>7, <1>11, <1>12, <2>2
  <2> QED
    BY <2>1, <2>2

(* The dispatch failed: its routes are dropped, its drones let go.         *)
LEMMA FailGood ==
  ASSUME NEW s \in Memory, Consistent(s), Exclusive(s)
  PROVE  LET t == FailProvisional(s)
         IN  t \in Memory /\ Consistent(t) /\ Exclusive(t) /\ t.phase = "IDLE"
<1>1. CASE Owners(s.provisional) = {}
  BY <1>1, BooksField DEF FailProvisional, Consistent, Awaited
<1>2. CASE Owners(s.provisional) # {}
  <2> DEFINE t == [s EXCEPT !.provisional = NoRoutes, !.phase = "IDLE",
                            !.recalculation = FALSE]
  <2> DEFINE u == PublishCancelCommand(t, s.activeMission, s.activeRevision, Drones)
  <2>1. t \in Memory
    BY NoRouteType, Zenon DEF Memory
  <2>2. /\ t.pending = s.pending /\ t.active = s.active
        /\ t.reported = s.reported /\ t.withdrawn = s.withdrawn
        /\ t.nextTarget = s.nextTarget /\ t.phase = "IDLE"
        /\ t.current = s.current /\ t.provisional = NoRoutes
        /\ t.planned = s.planned /\ t.aux = s.aux /\ t.busy = s.busy
    BY DEF Memory
  <2>3. FailProvisional(s) = IF s.recalculation THEN AbortActiveMission(u, FALSE)
                             ELSE ReleaseUnassignedDrones(u)
    BY <1>2, Zenon DEF FailProvisional
  <2> HIDE DEF t
  <2>4. Sound(t, NoRoutes)
    BY SoundNoRoutes
  <2>5. Sound(t, s.current) /\ Sound(t, s.planned)
    BY <2>2, Zenon DEF Consistent, Sound, Honest, Separate
  <2>6. Consistent(t)
    BY <2>2, <2>4, <2>5, NoOwners
       DEF Consistent, Awaited, Accounted, Known, Submitted, Placed, Sound
  <2>7. Exclusive(t)
    BY <2>2, NoOwners DEF Exclusive, Assigned
  <2>8. u \in Memory /\ SameBuffers(t, u) /\ SameOwners(t, u)
    BY <2>1, BooksField, PublishCancelFields
  <2> HIDE DEF u
  <2>9. Consistent(u) /\ Exclusive(u)
    BY <2>6, <2>7, <2>8, ConsistentFrame, ExclusiveFrame
  <2>10. u.phase = "IDLE"
    BY <2>2, <2>8 DEF SameBuffers
  <2>11. CASE s.recalculation
    BY <2>3, <2>8, <2>9, <2>11, AbortGood, Zenon
  <2>12. CASE ~s.recalculation
    <3>1. SameBuffers(u, ReleaseUnassignedDrones(u))
      BY <2>8, ReleaseUnassignedFields, Zenon
    <3>2. ReleaseUnassignedDrones(u).phase = "IDLE"
      BY <2>10, <3>1 DEF SameBuffers
    <3> QED
      BY <2>3, <2>8, <2>9, <2>12, <3>2, ReleaseUnassignedGood
  <2> QED
    BY <2>11, <2>12
<1> QED
  BY <1>1, <1>2
-----------------------------------------------------------------------------
(* Planning and dispatching.                                               *)

Visits(order) == {order[i] : i \in DOMAIN order}

LEMMA RemainingStops ==
  ASSUME NEW r \in Route
  PROVE  UnfinishedStops(r) \subseteq Visits(RemainingOrder(r))
<1> DEFINE q == r.targets
<1> DEFINE k == r.completed
<1>1. q \in Seq(Nat) /\ k \in Nat
  BY DEF Route
<1>2. UnfinishedStops(r) = {q[i] : i \in {j \in DOMAIN q : j > k}}
  BY DEF UnfinishedStops
<1>3. RemainingOrder(r) = IF k >= Len(q) THEN <<>> ELSE SubSeq(q, k + 1, Len(q))
  BY DEF RemainingOrder
<1> HIDE DEF q, k
<1>4. Len(q) \in Nat /\ DOMAIN q = 1..Len(q) /\ \A i \in 1..Len(q) : q[i] \in Nat
  BY <1>1, LenProperties, ElementOfSeq
<1> SUFFICES ASSUME NEW j \in 1..Len(q), j > k
             PROVE  q[j] \in Visits(RemainingOrder(r))
  BY <1>2, <1>4
<1> DEFINE t == SubSeq(q, k + 1, Len(q))
<1>5. RemainingOrder(r) = t
  BY <1>1, <1>3, <1>4
<1>6. /\ t \in Seq(Nat) /\ Len(t) = Len(q) - k
      /\ \A i \in 1..(Len(q) - k) : t[i] = q[k + i]
  <2>1. \A i \in (k + 1)..Len(q) : q[i] \in Nat
    BY <1>1, <1>4
  <2>2. /\ t \in Seq(Nat)
        /\ Len(t) = IF k + 1 <= Len(q) THEN Len(q) - (k + 1) + 1 ELSE 0
        /\ \A i \in 1..(Len(q) - (k + 1) + 1) : t[i] = q[(k + 1) + i - 1]
    BY <1>1, <1>4, <2>1, SubSeqProperties
  <2> HIDE DEF t
  <2>3. Len(q) - (k + 1) + 1 = Len(q) - k /\ k + 1 <= Len(q)
    BY <1>1, <1>4
  <2>4. ASSUME NEW i \in 1..(Len(q) - k)
        PROVE  t[i] = q[k + i]
    <3>1. t[i] = q[(k + 1) + i - 1]
      BY <2>2, <2>3, Zenon
    <3>2. (k + 1) + i - 1 = k + i
      BY <1>1, <1>4
    <3> QED
      BY <3>1, <3>2
  <2>5. Len(t) = Len(q) - k
    BY <2>2, <2>3
  <2> QED
    BY <2>2, <2>4, <2>5, Zenon
<1> HIDE DEF t
<1>7. j - k \in 1..Len(t) /\ t[j - k] = q[j]
  BY <1>1, <1>4, <1>6
<1>8. DOMAIN t = 1..Len(t)
  BY <1>6, LenProperties
<1> QED
  BY <1>5, <1>7, <1>8 DEF Visits

LEMMA SequencingType ==
  ASSUME NEW targets \in SUBSET Nat, NEW order \in Sequencings(targets)
  PROVE  order \in Seq(Nat) /\ Visits(order) \subseteq targets
<1>1. PICK n \in 0..Cardinality(targets) : order \in [1..n -> targets]
  BY DEF Sequencings
<1>2. n \in Nat
  BY <1>1
<1>3. order \in [1..n -> Nat]
  BY <1>1, Zenon
<1>4. order \in Seq(Nat)
  BY <1>2, <1>3, SeqDef
<1>5. Visits(order) \subseteq targets
  BY <1>1 DEF Visits
<1> QED
  BY <1>4, <1>5

LEMMA TokenType ==
  ASSUME NEW s \in Memory, NEW ds \in SUBSET Drones, NEW d \in Drones
  PROVE  Token(s, ds, d) \in Nat \ {0}
<1>1. Cardinality({e \in ds : e < d}) \in Nat
  BY DroneSubsets
<1> QED
  BY <1>1, BooksField DEF Token

LEMMA PlannedRouteGood ==
  ASSUME NEW s \in Memory, Sound(s, s.current),
         NEW eligible \in SUBSET Drones, NEW targets \in SUBSET Nat,
         NEW plan \in RouteSolutions(eligible, targets), NEW d \in Drones
  PROVE  LET r == PlannedRoute(s, plan, d)
         IN  /\ r \in Route
             /\ r.id = 0 => Stops(r) = {}
             /\ CompletedStops(r) \subseteq s.reported
             /\ r.finished => Stops(r) \subseteq s.reported
             /\ Stops(r) \subseteq Stops(s.current[d]) \cup targets
             /\ d \notin eligible => Stops(r) = {}
             /\ d \in eligible => Stops(r) \subseteq s.reported \cup Visits(plan[d])
<1> DEFINE r == PlannedRoute(s, plan, d)
<1> DEFINE used == {e \in DOMAIN plan : plan[e] # <<>>}
<1>1. plan \in [eligible -> Sequencings(targets)]
  BY DEF RouteSolutions
<1>2. used \in SUBSET Drones
  BY <1>1
<1>3. CASE d \notin used
  <2>1. r = NoRoute
    BY <1>3 DEF PlannedRoute
  <2>2. CompletedStops(NoRoute) = {}
    BY DEF NoRoute, CompletedStops
  <2> QED
    BY <2>1, <2>2, NoRouteType, NoRouteStops
<1>4. CASE d \in used /\ SameRemainingRoute(s.current[d], plan[d])
  <2> DEFINE c == s.current[d]
  <2>1. c \in Route
    BY BooksField DEF Books
  <2>2. r = [c EXCEPT !.accepted = FALSE]
    BY <1>4 DEF PlannedRoute
  <2> HIDE DEF r, c
  <2>3. /\ r \in Route /\ r.id = c.id /\ r.targets = c.targets
        /\ r.completed = c.completed /\ r.finished = c.finished
    BY <2>1, <2>2, Zenon DEF Route
  <2>4. Stops(r) = Stops(c) /\ CompletedStops(r) = CompletedStops(c)
    BY <2>3 DEF Stops, CompletedStops
  <2>5. /\ c.id = 0 => Stops(c) = {}
        /\ CompletedStops(c) \subseteq s.reported
        /\ c.finished => Stops(c) \subseteq s.reported
    BY DEF c, Sound, Honest
  <2>6. Stops(c) \subseteq s.reported \cup Visits(plan[d])
    <3>1. RemainingOrder(c) = plan[d]
      BY <1>4 DEF SameRemainingRoute, c
    <3> QED
      BY <2>1, <2>5, <3>1, RemainingStops, StopsType
  <2>7. d \in eligible
    BY <1>1, <1>4
  <2> QED
    BY <2>3, <2>4, <2>5, <2>6, <2>7 DEF r, c
<1>5. CASE d \in used /\ ~SameRemainingRoute(s.current[d], plan[d])
  <2> DEFINE k == Token(s, used, d)
  <2>1. r = [id |-> k, targets |-> plan[d], completed |-> 0,
             accepted |-> FALSE, finished |-> FALSE]
    BY <1>5 DEF PlannedRoute
  <2>2. k \in Nat \ {0}
    BY <1>2, TokenType
  <2>3. d \in eligible /\ plan[d] \in Seq(Nat) /\ Visits(plan[d]) \subseteq targets
    BY <1>1, <1>5, SequencingType
  <2> HIDE DEF r, k
  <2>4. r \in Route /\ r.id # 0 /\ ~r.finished
    BY <2>1, <2>2, <2>3 DEF Route
  <2>5. CompletedStops(r) = {}
    BY <2>1, <2>3 DEF CompletedStops
  <2>6. Stops(r) = Visits(plan[d])
    BY <2>1 DEF Stops, Visits
  <2> QED
    BY <2>3, <2>4, <2>5, <2>6 DEF r
<1> QED
  BY <1>3, <1>4, <1>5

LEMMA RoutableType ==
  ASSUME NEW s \in Memory, NEW recalculate \in BOOLEAN
  PROVE  RoutableTargets(s, recalculate) \in SUBSET Nat
BY BooksField DEF RoutableTargets

LEMMA CalculateGood ==
  ASSUME NEW s \in Memory, Consistent(s), Exclusive(s), NEW recalculate \in BOOLEAN,
         NEW eligible \in SUBSET Drones,
         NEW plan \in RouteSolutions(eligible, RoutableTargets(s, recalculate))
  PROVE  LET t == CalculateRoutes(s, recalculate, plan)
         IN  t \in Memory /\ Consistent(t) /\ Exclusive(t) /\ t.phase = s.phase
<1> DEFINE targets == RoutableTargets(s, recalculate)
<1> DEFINE b == [d \in Drones |-> PlannedRoute(s, plan, d)]
<1> DEFINE f == RoutableTargets(s, recalculate)
<1> DEFINE n == s.nextRoute + Cardinality({d \in DOMAIN plan : plan[d] # <<>>})
<1> DEFINE t == [s EXCEPT !.planned = b, !.plannedRecalc = recalculate,
                          !.plannedFrom = f, !.nextRoute = n]
<1>1. Sound(s, s.current) /\ targets \in SUBSET Nat
      /\ plan \in RouteSolutions(eligible, targets)
  BY RoutableType DEF Consistent
<1>13. targets \subseteq Submitted(s)
  BY KnownParts DEF Consistent, RoutableTargets
<1> HIDE DEF targets
<1>2. b \in Books
  BY <1>1, PlannedRouteGood DEF Books
<1>3. n \in Nat \ {0}
  <2>1. {d \in DOMAIN plan : plan[d] # <<>>} \in SUBSET Drones
    BY DEF RouteSolutions
  <2> QED
    BY <2>1, DroneSubsets, BooksField
<1>4. f \in SUBSET Nat
  BY RoutableType
<1>5. CalculateRoutes(s, recalculate, plan) = t
  BY DEF CalculateRoutes
<1>6. Honest(s, b)
  BY <1>1, PlannedRouteGood, Zenon DEF Honest
<1>7. Separate(s, b)
  <2> SUFFICES ASSUME NEW d \in Drones, NEW e \in Drones, d # e
               PROVE  Stops(b[d]) \cap Stops(b[e]) \subseteq s.reported
    BY DEF Separate
  <2> HIDE DEF b
  <2>1. CASE d \in eligible /\ e \in eligible
    <3>1. Visits(plan[d]) \cap Visits(plan[e]) = {}
      BY <2>1 DEF Visits, RouteSolutions
    <3>2. /\ Stops(b[d]) \subseteq s.reported \cup Visits(plan[d])
          /\ Stops(b[e]) \subseteq s.reported \cup Visits(plan[e])
      BY <1>1, <2>1, PlannedRouteGood, Zenon DEF b
    <3> QED
      BY <3>1, <3>2
  <2>2. CASE d \notin eligible
    BY <1>1, <2>2, PlannedRouteGood, Zenon DEF b
  <2>3. CASE e \notin eligible
    BY <1>1, <2>3, PlannedRouteGood, Zenon DEF b
  <2> QED
    BY <2>1, <2>2, <2>3
<1>14. BookStops(b) \subseteq Submitted(s)
  <2>1. \A d \in Drones : Stops(b[d]) \subseteq Stops(s.current[d]) \cup targets
    BY <1>1, PlannedRouteGood
  <2>2. BookStops(s.current) \subseteq Submitted(s)
    BY KnownParts DEF Consistent
  <2> HIDE DEF b
  <2> QED
    BY <1>13, <2>1, <2>2 DEF BookStops
<1> HIDE DEF b, f, n
<1>8. t \in Memory
  BY <1>2, <1>3, <1>4, Zenon DEF Memory
<1>9. /\ t.pending = s.pending /\ t.active = s.active
      /\ t.reported = s.reported /\ t.withdrawn = s.withdrawn
      /\ t.nextTarget = s.nextTarget /\ t.phase = s.phase
      /\ t.current = s.current /\ t.provisional = s.provisional
      /\ t.planned = b /\ t.aux = s.aux /\ t.busy = s.busy
  BY DEF Memory
<1> HIDE DEF t
<1>10. Sound(t, b) /\ Sound(t, s.current) /\ Sound(t, s.provisional)
  BY <1>6, <1>7, <1>9, Zenon DEF Consistent, Sound, Honest, Separate
<1>15. Known(t)
  BY <1>9, <1>14, KnownParts, KnownFrom DEF Consistent
<1>11. Consistent(t)
  BY <1>9, <1>10, <1>15 DEF Consistent, Awaited, Accounted, Submitted, Placed, Sound
<1>12. Exclusive(t)
  BY <1>9 DEF Exclusive, Assigned
<1> QED
  BY <1>5, <1>8, <1>9, <1>11, <1>12

LEMMA BroadcastType ==
  ASSUME NEW kind \in Kinds, NEW command \in Nat, NEW mission \in Nat,
         NEW revision \in Nat, NEW to \in SUBSET Drones,
         NEW orders \in [Drones -> Order]
  PROVE  Broadcast(kind, command, mission, revision, to, orders) \in Broadcasts
BY DEF Broadcast, Broadcasts

LEMMA OrdersType ==
  ASSUME NEW book \in Books
  PROVE  Orders(book) \in [Drones -> Order]
<1> SUFFICES ASSUME NEW d \in Drones
             PROVE  [id |-> book[d].id, legs |-> Len(book[d].targets)] \in Order
  BY DEF Orders
<1>1. book[d].id \in Nat /\ book[d].targets \in Seq(Nat)
  BY DEF Books, Route
<1>2. Len(book[d].targets) \in Nat
  BY <1>1, LenProperties
<1> QED
  BY <1>1, <1>2 DEF Order

(* A plan that passed the revalidation becomes the provisional book.       *)
LEMMA DispatchGood ==
  ASSUME NEW s \in Memory, Consistent(s), Exclusive(s), CanDispatch(s)
  PROVE  LET t == DispatchPlannedMission(s)
         IN  t \in Memory /\ Consistent(t) /\ Exclusive(t)
<1> DEFINE mission == IF s.plannedRecalc THEN s.activeMission ELSE s.nextMission
<1> DEFINE revision == NextRevision(s)
<1> DEFINE next == IF s.plannedRecalc THEN s.nextMission ELSE s.nextMission + 1
<1> DEFINE b == [d \in Drones |-> s.busy[d] \/ d \in Owners(s.planned)]
<1> DEFINE o == Append(s.out, Broadcast("EXECUTE", s.nextCommand, mission, revision,
                                        Owners(s.planned), Orders(s.planned)))
<1> DEFINE n == s.nextCommand + 1
<1> DEFINE t == [s EXCEPT !.nextMission = next, !.activeMission = mission,
                   !.activeRevision = revision, !.activeCommand = s.nextCommand,
                   !.nextCommand = n, !.provisional = s.planned,
                   !.planned = NoRoutes, !.recalculation = s.plannedRecalc,
                   !.plannedRecalc = FALSE, !.phase = "WAITING",
                   !.busy = b, !.out = o]
<1>1. mission \in Nat /\ revision \in Nat /\ next \in Nat /\ n \in Nat
      /\ s.nextCommand \in Nat
  BY BooksField DEF NextRevision
<1>2. b \in [Drones -> BOOLEAN]
  OBVIOUS
<1>3. o \in Seq(Broadcasts)
  <2>1. Owners(s.planned) \in SUBSET Drones
    BY DEF Owners
  <2>2. Orders(s.planned) \in [Drones -> Order]
    BY BooksField, OrdersType
  <2>3. "EXECUTE" \in Kinds
    BY DEF Kinds, ExecuteKinds
  <2> HIDE DEF mission, revision
  <2>4. Broadcast("EXECUTE", s.nextCommand, mission, revision,
                  Owners(s.planned), Orders(s.planned)) \in Broadcasts
    BY <1>1, <2>1, <2>2, <2>3, BroadcastType
  <2> QED
    BY <2>4, BooksField
<1>4. DispatchPlannedMission(s) = t
  BY DEF DispatchPlannedMission
<1>5. \A d \in Drones : b[d] <=> (s.busy[d] \/ d \in Owners(s.planned))
  BY Zenon
<1> HIDE DEF mission, revision, next, b, o, n
<1>6. t \in Memory
  BY <1>1, <1>2, <1>3, BooksField, NoRouteType DEF Memory
<1>7. /\ t.pending = s.pending /\ t.active = s.active
      /\ t.reported = s.reported /\ t.withdrawn = s.withdrawn
      /\ t.nextTarget = s.nextTarget /\ t.phase = "WAITING"
      /\ t.current = s.current /\ t.provisional = s.planned
      /\ t.planned = NoRoutes /\ t.aux = s.aux /\ t.busy = b
  BY DEF Memory
<1> HIDE DEF t
<1>8. Sound(t, s.current) /\ Sound(t, s.planned) /\ Sound(t, NoRoutes)
  BY <1>7, SoundNoRoutes, Zenon DEF Consistent, Sound, Honest, Separate
<1>9. s.active \subseteq BookStops(s.planned)
  <2>1. BookStops(s.planned) = RoutableTargets(s, s.plannedRecalc)
    BY DEF CanDispatch
  <2>2. CASE s.plannedRecalc
    BY <2>1, <2>2 DEF RoutableTargets
  <2>3. CASE ~s.plannedRecalc
    <3>1. \A d \in Drones : s.current[d].id = 0
      BY <2>3 DEF CanDispatch, Owners
    <3>2. BookStops(s.current) = {}
      BY <3>1 DEF BookStops, Consistent, Sound, Honest
    <3> QED
      BY <3>2 DEF Consistent, Placed
  <2> QED
    BY <2>2, <2>3
<1>10. Awaited(t)
  BY <1>7 DEF Awaited, CanDispatch
<1>11. Accounted(t) /\ Placed(t)
  BY <1>7, <1>8 DEF Consistent, Accounted, Submitted, Placed, Sound
<1>15. Known(t)
  BY <1>7, NoOwners, KnownParts, KnownFrom DEF Consistent
<1>12. Consistent(t)
  BY <1>7, <1>8, <1>9, <1>10, <1>11, <1>15 DEF Consistent
<1>13. \A d \in Owners(s.planned) : d \notin Owners(s.aux)
  BY DEF CanDispatch, Exclusive, Assigned
<1>14. Exclusive(t)
  BY <1>5, <1>7, <1>13 DEF Exclusive, Assigned, Owners
<1> QED
  BY <1>4, <1>6, <1>12, <1>14

(* Sending drones home takes them off their routes first.                  *)
LEMMA StartHomeGood ==
  ASSUME NEW s \in Memory, Consistent(s), Exclusive(s), s.phase = "IDLE",
         NEW ds \in SUBSET Drones, NEW purpose \in HomeKinds
  PROVE  LET t == StartHomeMission(s, ds, purpose)
         IN  t \in Memory /\ Consistent(t) /\ Exclusive(t) /\ t.phase = "IDLE"
<1> DEFINE i == InvalidatePlannedRoutes(s)
<1> DEFINE u == DetachDroneRoutes(i, ds)
<1> DEFINE home(d) == [id |-> Token(s, ds, d), command |-> s.nextCommand,
                       mission |-> s.nextMission]
<1> DEFINE a == [d \in Drones |-> IF d \in ds THEN home(d) ELSE u.aux[d]]
<1> DEFINE b == [d \in Drones |-> d \in ds \/ u.busy[d]]
<1> DEFINE h == [d \in Drones |-> d \in ds \/ u.returnHome[d]]
<1> DEFINE q == [d \in Drones |-> IF d \in ds
                   THEN [id |-> home(d).id, legs |-> HomeLegs] ELSE NoOrder]
<1> DEFINE o == Append(u.out, Broadcast(purpose, s.nextCommand, s.nextMission, 1, ds, q))
<1> DEFINE nc == u.nextCommand + 1
<1> DEFINE nm == u.nextMission + 1
<1> DEFINE nr == u.nextRoute + Cardinality(ds)
<1> DEFINE t == [u EXCEPT !.nextCommand = nc, !.nextMission = nm, !.nextRoute = nr,
                          !.aux = a, !.busy = b, !.returnHome = h, !.out = o]
<1>1. i \in Memory /\ SameBuffers(s, i) /\ SameOwners(s, i)
  BY InvalidateFields
<1>2. Consistent(i) /\ Exclusive(i) /\ i.phase = "IDLE"
  BY <1>1, ConsistentFrame, ExclusiveFrame DEF SameBuffers
<1>3. /\ u \in Memory /\ u.aux = i.aux /\ u.phase = i.phase
      /\ u.busy = [d \in Drones |-> d \notin ds /\ i.busy[d]]
      /\ u.current = Detached(i.current, ds)
      /\ u.provisional = Detached(i.provisional, ds)
  BY <1>1, DetachFields
<1>4. Consistent(u)
  BY <1>1, <1>2, DetachConsistent
<1>5. StartHomeMission(s, ds, purpose) = t
  BY DEF StartHomeMission
<1>6. i.current \in Books /\ i.provisional \in Books
  BY <1>1, BooksField
<1> HIDE DEF i, u
<1>7. \A d \in Drones : home(d) \in Aux /\ home(d).id # 0
  BY TokenType, BooksField DEF Aux
<1>8. a \in [Drones -> Aux] /\ b \in [Drones -> BOOLEAN] /\ h \in [Drones -> BOOLEAN]
  BY <1>3, <1>7, BooksField
<1>9. nc \in Nat /\ nm \in Nat /\ nr \in Nat \ {0}
  BY <1>3, BooksField, DroneSubsets
<1>10. o \in Seq(Broadcasts)
  <2>1. q \in [Drones -> Order]
    BY <1>7 DEF Order, NoOrder, HomeLegs, Aux
  <2>2. purpose \in Kinds /\ s.nextCommand \in Nat /\ s.nextMission \in Nat
    BY BooksField DEF Kinds, ExecuteKinds
  <2> HIDE DEF q
  <2>3. Broadcast(purpose, s.nextCommand, s.nextMission, 1, ds, q) \in Broadcasts
    BY <2>1, <2>2, BroadcastType
  <2> QED
    BY <1>3, <2>3, BooksField
<1>11. Owners(a) \subseteq Owners(i.aux) \cup ds
  BY <1>3 DEF Owners
<1>12. /\ \A d \in ds : b[d]
       /\ \A d \in Drones \ ds : b[d] <=> i.busy[d]
  BY <1>3, Zenon
<1> HIDE DEF a, b, h, o, nc, nm, nr
<1>13. t \in Memory
  BY <1>3, <1>8, <1>9, <1>10, Zenon DEF Memory
<1>14. SameBuffers(u, t) /\ t.aux = a /\ t.busy = b
  BY <1>3 DEF Memory, SameBuffers
<1> HIDE DEF t
<1>15. Consistent(t) /\ t.phase = "IDLE"
  BY <1>2, <1>3, <1>4, <1>14, ConsistentFrame DEF SameBuffers
<1>16. Assigned(t) = Assigned(i) \ ds
  <2>1. t.current = u.current /\ t.provisional = u.provisional
    BY <1>14 DEF SameBuffers
  <2> QED
    BY <1>3, <1>6, <2>1, DetachedBook DEF Assigned
<1>17. Exclusive(t)
  <2>1. Owners(t.aux) \subseteq Owners(i.aux) \cup ds /\ Owners(t.aux) \subseteq Drones
    BY <1>11, <1>14 DEF Owners
  <2>2. Assigned(t) \subseteq Drones
    BY DEF Assigned, Owners
  <2> QED
    BY <1>2, <1>12, <1>14, <1>16, <2>1, <2>2 DEF Exclusive
<1> QED
  BY <1>5, <1>13, <1>15, <1>17

LEMMA LandCancellationType ==
  ASSUME NEW s \in Memory, NEW d
  PROVE  LandCancellation(s, d).mission \in Nat /\ LandCancellation(s, d).revision \in Nat
<1>1. d \in Owners(s.aux) => s.aux[d].mission \in Nat
  BY BooksField DEF Owners, Aux
<1> QED
  BY <1>1, BooksField DEF LandCancellation

LEMMA PublishCancellationsFields ==
  ASSUME NEW s \in Memory, NEW from \in Memory, NEW ds \in SUBSET Drones
  PROVE  LET t == PublishCancellations(s, from, ds)
         IN  t \in Memory /\ SameBuffers(s, t) /\ SameOwners(s, t)
<1> DEFINE held == {d \in ds : LandCancellation(from, d).mission # 0}
<1> DEFINE c(j) == LandCancellation(from, Nth(held, j))
<1> DEFINE cancel(j) == Broadcast("CANCEL", s.nextCommand + j - 1, c(j).mission,
                                  c(j).revision, {Nth(held, j)}, NoOrders)
<1> DEFINE k == Cardinality(held)
<1> DEFINE q == [j \in 1..k |-> cancel(j)]
<1> DEFINE o == s.out \o q
<1> DEFINE n == s.nextCommand + k
<1> DEFINE t == [s EXCEPT !.nextCommand = n, !.out = o]
<1>1. held \in SUBSET Drones /\ k \in Nat
  BY DroneSubsets
<1>2. ASSUME NEW j \in 1..k
      PROVE  cancel(j) \in Broadcasts
  <2>1. Nth(held, j) \in Drones
    BY <1>1, DronesAssumption, NthType, Zenon DEF Drones
  <2>2. c(j).mission \in Nat /\ c(j).revision \in Nat
    BY LandCancellationType
  <2>3. s.nextCommand + j - 1 \in Nat
    BY <1>1, BooksField
  <2>4. "CANCEL" \in Kinds /\ NoOrders \in [Drones -> Order]
    BY DEF Kinds, NoOrders, NoOrder, Order
  <2> QED
    BY <2>1, <2>2, <2>3, <2>4, BroadcastType
<1>3. q \in Seq(Broadcasts)
  <2> HIDE DEF k, cancel
  <2>1. q \in [1..k -> Broadcasts]
    BY <1>2
  <2> HIDE DEF q
  <2> QED
    BY <1>1, <2>1, SeqDef
<1>4. PublishCancellations(s, from, ds) = t
  BY DEF PublishCancellations
<1> HIDE DEF q, k
<1>5. o \in Seq(Broadcasts) /\ n \in Nat
  BY <1>1, <1>3, BooksField, ConcatProperties
<1> HIDE DEF o, n
<1>6. t \in Memory /\ SameBuffers(s, t) /\ SameOwners(s, t)
  BY <1>5, Zenon DEF Memory, SameBuffers, SameOwners
<1> QED
  BY <1>4, <1>6

-----------------------------------------------------------------------------
(* Feedback.                                                               *)

LEMMA FedGood ==
  ASSUME NEW r \in Route, NEW fb \in Feedbacks
  PROVE  LET f == Fed(r, fb)
         IN  /\ f \in Route /\ f.id = r.id /\ Stops(f) = Stops(r)
             /\ CompletedStops(f) \subseteq Stops(r)
             /\ f.finished => r.finished \/ CompletedStops(f) = Stops(r)
<1> DEFINE n == IF fb.state = "SUCCEEDED" THEN Len(r.targets) ELSE fb.completed
<1> DEFINE f == [r EXCEPT !.completed = n,
                          !.accepted = r.accepted \/ fb.state \in Acceptances,
                          !.finished = r.finished \/ fb.state = "SUCCEEDED"]
<1>1. r.targets \in Seq(Nat) /\ Len(r.targets) \in Nat
  BY LenProperties DEF Route
<1>2. n \in Nat
  BY <1>1 DEF Feedbacks
<1>3. Fed(r, fb) = f
  BY DEF Fed
<1>4. fb.state = "SUCCEEDED" => \A j \in DOMAIN r.targets : j <= n
  BY <1>1, LenProperties
<1> HIDE DEF n
<1>5. f \in Route
  BY <1>2, Zenon DEF Route
<1>6. /\ f.id = r.id /\ f.targets = r.targets /\ f.completed = n
      /\ f.finished = (r.finished \/ fb.state = "SUCCEEDED")
  BY DEF Route
<1> HIDE DEF f
<1>7. Stops(f) = Stops(r)
  BY <1>6 DEF Stops
<1>8. CompletedStops(f) \subseteq Stops(r)
  BY <1>6 DEF Stops, CompletedStops
<1>9. fb.state = "SUCCEEDED" => CompletedStops(f) = Stops(r)
  BY <1>4, <1>6 DEF Stops, CompletedStops
<1> QED
  BY <1>3, <1>5, <1>6, <1>7, <1>8, <1>9, Zenon

LEMMA FedBook ==
  ASSUME NEW s, NEW t, NEW book \in Books, NEW d \in Drones, NEW fb \in Feedbacks,
         Sound(s, book), book[d].id # 0,
         t.reported = s.reported \cup CompletedStops(Fed(book[d], fb))
  PROVE  LET b == [book EXCEPT ![d] = Fed(book[d], fb)]
         IN  /\ b \in Books /\ Sound(t, b)
             /\ Owners(b) = Owners(book) /\ BookStops(b) = BookStops(book)
<1> DEFINE f == Fed(book[d], fb)
<1> DEFINE b == [book EXCEPT ![d] = f]
<1>1. book[d] \in Route
  BY DEF Books
<1>2. /\ f \in Route /\ f.id = book[d].id /\ Stops(f) = Stops(book[d])
      /\ CompletedStops(f) \subseteq Stops(book[d])
      /\ f.finished => book[d].finished \/ CompletedStops(f) = Stops(book[d])
  BY <1>1, FedGood
<1> HIDE DEF f
<1>3. b \in Books
  BY <1>2 DEF Books
<1>4. \A e \in Drones : b[e] = IF e = d THEN f ELSE book[e]
  BY DEF Books
<1> HIDE DEF b
<1>5. \A e \in Drones : Stops(b[e]) = Stops(book[e]) /\ b[e].id = book[e].id
  BY <1>2, <1>4
<1>6. Honest(t, b)
  <2> SUFFICES ASSUME NEW e \in Drones
               PROVE  /\ b[e].id = 0 => Stops(b[e]) = {}
                      /\ CompletedStops(b[e]) \subseteq t.reported
                      /\ b[e].finished => Stops(b[e]) \subseteq t.reported
    BY DEF Honest
  <2>1. /\ book[e].id = 0 => Stops(book[e]) = {}
        /\ CompletedStops(book[e]) \subseteq s.reported
        /\ book[e].finished => Stops(book[e]) \subseteq s.reported
    BY DEF Sound, Honest
  <2>2. CASE e = d
    BY <1>2, <1>4, <2>1, <2>2 DEF f
  <2>3. CASE e # d
    BY <1>4, <2>1, <2>3
  <2> QED
    BY <2>2, <2>3
<1>7. Separate(t, b)
  BY <1>5 DEF Sound, Separate
<1>8. Owners(b) = Owners(book) /\ BookStops(b) = BookStops(book)
  BY <1>5 DEF Owners, BookStops
<1> QED
  BY <1>3, <1>6, <1>7, <1>8 DEF Sound, b, f

LEMMA SoundGrows ==
  ASSUME NEW s, NEW t, NEW book, Sound(s, book), s.reported \subseteq t.reported
  PROVE  Sound(t, book)
BY DEF Sound, Honest, Separate

LEMMA AuxFeedbackGood ==
  ASSUME NEW s \in Memory, Consistent(s), Exclusive(s), NEW fb \in Feedbacks,
         MatchesAux(s, fb)
  PROVE  LET t == AuxFeedback(s, fb)
         IN  t \in Memory /\ Consistent(t) /\ Exclusive(t)
<1>1. CASE fb.state \notin Terminal
  BY <1>1 DEF AuxFeedback
<1>2. CASE fb.state \in Terminal
  <2> DEFINE d == fb.drone
  <2> DEFINE u == EraseAux(s, {d})
  <2> DEFINE b == [u.busy EXCEPT ![d] = FALSE]
  <2> DEFINE t == [u EXCEPT !.busy = b]
  <2>1. AuxFeedback(s, fb) = t
    BY <1>2 DEF AuxFeedback
  <2>2. d \in Drones /\ d \in Owners(s.aux)
    BY DEF Feedbacks, MatchesAux, Owners
  <2> HIDE DEF d
  <2>3. /\ u \in Memory /\ SameBuffers(s, u) /\ u.busy = s.busy
        /\ u.aux = [e \in Drones |-> IF e \in {d} THEN NoAux ELSE s.aux[e]]
    BY <2>2, EraseAuxFields
  <2> HIDE DEF u
  <2>4. /\ b \in [Drones -> BOOLEAN]
        /\ \A e \in Drones \ {d} : b[e] = s.busy[e]
    BY <2>3, BooksField, Zenon
  <2> HIDE DEF b
  <2>5. t \in Memory
    BY <2>3, <2>4, Zenon DEF Memory
  <2>6. SameBuffers(u, t) /\ t.aux = u.aux /\ t.busy = b
    BY <2>3 DEF Memory, SameBuffers
  <2> HIDE DEF t
  <2>7. Consistent(t)
    BY <2>3, <2>6, ConsistentFrame
  <2>8. Owners(t.aux) \subseteq Owners(s.aux) \ {d}
    BY <2>3, <2>6 DEF Owners, NoAux
  <2>9. Assigned(t) = Assigned(s) /\ Assigned(s) \subseteq Drones
    BY <2>3, <2>6 DEF Assigned, SameBuffers, Owners
  <2>10. d \notin Assigned(s)
    BY <2>2 DEF Exclusive
  <2>11. Owners(s.aux) \subseteq Drones
    BY DEF Owners
  <2>12. Exclusive(t)
    BY <2>4, <2>6, <2>8, <2>9, <2>10, <2>11 DEF Exclusive
  <2> QED
    BY <2>1, <2>5, <2>7, <2>12
<1> QED
  BY <1>1, <1>2

LEMMA ProvisionalFeedbackGood ==
  ASSUME NEW s \in Memory, Consistent(s), Exclusive(s), NEW fb \in Feedbacks,
         s.phase = "WAITING", s.provisional[fb.drone].id # 0
  PROVE  LET t == ProvisionalFeedback(s, fb)
         IN  t \in Memory /\ Consistent(t) /\ Exclusive(t)
<1> DEFINE d == fb.drone
<1> DEFINE f == Fed(s.provisional[d], fb)
<1> DEFINE v == [s.provisional EXCEPT ![d] = f]
<1> DEFINE done == CompletedStops(f)
<1> DEFINE a == s.active \ done
<1> DEFINE r == s.reported \cup done
<1> DEFINE x == [s EXCEPT !.provisional = v]
<1> DEFINE t == [x EXCEPT !.active = a, !.reported = r]
<1>1. d \in Drones /\ s.provisional \in Books /\ s.provisional[d] \in Route
  BY BooksField DEF Feedbacks, Books
<1>2. RemoveCompletedTargets([s EXCEPT !.provisional[fb.drone] = f], f) = t
  <2>1. x.active = s.active /\ x.reported = s.reported
    BY DEF Memory
  <2> HIDE DEF f
  <2> QED
    BY <2>1 DEF RemoveCompletedTargets
<1>3. ProvisionalFeedback(s, fb) =
        IF fb.state \in Failures THEN FailProvisional(t)
        ELSE IF \A e \in Owners(t.provisional) : t.provisional[e].accepted
        THEN CommitProvisional(t) ELSE t
  BY <1>2, Zenon DEF ProvisionalFeedback
<1>4. f \in Route /\ done \subseteq Nat
  <2>1. f \in Route
    BY <1>1, FedGood
  <2> HIDE DEF f
  <2> QED
    BY <2>1, StopsType
<1>5. Owners(v) = Owners(s.provisional) /\ BookStops(v) = BookStops(s.provisional)
      /\ v \in Books
  <2> DEFINE w == [reported |-> r]
  <2>1. w.reported = r
    OBVIOUS
  <2> HIDE DEF w
  <2> QED
    BY <1>1, <2>1, FedBook DEF Consistent
<1>6. ASSUME NEW w, w.reported = r
      PROVE  Sound(w, v)
  BY <1>1, <1>6, FedBook DEF Consistent
<1> HIDE DEF f, v, done
<1>7. t \in Memory
  <2>1. a \in SUBSET Nat /\ r \in SUBSET Nat
    BY <1>4, BooksField, Zenon
  <2> HIDE DEF a, r
  <2> QED
    BY <1>5, <2>1, Zenon DEF Memory
<1>8. /\ t.pending = s.pending /\ t.active = a /\ t.reported = r
      /\ t.withdrawn = s.withdrawn /\ t.nextTarget = s.nextTarget
      /\ t.phase = s.phase /\ t.current = s.current /\ t.provisional = v
      /\ t.planned = s.planned /\ t.aux = s.aux /\ t.busy = s.busy
  BY DEF Memory
<1> HIDE DEF t
<1>9. Sound(t, s.current) /\ Sound(t, s.planned)
  BY <1>8, SoundGrows DEF Consistent
<1>10. Sound(t, v)
  BY <1>6, <1>8
<1>11. Accounted(t)
  BY <1>8 DEF Consistent, Accounted, Submitted
<1>18. Known(t)
  BY <1>5, <1>8, KnownParts, KnownFrom DEF Consistent
<1>12. Placed(t)
  BY <1>8, <1>9 DEF Consistent, Placed, Sound
<1>13. Consistent(t)
  BY <1>5, <1>8, <1>9, <1>10, <1>11, <1>12, <1>18 DEF Consistent, Awaited
<1>14. Exclusive(t)
  BY <1>5, <1>8 DEF Exclusive, Assigned
<1>15. CASE fb.state \in Failures
  BY <1>3, <1>7, <1>13, <1>14, <1>15, FailGood
<1>16. CASE fb.state \notin Failures
  BY <1>3, <1>7, <1>8, <1>13, <1>14, <1>16, CommitGood
<1> QED
  BY <1>15, <1>16

LEMMA MissionFeedbackGood ==
  ASSUME NEW s \in Memory, Consistent(s), Exclusive(s), NEW fb \in Feedbacks,
         s.phase = "IDLE", s.current[fb.drone].id # 0
  PROVE  LET t == MissionFeedback(s, fb)
         IN  t \in Memory /\ Consistent(t) /\ Exclusive(t)
<1> DEFINE d == fb.drone
<1> DEFINE f == Fed(s.current[d], fb)
<1> DEFINE v == [s.current EXCEPT ![d] = f]
<1> DEFINE done == CompletedStops(f)
<1> DEFINE a == s.active \ done
<1> DEFINE r == s.reported \cup done
<1> DEFINE x == [s EXCEPT !.current = v]
<1> DEFINE t == [x EXCEPT !.active = a, !.reported = r]
<1>1. d \in Drones /\ s.current \in Books /\ s.current[d] \in Route
  BY BooksField DEF Feedbacks, Books
<1>2. RemoveCompletedTargets([s EXCEPT !.current[fb.drone] = f], f) = t
  <2>1. x.active = s.active /\ x.reported = s.reported
    BY DEF Memory
  <2> HIDE DEF f
  <2> QED
    BY <2>1 DEF RemoveCompletedTargets
<1>3. MissionFeedback(s, fb) =
        IF fb.state \in Failures THEN AbortActiveMission(t, TRUE)
        ELSE IF AllFinished(t.current) THEN FinishMission(t) ELSE t
  BY <1>2, Zenon DEF MissionFeedback
<1>4. f \in Route /\ done \subseteq Nat
  <2>1. f \in Route
    BY <1>1, FedGood
  <2> HIDE DEF f
  <2> QED
    BY <2>1, StopsType
<1>5. Owners(v) = Owners(s.current) /\ BookStops(v) = BookStops(s.current)
      /\ v \in Books
  <2> DEFINE w == [reported |-> r]
  <2>1. w.reported = r
    OBVIOUS
  <2> HIDE DEF w
  <2> QED
    BY <1>1, <2>1, FedBook DEF Consistent
<1>6. ASSUME NEW w, w.reported = r
      PROVE  Sound(w, v)
  BY <1>1, <1>6, FedBook DEF Consistent
<1> HIDE DEF f, v, done
<1>7. t \in Memory
  <2>1. a \in SUBSET Nat /\ r \in SUBSET Nat
    BY <1>4, BooksField, Zenon
  <2> HIDE DEF a, r
  <2> QED
    BY <1>5, <2>1, Zenon DEF Memory
<1>8. /\ t.pending = s.pending /\ t.active = a /\ t.reported = r
      /\ t.withdrawn = s.withdrawn /\ t.nextTarget = s.nextTarget
      /\ t.phase = s.phase /\ t.current = v /\ t.provisional = s.provisional
      /\ t.planned = s.planned /\ t.aux = s.aux /\ t.busy = s.busy
  BY DEF Memory
<1> HIDE DEF t
<1>9. Sound(t, s.provisional) /\ Sound(t, s.planned)
  BY <1>8, SoundGrows DEF Consistent
<1>10. Sound(t, v)
  BY <1>6, <1>8
<1>11. Accounted(t)
  BY <1>8 DEF Consistent, Accounted, Submitted
<1>18. Known(t)
  BY <1>5, <1>8, KnownParts, KnownFrom DEF Consistent
<1>12. Placed(t)
  BY <1>5, <1>8, <1>10 DEF Consistent, Placed, Sound
<1>13. Consistent(t)
  BY <1>8, <1>9, <1>10, <1>11, <1>12, <1>18 DEF Consistent, Awaited
<1>14. Exclusive(t)
  BY <1>5, <1>8 DEF Exclusive, Assigned
<1>15. CASE fb.state \in Failures
  BY <1>3, <1>7, <1>13, <1>14, <1>15, AbortGood, Zenon
<1>16. CASE fb.state \notin Failures /\ AllFinished(t.current)
  <2>1. \A e \in Drones : Stops(v[e]) \subseteq r
    BY <1>8, <1>10, <1>16 DEF AllFinished, Owners, Sound, Honest
  <2>2. t.active \subseteq t.reported
    BY <1>8, <1>12, <2>1 DEF Placed, BookStops
  <2> QED
    BY <1>3, <1>7, <1>8, <1>13, <1>14, <1>16, <2>2, FinishGood
<1>17. CASE fb.state \notin Failures /\ ~AllFinished(t.current)
  BY <1>3, <1>7, <1>13, <1>14, <1>17
<1> QED
  BY <1>15, <1>16, <1>17

(* A report that the node can act on: one about a route home, or one that  *)
(* does not tell of the awaited revision under another command.            *)
Timely(s, fb) ==
  \/ MatchesAux(s, fb)
  \/ s.phase = "WAITING" /\ fb.mission = s.activeMission /\ fb.revision = s.activeRevision
       => fb.command = s.activeCommand

LEMMA FeedbackGood ==
  ASSUME NEW s \in Memory, Consistent(s), Exclusive(s), NEW fb \in Feedbacks,
         Timely(s, fb)
  PROVE  LET t == FeedbackResult(s, fb)
         IN  t \in Memory /\ Consistent(t) /\ Exclusive(t)
<1>1. CASE MatchesAux(s, fb)
  BY <1>1, AuxFeedbackGood DEF FeedbackResult
<1>2. CASE ~MatchesAux(s, fb) /\ s.phase = "WAITING"
  BY <1>2, ProvisionalFeedbackGood DEF FeedbackResult, CurrentBroadcast, Timely
<1>3. CASE ~MatchesAux(s, fb) /\ s.phase # "WAITING"
  <2>1. s.phase = "IDLE"
    BY <1>3, BooksField
  <2> QED
    BY <1>3, <2>1, MissionFeedbackGood DEF FeedbackResult
<1> QED
  BY <1>1, <1>2, <1>3

-----------------------------------------------------------------------------
(* The inductive invariant, and the callbacks that preserve it.            *)

Good(s) == s \in Memory /\ Consistent(s) /\ Exclusive(s)

InductiveInvariant ==
  /\ Good(co)
  /\ link \in [Drones -> Links]
  /\ vehicle \in [Drones -> Vehicles]

LEMMA GoodFrame ==
  ASSUME NEW s, NEW t \in Memory, Good(s), SameBuffers(s, t), SameOwners(s, t)
  PROVE  Good(t) /\ t.phase = s.phase
<1>1. Consistent(t) /\ Exclusive(t)
  BY ConsistentFrame, ExclusiveFrame DEF Good
<1> QED
  BY <1>1 DEF Good, SameBuffers

LEMMA BeginFields ==
  ASSUME co \in Memory
  PROVE  /\ Begin \in Memory
         /\ Begin.pending = co.pending /\ Begin.active = co.active
         /\ Begin.reported = co.reported /\ Begin.withdrawn = co.withdrawn
         /\ Begin.nextTarget = co.nextTarget /\ Begin.phase = co.phase
         /\ Begin.current = co.current /\ Begin.provisional = co.provisional
         /\ Begin.planned = co.planned /\ Begin.plannedRecalc = co.plannedRecalc
         /\ Begin.aux = co.aux /\ Begin.busy = co.busy
         /\ Begin.enabled = co.enabled /\ Begin.excluded = co.excluded
         /\ Begin.batteryOk = co.batteryOk /\ Begin.landing = co.landing
         /\ Begin.activeCommand = co.activeCommand
         /\ Begin.activeMission = co.activeMission
         /\ Begin.activeRevision = co.activeRevision
<1> DEFINE o == <<>>
<1> DEFINE t == [co EXCEPT !.out = o]
<1>1. o \in Seq(Broadcasts)
  BY EmptySeq
<1> HIDE DEF o
<1>2. t \in Memory
  BY <1>1, Zenon DEF Memory
<1>3. Begin = t
  BY DEF Begin, o
<1> QED
  BY <1>2, <1>3, Zenon DEF Memory

LEMMA BeginGood ==
  ASSUME Good(co)
  PROVE  Good(Begin) /\ Begin.phase = co.phase
<1>1. co \in Memory
  BY DEF Good
<1>2. SameBuffers(co, Begin) /\ SameOwners(co, Begin)
  BY <1>1, BeginFields DEF SameBuffers, SameOwners
<1> QED
  BY <1>1, <1>2, BeginFields, GoodFrame

LEMMA InvalidateGood ==
  ASSUME NEW s, Good(s)
  PROVE  Good(InvalidatePlannedRoutes(s)) /\ InvalidatePlannedRoutes(s).phase = s.phase
BY InvalidateFields, GoodFrame DEF Good

(* Taking drones off their routes, as HOME, LAND, ARM and OFF do.          *)
LEMMA ReleaseGood ==
  ASSUME NEW s, Good(s), s.phase = "IDLE", NEW ds \in SUBSET Drones,
         NEW value \in BOOLEAN
  PROVE  LET t == InvalidatePlannedRoutes(
                    SetLanding(EraseAux(DetachDroneRoutes(s, ds), ds), ds, value))
         IN  Good(t) /\ t.phase = "IDLE"
<1> DEFINE u == EraseAux(DetachDroneRoutes(s, ds), ds)
<1>1. Good(u) /\ u.phase = "IDLE"
  BY ReleaseDrones DEF Good
<1> HIDE DEF u
<1> DEFINE w == SetLanding(u, ds, value)
<1>2. w \in Memory /\ SameBuffers(u, w) /\ SameOwners(u, w)
  BY <1>1, SetLandingFields DEF Good
<1> HIDE DEF w
<1>3. Good(w) /\ w.phase = "IDLE"
  BY <1>1, <1>2, GoodFrame
<1> QED
  BY <1>3, InvalidateGood DEF u, w

LEMMA FlightGood ==
  ASSUME NEW s, Good(s), NEW ds \in SUBSET Drones, NEW kind \in Kinds
  PROVE  Good(PublishFlightCommand(s, kind, ds))
BY PublishFlightFields, GoodFrame DEF Good

LEMMA FlightKindsAreKinds == FlightKinds \subseteq Kinds
BY DEF Kinds

LEMMA AddTargetStep ==
  ASSUME Good(co), AddTarget
  PROVE  Good(co')
<1> DEFINE s == Begin
<1> DEFINE p == s.pending \cup {s.nextTarget}
<1> DEFINE n == s.nextTarget + 1
<1> DEFINE t == [s EXCEPT !.pending = p, !.nextTarget = n]
<1>1. Good(s)
  BY BeginGood
<1>2. co' = InvalidatePlannedRoutes(t)
  BY DEF AddTarget, Become
<1> HIDE DEF s
<1>3. s \in Memory /\ s.nextTarget \in Nat \ {0}
  BY <1>1, BooksField DEF Good
<1>4. p \in SUBSET Nat /\ n \in Nat \ {0}
  BY <1>3, BooksField
<1>5. Consistent(s)
  BY <1>1 DEF Good
<1>6. /\ Submitted(s) \cup {s.nextTarget} = 1..(n - 1)
      /\ s.nextTarget \notin Submitted(s)
  BY <1>3 DEF Submitted
<1>7. p \cap s.active = {}
  BY <1>5, <1>6, KnownParts DEF Consistent, Placed
<1>8. p \subseteq 1..(n - 1) /\ s.nextTarget \in p /\ s.pending \subseteq p
  BY <1>5, <1>6, KnownParts DEF Consistent
<1> HIDE DEF p, n
<1>9. t \in Memory
  BY <1>3, <1>4, Zenon DEF Memory
<1>10. /\ t.pending = p /\ t.active = s.active
       /\ t.reported = s.reported /\ t.withdrawn = s.withdrawn
       /\ t.nextTarget = n /\ t.phase = s.phase
       /\ t.current = s.current /\ t.provisional = s.provisional
       /\ t.planned = s.planned /\ t.aux = s.aux /\ t.busy = s.busy
  BY <1>3 DEF Memory
<1> HIDE DEF t
<1>11. Submitted(t) = Submitted(s) \cup {s.nextTarget}
  BY <1>6, <1>10 DEF Submitted
<1>12. Known(t)
  <2>1. t.pending \cup t.active \subseteq Submitted(t)
    BY <1>5, <1>6, <1>8, <1>10, <1>11, KnownParts, Zenon DEF Consistent
  <2>2. \A book \in {t.current, t.provisional, t.planned} :
          BookStops(book) \subseteq Submitted(t)
    BY <1>5, <1>10, <1>11, KnownParts DEF Consistent
  <2> QED
    BY <2>1, <2>2 DEF Known
<1>13. Accounted(t)
  BY <1>5, <1>8, <1>10, <1>11 DEF Consistent, Accounted
<1>14. Sound(t, t.current) /\ Sound(t, t.provisional) /\ Sound(t, t.planned)
  BY <1>5, <1>10 DEF Consistent, Sound, Honest, Separate
<1>15. Placed(t)
  BY <1>5, <1>7, <1>10, <1>14 DEF Consistent, Placed, Sound
<1>16. Consistent(t)
  BY <1>5, <1>10, <1>12, <1>13, <1>14, <1>15 DEF Consistent, Awaited
<1>17. Exclusive(t)
  BY <1>1, <1>10 DEF Good, Exclusive, Assigned
<1> QED
  BY <1>2, <1>9, <1>16, <1>17, InvalidateGood DEF Good

(* Targets an operator takes back.                                         *)
LEMMA WithdrawGood ==
  ASSUME NEW s, Good(s), NEW w \in SUBSET s.pending
  PROVE  Good([s EXCEPT !.pending = s.pending \ w, !.withdrawn = s.withdrawn \cup w])
<1> DEFINE p == s.pending \ w
<1> DEFINE x == s.withdrawn \cup w
<1> DEFINE t == [s EXCEPT !.pending = p, !.withdrawn = x]
<1>1. s \in Memory /\ Consistent(s) /\ Exclusive(s)
  BY DEF Good
<1>2. p \in SUBSET Nat /\ x \in SUBSET Nat
  BY <1>1, BooksField
<1>3. p \subseteq s.pending /\ s.pending \cup s.withdrawn \subseteq p \cup x
  OBVIOUS
<1> HIDE DEF p, x
<1>4. t \in Memory
  BY <1>1, <1>2, Zenon DEF Memory
<1>5. /\ t.pending = p /\ t.active = s.active
      /\ t.reported = s.reported /\ t.withdrawn = x
      /\ t.nextTarget = s.nextTarget /\ t.phase = s.phase
      /\ t.current = s.current /\ t.provisional = s.provisional
      /\ t.planned = s.planned /\ t.aux = s.aux /\ t.busy = s.busy
  BY <1>1 DEF Memory
<1> HIDE DEF t
<1>6. Known(t)
  BY <1>1, <1>3, <1>5, KnownParts, KnownFrom DEF Consistent
<1>7. Accounted(t)
  BY <1>1, <1>3, <1>5 DEF Consistent, Accounted, Submitted
<1>8. Sound(t, t.current) /\ Sound(t, t.provisional) /\ Sound(t, t.planned)
  BY <1>1, <1>5, Zenon DEF Consistent, Sound, Honest, Separate
<1>9. Placed(t)
  BY <1>1, <1>3, <1>5, <1>8 DEF Consistent, Placed, Sound
<1>10. Consistent(t)
  BY <1>1, <1>5, <1>6, <1>7, <1>8, <1>9 DEF Consistent, Awaited
<1>11. Exclusive(t)
  BY <1>1, <1>5 DEF Exclusive, Assigned
<1> QED
  BY <1>4, <1>10, <1>11 DEF Good, t, p, x

LEMMA RemoveTargetStep ==
  ASSUME Good(co), NEW t \in co.pending, RemoveTarget(t)
  PROVE  Good(co')
<1>1. Good(Begin) /\ Begin.pending = co.pending
  BY BeginGood, BeginFields DEF Good
<1> DEFINE u == [Begin EXCEPT !.pending = Begin.pending \ {t},
                              !.withdrawn = Begin.withdrawn \cup {t}]
<1>2. co' = InvalidatePlannedRoutes(u)
  BY DEF RemoveTarget, Become
<1>3. Good(u)
  BY <1>1, WithdrawGood
<1> QED
  BY <1>2, <1>3, InvalidateGood

LEMMA ClearPendingTargetsStep ==
  ASSUME Good(co), ClearPendingTargets
  PROVE  Good(co')
<1> DEFINE s == Begin
<1> DEFINE u == [s EXCEPT !.pending = s.pending \ s.pending,
                          !.withdrawn = s.withdrawn \cup s.pending]
<1>1. Good(s)
  BY BeginGood
<1>2. s.pending \ s.pending = {}
  OBVIOUS
<1>3. co' = InvalidatePlannedRoutes(u)
  BY <1>2, Zenon DEF ClearPendingTargets, Become
<1> HIDE DEF s
<1>4. Good(u)
  BY <1>1, WithdrawGood
<1> QED
  BY <1>3, <1>4, InvalidateGood

LEMMA EligibleSubset ==
  ASSUME NEW s
  PROVE  EligibleDrones(s) \in SUBSET Drones
BY DEF EligibleDrones

LEMMA CalculateStep ==
  ASSUME Good(co), NEW recalculate \in BOOLEAN, Calculate(recalculate)
  PROVE  Good(co')
<1>1. Good(Begin) /\ Begin \in Memory
  BY BeginGood DEF Good
<1>2. RoutableTargets(Begin, recalculate) = RoutableTargets(co, recalculate)
  BY BeginFields DEF Good, RoutableTargets
<1>3. PICK plan \in RouteSolutions(EligibleDrones(co), RoutableTargets(co, recalculate)) :
        co' = CalculateRoutes(Begin, recalculate, plan)
  BY DEF Calculate, Become
<1> QED
  BY <1>1, <1>2, <1>3, EligibleSubset, CalculateGood DEF Good

LEMMA StartMissionStep ==
  ASSUME Good(co), StartMission
  PROVE  Good(co')
<1>1. CanDispatch(Begin)
  BY BeginFields
     DEF Good, StartMission, CanDispatch, DroneReadyForMission, DroneHealthy,
         RoutableTargets
<1> QED
  BY <1>1, BeginGood, DispatchGood DEF Good, StartMission, Become

LEMMA CancelActiveMissionStep ==
  ASSUME Good(co), CancelActiveMission
  PROVE  Good(co')
BY BeginGood, AbortGood, Zenon DEF Good, CancelActiveMission, Become

LEMMA ReturnHomeStep ==
  ASSUME Good(co), NEW selection \in Selections, ReturnHome(selection)
  PROVE  Good(co')
<1>1. HomeEligible(co, selection) \in SUBSET Drones
  BY DEF HomeEligible, Selections
<1>2. "HOME" \in HomeKinds
  BY DEF HomeKinds
<1>3. Good(Begin) /\ Begin.phase = "IDLE"
  BY BeginGood DEF ReturnHome
<1>4. co' = StartHomeMission(Begin, HomeEligible(co, selection), "HOME")
  BY DEF ReturnHome, Become
<1> QED
  BY <1>1, <1>2, <1>3, <1>4, StartHomeGood DEF Good

LEMMA SettingStep ==
  ASSUME co \in Memory, NEW s, Good(s), NEW kind \in SettingKinds, NEW d \in Drones
  PROVE  Good(PublishNew(s, kind, co.activeMission, co.activeRevision, {d}))
<1>1. co.activeMission \in Nat /\ co.activeRevision \in Nat
  BY BooksField
<1>2. kind \in Kinds
  BY DEF Kinds
<1> QED
  BY <1>1, <1>2, PublishNewFields, GoodFrame DEF Good

LEMMA SetDroneSpeedStep ==
  ASSUME Good(co), NEW d \in Drones, SetDroneSpeed(d)
  PROVE  Good(co')
<1>1. Good(InvalidatePlannedRoutes(Begin)) /\ co \in Memory
  BY BeginGood, InvalidateGood DEF Good
<1> QED
  BY <1>1, SettingStep DEF SetDroneSpeed, Become, SettingKinds

LEMMA SetDroneLidarRangeStep ==
  ASSUME Good(co), NEW d \in Drones, SetDroneLidarRange(d)
  PROVE  Good(co')
<1>1. Good(Begin) /\ co \in Memory
  BY BeginGood DEF Good
<1> QED
  BY <1>1, SettingStep DEF SetDroneLidarRange, Become, SettingKinds

LEMMA LandStep ==
  ASSUME Good(co), NEW selection \in Selections, Land(selection)
  PROVE  Good(co')
<1> DEFINE ds == {d \in selection : Connected(d) /\ co.enabled[d]}
<1> DEFINE t == InvalidatePlannedRoutes(
                  SetLanding(EraseAux(DetachDroneRoutes(Begin, ds), ds), ds, TRUE))
<1> DEFINE u == PublishCancellations(t, Begin, ds)
<1>1. ds \in SUBSET Drones
  BY DEF Selections
<1>2. Good(Begin) /\ Begin.phase = "IDLE"
  BY BeginGood DEF Land
<1>3. co' = PublishFlightCommand(u, "LAND", ds)
  BY DEF Land, Become
<1> HIDE DEF ds
<1>4. Good(t)
  BY <1>1, <1>2, ReleaseGood, Zenon
<1> HIDE DEF t
<1>5. Good(u)
  BY <1>1, <1>2, <1>4, PublishCancellationsFields, GoodFrame DEF Good
<1> HIDE DEF u
<1> QED
  BY <1>1, <1>3, <1>5, FlightGood DEF Kinds, FlightKinds

LEMMA FlightControlStep ==
  ASSUME Good(co), NEW kind \in {"ARM", "TAKEOFF"}, NEW selection \in Selections,
         FlightControl(kind, selection)
  PROVE  Good(co')
<1> DEFINE ds == {d \in selection : DroneHealthy(co, d)}
<1> DEFINE t == InvalidatePlannedRoutes(
                  SetLanding(EraseAux(DetachDroneRoutes(Begin, ds), ds), ds, FALSE))
<1>1. ds \in SUBSET Drones
  BY DEF Selections
<1>2. Good(Begin) /\ Begin.phase = "IDLE"
  BY BeginGood DEF FlightControl
<1>3. co' = PublishFlightCommand(t, kind, ds)
  BY DEF FlightControl, Become
<1> HIDE DEF ds
<1>4. Good(t)
  BY <1>1, <1>2, ReleaseGood, Zenon
<1> HIDE DEF t
<1> QED
  BY <1>1, <1>3, <1>4, FlightGood DEF Kinds, FlightKinds

LEMMA ForceDisarmStep ==
  ASSUME Good(co), NEW selection \in Selections, ForceDisarm(selection)
  PROVE  Good(co')
<1> DEFINE ds == {d \in selection : link[d] # "silent" /\ vehicle[d] # "grounded"}
<1> DEFINE s == IF co.phase = "IDLE" THEN Begin ELSE AbortActiveMission(Begin, TRUE)
<1> DEFINE t == InvalidatePlannedRoutes(
                  SetLanding(EraseAux(DetachDroneRoutes(s, ds), ds), ds, FALSE))
<1>1. ds \in SUBSET Drones
  BY DEF Selections
<1>2. Good(s) /\ s.phase = "IDLE"
  BY BeginGood, AbortGood, Zenon DEF Good
<1>3. co' = PublishFlightCommand(t, "FORCE_DISARM", ds)
  BY DEF ForceDisarm, Become
<1> HIDE DEF ds, s
<1>4. Good(t)
  BY <1>1, <1>2, ReleaseGood, Zenon
<1> HIDE DEF t
<1> QED
  BY <1>1, <1>3, <1>4, FlightGood DEF Kinds, FlightKinds

LEMMA DisableDroneStep ==
  ASSUME Good(co), NEW d \in Drones, DisableDrone(d)
  PROVE  Good(co')
<1> DEFINE s == Begin
<1> DEFINE e == [s EXCEPT !.enabled[d] = FALSE]
<1> DEFINE i == InvalidatePlannedRoutes(e)
<1> DEFINE off == EraseAux(DetachDroneRoutes(i, {d}), {d})
<1>1. Good(s) /\ s.phase = "IDLE" /\ s \in Memory
  BY BeginGood DEF DisableDrone, Good
<1>2. \/ co' = off
      \/ d \in Owners(s.aux) /\ co' = PublishCancelCommand(off, s.aux[d].mission, 1, {d})
      \/ co' = PublishCancelCommand(off, s.activeMission, s.activeRevision, {d})
  BY DEF DisableDrone, Become
<1> HIDE DEF s
<1>3. e \in Memory /\ SameBuffers(s, e) /\ SameOwners(s, e)
  BY <1>1, Zenon DEF Memory, SameBuffers, SameOwners
<1> HIDE DEF e
<1>4. Good(e) /\ e.phase = "IDLE"
  BY <1>1, <1>3, GoodFrame
<1>5. Good(i) /\ i.phase = "IDLE"
  BY <1>4, InvalidateGood
<1> HIDE DEF i
<1>6. Good(off)
  BY <1>5, ReleaseDrones DEF Good
<1> HIDE DEF off
<1>7. /\ s.activeMission \in Nat /\ s.activeRevision \in Nat
      /\ s.aux[d].mission \in Nat
  BY <1>1, BooksField DEF Aux
<1>8. \A mission, revision \in Nat :
        Good(PublishCancelCommand(off, mission, revision, {d}))
  BY <1>6, PublishCancelFields, GoodFrame DEF Good
<1> QED
  BY <1>2, <1>6, <1>7, <1>8

LEMMA EnableDroneStep ==
  ASSUME Good(co), NEW d \in Drones, EnableDrone(d)
  PROVE  Good(co')
<1> DEFINE s == Begin
<1> DEFINE e == [s EXCEPT !.enabled[d] = TRUE, !.excluded[d] = FALSE,
                          !.returnHome[d] = FALSE]
<1>1. Good(s) /\ s \in Memory
  BY BeginGood DEF Good
<1>2. co' = InvalidatePlannedRoutes(e)
  BY DEF EnableDrone, Become
<1> HIDE DEF s
<1>3. e \in Memory /\ SameBuffers(s, e) /\ SameOwners(s, e)
  BY <1>1, Zenon DEF Memory, SameBuffers, SameOwners
<1> HIDE DEF e
<1>4. Good(e)
  BY <1>1, <1>3, GoodFrame
<1> QED
  BY <1>2, <1>4, InvalidateGood

LEMMA OnMissionFeedbackStep ==
  ASSUME Good(co), NEW fb \in AnyFeedback, OnMissionFeedback(fb)
  PROVE  Good(co')
<1>1. Good(Begin) /\ co \in Memory
  BY BeginGood DEF Good
<1>2. co' = FeedbackResult(Begin, fb)
  BY DEF OnMissionFeedback, Become
<1>3. PICK d \in Drones :
        \/ co.aux[d].id # 0 /\ fb \in AuxFeedbacks(d)
        \/ \E route \in {co.provisional[d], co.current[d]} : fb \in RouteFeedbacks(d, route)
  BY DEF AnyFeedback
<1>4. CASE co.aux[d].id # 0 /\ fb \in AuxFeedbacks(d)
  <2>1. PICK state \in FeedbackStates :
          fb = Feedback(co.aux[d].command, co.aux[d].mission, 1, d, co.aux[d].id, state, 0)
    BY <1>4 DEF AuxFeedbacks
  <2>2. co.aux[d] \in Aux
    BY <1>1, BooksField
  <2>3. fb \in Feedbacks
    BY <2>1, <2>2 DEF Feedback, Feedbacks, Aux
  <2>4. MatchesAux(Begin, fb)
    BY <1>1, <1>4, <2>1, BeginFields DEF MatchesAux, Feedback
  <2> QED
    BY <1>1, <1>2, <2>3, <2>4, FeedbackGood DEF Good, Timely
<1>5. ASSUME NEW route \in {co.provisional[d], co.current[d]},
             fb \in RouteFeedbacks(d, route)
      PROVE  Good(co')
  <2>1. route \in Route
    BY <1>1, BooksField DEF Books
  <2>2. route.id \in Nat
    BY <2>1 DEF Route
  <2>3. PICK state \in FeedbackStates, n \in 0..Len(route.targets) :
          fb = Feedback(co.activeCommand, co.activeMission, co.activeRevision, d,
                        route.id, state, n)
    BY <1>5 DEF RouteFeedbacks
  <2>4. /\ co.activeCommand \in Nat /\ co.activeMission \in Nat
        /\ co.activeRevision \in Nat /\ n \in Nat
    BY <1>1, BooksField
  <2>5. fb \in Feedbacks
    BY <2>2, <2>3, <2>4 DEF Feedback, Feedbacks
  <2>6. CurrentBroadcast(Begin, fb)
    BY <1>1, <2>3, BeginFields DEF CurrentBroadcast, Feedback
  <2> QED
    BY <1>1, <1>2, <2>5, <2>6, FeedbackGood DEF Good, Timely, CurrentBroadcast
<1> QED
  BY <1>3, <1>4, <1>5

LEMMA EventsOfOthersType ==
  ASSUME NEW s \in Memory, NEW d
  PROVE  EventsOfOthers(s, d) \in Seq(Events)
<1> DEFINE kept == {i \in DOMAIN s.events : s.events[i].drone # d}
<1> DEFINE k == Cardinality(kept)
<1>1. s.events \in Seq(Events)
  BY BooksField
<1>2. Len(s.events) \in Nat /\ DOMAIN s.events = 1..Len(s.events)
  BY <1>1, LenProperties
<1>3. kept \in SUBSET (1..Len(s.events))
  BY <1>2
<1>4. k \in Nat
  <2>1. IsFiniteSet(1..Len(s.events))
    BY <1>2, FS_Interval
  <2> HIDE DEF kept
  <2>2. IsFiniteSet(kept)
    BY <1>3, <2>1, FS_Subset, Zenon
  <2> QED
    BY <2>2, FS_CardinalityType
<1>5. EventsOfOthers(s, d) = [n \in 1..k |-> s.events[Nth(kept, n)]]
  BY DEF EventsOfOthers, Picked
<1> HIDE DEF kept
<1>6. ASSUME NEW n \in 1..k
      PROVE  s.events[Nth(kept, n)] \in Events
  <2>1. Nth(kept, n) \in 1..Len(s.events)
    BY <1>2, <1>3, NthType, Zenon
  <2> QED
    BY <1>1, <2>1, ElementOfSeq
<1> HIDE DEF k
<1>7. EventsOfOthers(s, d) \in [1..k -> Events]
  BY <1>5, <1>6
<1> QED
  BY <1>4, <1>7, SeqDef

LEMMA OnDroneHeartbeatStep ==
  ASSUME Good(co), NEW d \in Drones, NEW battery \in BatteryStates,
         OnDroneHeartbeat(d, battery)
  PROVE  Good(co')
<1> DEFINE b == Begin
<1> DEFINE s == [b EXCEPT !.batteryOk[d] = (battery = "NORMAL")]
<1> DEFINE event == [drone |-> d, battery |-> battery]
<1> DEFINE q == Queued(s, event)
<1> DEFINE raised == [s EXCEPT !.excluded[d] = TRUE,
                        !.returnHome[d] = (battery = "RETURN_HOME"),
                        !.lastEvent[d] = battery, !.events = q]
<1> DEFINE calmed == [s EXCEPT !.lastEvent[d] = "NORMAL"]
<1>1. Good(b) /\ b \in Memory
  BY BeginGood DEF Good
<1>2. co' = raised \/ co' = calmed \/ co' = s
  BY DEF OnDroneHeartbeat
<1> HIDE DEF b
<1>9. event.drone = d
  OBVIOUS
<1>3. s \in Memory /\ SameBuffers(b, s) /\ SameOwners(b, s)
  BY <1>1, Zenon DEF Memory, SameBuffers, SameOwners
<1> HIDE DEF s
<1>4. Good(s)
  BY <1>1, <1>3, GoodFrame
<1>5. q \in Seq(Events)
  <2>1. event \in Events
    BY DEF Events
  <2> HIDE DEF event
  <2>2. <<event>> \in Seq(Events)
    BY <2>1
  <2>3. <<event>> \o EventsOfOthers(s, d) \in Seq(Events)
    BY <1>3, <2>2, EventsOfOthersType, ConcatProperties
  <2>4. Append(s.events, event) \in Seq(Events)
    BY <1>3, <2>1, BooksField, AppendProperties
  <2> QED
    BY <1>9, <2>3, <2>4 DEF Queued
<1> HIDE DEF q
<1>6. raised \in Memory /\ SameBuffers(s, raised) /\ SameOwners(s, raised)
  BY <1>3, <1>5, Zenon DEF Memory, SameBuffers, SameOwners
<1>7. calmed \in Memory /\ SameBuffers(s, calmed) /\ SameOwners(s, calmed)
  BY <1>3, Zenon DEF Memory, SameBuffers, SameOwners, BatteryStates
<1> HIDE DEF raised, calmed
<1> QED
  BY <1>2, <1>4, <1>6, <1>7, GoodFrame

LEMMA SafetyResponseGood ==
  ASSUME NEW s, Good(s), s.phase = "IDLE", NEW event \in Events
  PROVE  Good(SafetyResponse(s, event))
<1> DEFINE d == event.drone
<1>1. d \in Drones
  BY DEF Events
<1>2. CASE event.battery = "EMERGENCY_LAND"
  <2> DEFINE t == EraseAux(DetachDroneRoutes(s, {d}), {d})
  <2> DEFINE x == [t EXCEPT !.excluded[d] = TRUE]
  <2>1. SafetyResponse(s, event) = PublishFlightCommand(x, "LAND", {d})
    BY <1>2 DEF SafetyResponse
  <2> HIDE DEF d
  <2>2. Good(t)
    BY <1>1, ReleaseDrones DEF Good
  <2> HIDE DEF t
  <2>3. x \in Memory /\ SameBuffers(t, x) /\ SameOwners(t, x)
    BY <2>2, Zenon DEF Good, Memory, SameBuffers, SameOwners
  <2> HIDE DEF x
  <2>4. Good(x)
    BY <2>2, <2>3, GoodFrame
  <2> QED
    BY <1>1, <2>1, <2>4, FlightGood DEF Kinds, FlightKinds
<1>3. CASE event.battery # "EMERGENCY_LAND"
  <2> DEFINE homing == HomeEligible(s, {d})
  <2> DEFINE h == IF homing = {} THEN s
                  ELSE StartHomeMission(s, homing, "LOW_BATTERY_RTH")
  <2> DEFINE x == [h EXCEPT !.excluded[d] = TRUE, !.returnHome[d] = (homing # {})]
  <2>1. SafetyResponse(s, event) = x
    BY <1>3 DEF SafetyResponse
  <2>2. homing \in SUBSET Drones
    BY <1>1 DEF HomeEligible
  <2> HIDE DEF homing
  <2>3. Good(h)
    BY <2>2, StartHomeGood DEF Good, HomeKinds
  <2> HIDE DEF h, d
  <2>4. x \in Memory /\ SameBuffers(h, x) /\ SameOwners(h, x)
    BY <2>3 DEF Good, Memory, SameBuffers, SameOwners
  <2> HIDE DEF x
  <2> QED
    BY <2>1, <2>3, <2>4, GoodFrame
<1> QED
  BY <1>2, <1>3

LEMMA RecoveredGood ==
  ASSUME NEW s, Good(s), NEW t \in Recovered(s)
  PROVE  Good(t)
<1> DEFINE recalculate == Owners(s.current) # {}
<1>1. CASE t = s
  BY <1>1
<1>2. CASE t # s
  <2>1. PICK plan \in RouteSolutions(EligibleDrones(s), RoutableTargets(s, recalculate)) :
          LET p == CalculateRoutes(s, recalculate, plan)
          IN  t = IF CanDispatch(p) THEN DispatchPlannedMission(p) ELSE p
    BY <1>2 DEF Recovered
  <2> DEFINE p == CalculateRoutes(s, recalculate, plan)
  <2>2. Good(p)
    BY EligibleSubset, CalculateGood, Zenon DEF Good
  <2>3. t = IF CanDispatch(p) THEN DispatchPlannedMission(p) ELSE p
    BY <2>1
  <2> HIDE DEF p
  <2> QED
    BY <2>2, <2>3, DispatchGood DEF Good
<1> QED
  BY <1>1, <1>2

LEMMA HandleSafetyEventStep ==
  ASSUME Good(co), HandleSafetyEvent
  PROVE  Good(co')
<1> DEFINE b == Begin
<1> DEFINE q == Tail(b.events)
<1> DEFINE s == [b EXCEPT !.events = q]
<1>1. Good(b) /\ b.phase = "IDLE" /\ b \in Memory
  BY BeginGood DEF HandleSafetyEvent, Good
<1>2. co.events \in Seq(Events) /\ co.events # <<>>
  BY BooksField DEF Good, HandleSafetyEvent
<1>3. b.events = co.events
  BY DEF Good, Begin, Memory
<1>4. co' \in Recovered(SafetyResponse(s, Head(co.events)))
  BY DEF HandleSafetyEvent, Become
<1> HIDE DEF b
<1>5. q \in Seq(Events) /\ Head(co.events) \in Events
  BY <1>2, <1>3, HeadTailProperties
<1> HIDE DEF q
<1>6. s \in Memory /\ SameBuffers(b, s) /\ SameOwners(b, s)
  BY <1>1, <1>5, Zenon DEF Memory, SameBuffers, SameOwners
<1> HIDE DEF s
<1>7. Good(s) /\ s.phase = "IDLE"
  BY <1>1, <1>6, GoodFrame
<1> QED
  BY <1>4, <1>5, <1>7, SafetyResponseGood, RecoveredGood

LEMMA DispatchTimeoutStep ==
  ASSUME Good(co), DispatchTimeout
  PROVE  Good(co')
BY BeginGood, FailGood DEF Good, DispatchTimeout, Become

LEMMA OnVehicleStateStep ==
  ASSUME Good(co), NEW d \in Drones, NEW v \in Vehicles, NEW localized \in BOOLEAN,
         OnVehicleState(d, v, localized)
  PROVE  Good(co')
<1> DEFINE b == Begin
<1> DEFINE t == [b EXCEPT !.landing[d] = b.landing[d] /\ v # "grounded"]
<1>1. Good(b) /\ b \in Memory
  BY BeginGood DEF Good
<1>2. co' = t
  BY DEF OnVehicleState
<1> HIDE DEF b
<1>3. t \in Memory /\ SameBuffers(b, t) /\ SameOwners(b, t)
  BY <1>1, Zenon DEF Memory, SameBuffers, SameOwners
<1> HIDE DEF t
<1> QED
  BY <1>1, <1>2, <1>3, GoodFrame

LEMMA LinkLossStep ==
  ASSUME Good(co), NEW d \in Drones, NEW l \in Links, LinkLoss(d, l)
  PROVE  Good(co')
BY BeginGood DEF LinkLoss

-----------------------------------------------------------------------------
(* The theorems.                                                           *)

LEMMA InitGood == Init => InductiveInvariant
<1> SUFFICES ASSUME Init PROVE InductiveInvariant
  OBVIOUS
<1>1. /\ co.pending = {} /\ co.active = {} /\ co.reported = {} /\ co.withdrawn = {}
      /\ co.current = NoRoutes /\ co.provisional = NoRoutes /\ co.planned = NoRoutes
      /\ co.aux = [d \in Drones |-> NoAux] /\ co.phase = "IDLE" /\ co.nextTarget = 1
  BY DEF Init, Started
<1>2. co \in Memory
  <2>1. <<>> \in Seq(Events) /\ <<>> \in Seq(Broadcasts)
    BY EmptySeq
  <2>2. /\ [d \in Drones |-> NoAux] \in [Drones -> Aux]
        /\ [d \in Drones |-> FALSE] \in [Drones -> BOOLEAN]
        /\ [d \in Drones |-> TRUE] \in [Drones -> BOOLEAN]
        /\ [d \in Drones |-> "NORMAL"] \in [Drones -> BatteryStates]
    BY NoRouteType DEF BatteryStates
  <2>3. NoRoutes \in Books
    BY NoRouteType
  <2> QED
    BY <2>1, <2>2, <2>3 DEF Init, Started, Memory
<1>3. Sound(co, NoRoutes)
  BY SoundNoRoutes
<1>4. Submitted(co) = {}
  BY <1>1 DEF Submitted
<1>5. Known(co) /\ Accounted(co)
  BY <1>1, <1>4, NoOwners DEF Known, Accounted
<1>6. Consistent(co)
  BY <1>1, <1>3, <1>5, NoOwners DEF Consistent, Awaited, Placed, Sound
<1>7. Exclusive(co)
  <2>1. Owners(co.aux) = {}
    BY <1>1 DEF Owners, NoAux
  <2> QED
    BY <1>1, <2>1, NoOwners DEF Exclusive, Assigned
<1>8. link \in [Drones -> Links] /\ vehicle \in [Drones -> Vehicles]
  BY DEF Init, Started, Links, Vehicles
<1> QED
  BY <1>2, <1>6, <1>7, <1>8 DEF InductiveInvariant, Good

(* No operation of an operator, of the timer, of a drone or of the links   *)
(* disturbs the memory of the node.                                        *)
LEMMA NextGood == Good(co) /\ Next => Good(co')
<1> SUFFICES ASSUME Good(co), Next PROVE Good(co')
  OBVIOUS
<1>1. CASE Operator
  <2>1. CASE AddTarget
    BY <2>1, AddTargetStep
  <2>2. CASE \E t \in co.pending : RemoveTarget(t)
    BY <2>2, RemoveTargetStep
  <2>3. CASE ClearPendingTargets
    BY <2>3, ClearPendingTargetsStep
  <2>4. CASE \E recalculate \in BOOLEAN : Calculate(recalculate)
    BY <2>4, CalculateStep
  <2>5. CASE StartMission
    BY <2>5, StartMissionStep
  <2>6. CASE CancelActiveMission
    BY <2>6, CancelActiveMissionStep
  <2>7. CASE \E selection \in Selections : ReturnHome(selection)
    BY <2>7, ReturnHomeStep
  <2>8. CASE \E selection \in Selections : Land(selection)
    BY <2>8, LandStep
  <2>9. CASE \E kind \in {"ARM", "TAKEOFF"}, selection \in Selections :
               FlightControl(kind, selection)
    BY <2>9, FlightControlStep
  <2>10. CASE \E selection \in Selections : ForceDisarm(selection)
    BY <2>10, ForceDisarmStep
  <2>11. CASE \E d \in Drones : SetDroneSpeed(d)
    BY <2>11, SetDroneSpeedStep
  <2>12. CASE \E d \in Drones : SetDroneLidarRange(d)
    BY <2>12, SetDroneLidarRangeStep
  <2>13. CASE \E d \in Drones : DisableDrone(d)
    BY <2>13, DisableDroneStep
  <2>14. CASE \E d \in Drones : EnableDrone(d)
    BY <2>14, EnableDroneStep
  <2> QED
    BY <1>1, <2>1, <2>2, <2>3, <2>4, <2>5, <2>6, <2>7, <2>8, <2>9, <2>10, <2>11,
       <2>12, <2>13, <2>14 DEF Operator
<1>2. CASE Timer
  BY <1>2, DispatchTimeoutStep, HandleSafetyEventStep DEF Timer
<1>3. CASE \E d \in Drones, v \in Vehicles, localized \in BOOLEAN :
            OnVehicleState(d, v, localized)
  BY <1>3, OnVehicleStateStep
<1>4. CASE \E d \in Drones, b \in BatteryStates : OnDroneHeartbeat(d, b)
  BY <1>4, OnDroneHeartbeatStep
<1>5. CASE \E d \in Drones, l \in Links : LinkLoss(d, l)
  BY <1>5, LinkLossStep
<1>6. CASE \E fb \in AnyFeedback : OnMissionFeedback(fb)
  BY <1>6, OnMissionFeedbackStep
<1> QED
  BY <1>1, <1>2, <1>3, <1>4, <1>5, <1>6 DEF Next, Reports

(* Only the environment touches what the node hears.                       *)
LEMMA EnvironmentTypes ==
  ASSUME InductiveInvariant, Next
  PROVE  link' \in [Drones -> Links] /\ vehicle' \in [Drones -> Vehicles]
<1>1. link \in [Drones -> Links] /\ vehicle \in [Drones -> Vehicles]
  BY DEF InductiveInvariant
<1>2. CASE UNCHANGED <<link, vehicle>>
  BY <1>1, <1>2
<1>3. ASSUME NEW d \in Drones, NEW v \in Vehicles, NEW localized \in BOOLEAN,
         OnVehicleState(d, v, localized)
      PROVE  link' \in [Drones -> Links] /\ vehicle' \in [Drones -> Vehicles]
  BY <1>1, <1>3 DEF OnVehicleState, Links
<1>4. ASSUME NEW d \in Drones, NEW b \in BatteryStates, OnDroneHeartbeat(d, b)
      PROVE  link' \in [Drones -> Links] /\ vehicle' \in [Drones -> Vehicles]
  BY <1>1, <1>4 DEF OnDroneHeartbeat, Links
<1>5. ASSUME NEW d \in Drones, NEW l \in Links, LinkLoss(d, l)
      PROVE  link' \in [Drones -> Links] /\ vehicle' \in [Drones -> Vehicles]
  BY <1>1, <1>5 DEF LinkLoss
<1>6. Operator => UNCHANGED <<link, vehicle>>
  BY DEF Operator, Become, AddTarget, RemoveTarget, ClearPendingTargets, Calculate,
         StartMission, CancelActiveMission, ReturnHome, Land, FlightControl,
         ForceDisarm, SetDroneSpeed, SetDroneLidarRange, DisableDrone, EnableDrone
<1>7. Timer => UNCHANGED <<link, vehicle>>
  BY DEF Timer, DispatchTimeout, HandleSafetyEvent, Become
<1>8. (\E fb \in AnyFeedback : OnMissionFeedback(fb)) => UNCHANGED <<link, vehicle>>
  BY DEF OnMissionFeedback, Become
<1> QED
  BY <1>2, <1>3, <1>4, <1>5, <1>6, <1>7, <1>8 DEF Next, Reports

(* The inductive invariant holds in every state of the coordinator.        *)
THEOREM Invariance == Spec => []InductiveInvariant
<1>1. InductiveInvariant /\ [Next]_vars => InductiveInvariant'
  <2> SUFFICES ASSUME InductiveInvariant, [Next]_vars
               PROVE  InductiveInvariant'
    OBVIOUS
  <2>1. CASE Next
    BY <2>1, NextGood, EnvironmentTypes DEF InductiveInvariant, Good
  <2>2. CASE UNCHANGED vars
    BY <2>2, Zenon DEF vars, InductiveInvariant, Good, Consistent, Exclusive, Awaited,
                Accounted, Known, Placed, Sound, Honest, Separate, Assigned, Submitted
  <2> QED
    BY <2>1, <2>2
<1> QED
  BY <1>1, InitGood, PTL DEF Spec

(* The coordinator's memory keeps its types, however many drones, targets  *)
(* and commands there are.                                                 *)
THEOREM TypeCorrectness == Spec => []TypeOK
<1>1. InductiveInvariant => TypeOK
  BY DEF InductiveInvariant, Good, TypeOK
<1> QED
  BY <1>1, Invariance, PTL

(* The phase WAITING_FOR_FEEDBACK always has a provisional route to wait   *)
(* for, so the early return of failProvisional never strands it.           *)
THEOREM WaitingIsForSomeone == Spec => []WaitsForSomeone
<1>1. InductiveInvariant => WaitsForSomeone
  BY DEF InductiveInvariant, Good, Consistent, WaitsForSomeone
<1> QED
  BY <1>1, Invariance, PTL

(* Every submitted target is pending, active, reported complete or taken   *)
(* back: no path through the buffers of the node loses one.                *)
THEOREM TargetsAreKept == Spec => []NoTargetLost
<1>1. InductiveInvariant => NoTargetLost
  BY DEF InductiveInvariant, Good, Consistent, NoTargetLost
<1> QED
  BY <1>1, Invariance, PTL

(* An active target is on a route and in no other place.                   *)
THEOREM TargetsArePlacedOnce == Spec => []TargetInOnePlace
<1>1. InductiveInvariant => TargetInOnePlace
  BY DEF InductiveInvariant, Good, Consistent, TargetInOnePlace
<1> QED
  BY <1>1, Invariance, PTL

(* No drone is on a mission route and on its way home at once.             *)
THEOREM RoutesAreExclusive == Spec => []OneRouteAtATime
<1>1. InductiveInvariant => OneRouteAtATime
  BY DEF InductiveInvariant, Good, OneRouteAtATime
<1> QED
  BY <1>1, Invariance, PTL

(* The buffers, the books and the phase agree.                             *)
THEOREM BooksAgree == Spec => []Consistency
<1>1. InductiveInvariant => Consistency
  BY DEF InductiveInvariant, Good, Consistency
<1> QED
  BY <1>1, Invariance, PTL

-----------------------------------------------------------------------------
(* What each helper does to the books the drones and the timer can notice. *)

SameBooks(s, t) ==
  /\ t.current = s.current /\ t.provisional = s.provisional
  /\ t.aux = s.aux /\ t.phase = s.phase

CancelAll(s) ==
  Broadcast("CANCEL", s.nextCommand, s.activeMission, s.activeRevision, Drones, NoOrders)

(* The mission is over: its books are empty.                               *)
Emptied(s, t) ==
  /\ t.current = NoRoutes /\ t.provisional = NoRoutes /\ t.planned = NoRoutes
  /\ t.aux = s.aux /\ t.phase = "IDLE" /\ ~t.recalculation
  /\ SameVersions(s, t) /\ SameSafety(s, t)

LEMMA AbortEffect ==
  ASSUME NEW s \in Memory, NEW publishCancel \in BOOLEAN
  PROVE  LET t == AbortActiveMission(s, publishCancel)
         IN  /\ t \in Memory /\ Emptied(s, t)
             /\ IF publishCancel /\ s.activeMission # 0
                THEN Posts(s, t, CancelAll(s)) ELSE SaysNothing(s, t)
<1> DEFINE c == ClearMission(s)
<1> DEFINE u == IF publishCancel
                THEN PublishCancelCommand(c, s.activeMission, s.activeRevision, Drones)
                ELSE c
<1>1. /\ c \in Memory /\ Emptied(s, c) /\ SaysNothing(s, c)
  BY ClearMissionFields DEF Emptied
<1>2. /\ u \in Memory /\ Emptied(s, u)
      /\ IF publishCancel /\ s.activeMission # 0
         THEN Posts(s, u, CancelAll(s)) ELSE SaysNothing(s, u)
  <2>1. CASE publishCancel
    <3> DEFINE w == PublishCancelCommand(c, s.activeMission, s.activeRevision, Drones)
    <3>1. /\ w \in Memory /\ SameBuffers(c, w) /\ SameOwners(c, w) /\ w.planned = c.planned
          /\ IF s.activeMission = 0 THEN Silent(c, w)
             ELSE Says(c, w, Broadcast("CANCEL", c.nextCommand, s.activeMission,
                                       s.activeRevision, Drones, NoOrders))
      BY <1>1, BooksField, PublishCancelFields
    <3>2. u = w
      BY <2>1
    <3> HIDE DEF w, u, c
    <3>3. Emptied(s, w)
      BY <1>1, <3>1 DEF Emptied, SameBuffers, SameOwners, Silent, Says, SameVersions, SameSafety
    <3>4. IF s.activeMission # 0 THEN Posts(s, w, CancelAll(s)) ELSE SaysNothing(s, w)
      BY <1>1, <3>1 DEF Silent, Says, Posts, SaysNothing, CancelAll
    <3> QED
      BY <2>1, <3>1, <3>2, <3>3, <3>4
  <2>2. CASE ~publishCancel
    BY <1>1, <2>2
  <2> QED
    BY <2>1, <2>2
<1>3. AbortActiveMission(s, publishCancel) = ReleaseUnassignedDrones(u)
  BY DEF AbortActiveMission
<1> HIDE DEF u, c
<1> DEFINE t == ReleaseUnassignedDrones(u)
<1>4. /\ t \in Memory /\ SameBuffers(u, t) /\ t.aux = u.aux /\ t.planned = u.planned
      /\ Silent(u, t)
  BY <1>2, ReleaseUnassignedFields, Zenon
<1> HIDE DEF t
<1>5. Emptied(s, t)
  BY <1>2, <1>4 DEF Emptied, SameBuffers, Silent, SameVersions, SameSafety
<1>6. IF publishCancel /\ s.activeMission # 0
      THEN Posts(s, t, CancelAll(s)) ELSE SaysNothing(s, t)
  BY <1>2, <1>4 DEF Silent, Posts, SaysNothing
<1> QED
  BY <1>3, <1>4, <1>5, <1>6 DEF t

LEMMA FinishEffect ==
  ASSUME NEW s \in Memory
  PROVE  LET t == FinishMission(s)
         IN  /\ t \in Memory
             /\ t.current = NoRoutes /\ t.planned = NoRoutes /\ t.active = {}
             /\ t.reported = s.reported /\ t.pending = s.pending
             /\ t.provisional = s.provisional /\ t.aux = s.aux /\ t.phase = s.phase
             /\ Silent(s, t)
<1> DEFINE b == [d \in Drones |-> d \in Owners(s.aux)]
<1> DEFINE t == [s EXCEPT !.busy = b, !.current = NoRoutes, !.active = {},
                          !.planned = NoRoutes, !.plannedRecalc = FALSE]
<1>1. b \in [Drones -> BOOLEAN]
  OBVIOUS
<1>2. FinishMission(s) = t
  BY DEF FinishMission, InvalidatePlannedRoutes
<1> HIDE DEF b
<1>4. t \in Memory
  BY <1>1, NoRouteType, Zenon DEF Memory
<1>5. /\ t.current = NoRoutes /\ t.planned = NoRoutes /\ t.active = {}
      /\ t.reported = s.reported /\ t.pending = s.pending
      /\ t.provisional = s.provisional /\ t.aux = s.aux /\ t.phase = s.phase
      /\ Silent(s, t)
  BY DEF Memory, Silent, SaysNothing, SameVersions, SameSafety
<1> QED
  BY <1>2, <1>4, <1>5

LEMMA CommitEffect ==
  ASSUME NEW s \in Memory
  PROVE  LET t == CommitProvisional(s)
         IN  /\ t \in Memory
             /\ t.current = IF AllFinished(s.provisional) THEN NoRoutes ELSE s.provisional
             /\ t.provisional = NoRoutes /\ ~t.recalculation
             /\ t.planned = s.planned \/ t.planned = NoRoutes
             /\ t.aux = s.aux /\ t.phase = "IDLE" /\ t.reported = s.reported
             /\ ~AllFinished(s.provisional) =>
                  /\ s.active \subseteq t.active
                  /\ UNION {UnfinishedStops(s.provisional[d]) : d \in Drones} \subseteq t.active
             /\ SameVersions(s, t) /\ SameSafety(s, t) /\ SaysNothing(s, t)
<1> DEFINE unfinished == UNION {UnfinishedStops(s.provisional[d]) : d \in Drones}
<1> DEFINE a == s.active \cup unfinished
<1> DEFINE p == s.pending \ unfinished
<1> DEFINE t == [s EXCEPT !.active = a, !.pending = p,
                          !.current = s.provisional, !.provisional = NoRoutes,
                          !.phase = "IDLE", !.recalculation = FALSE]
<1>1. s.provisional \in Books
  BY BooksField
<1>2. a \in SUBSET Nat /\ p \in SUBSET Nat
  BY <1>1, BooksField, BookStopsType, Zenon
<1>3. s.active \subseteq a /\ unfinished \subseteq a
  OBVIOUS
<1>4. CommitProvisional(s) =
        IF AllFinished(s.provisional) THEN FinishMission(t) ELSE t
  BY DEF CommitProvisional
<1> HIDE DEF a, p
<1>6. t \in Memory
  BY <1>1, <1>2, NoRouteType, Zenon DEF Memory
<1>7. /\ t.current = s.provisional /\ t.provisional = NoRoutes /\ ~t.recalculation
      /\ t.planned = s.planned /\ t.aux = s.aux /\ t.phase = "IDLE"
      /\ t.reported = s.reported /\ t.active = a
      /\ SameVersions(s, t) /\ SameSafety(s, t) /\ SaysNothing(s, t)
  BY DEF Memory, SameVersions, SameSafety, SaysNothing
<1> HIDE DEF t
<1>8. CASE ~AllFinished(s.provisional)
  BY <1>3, <1>4, <1>6, <1>7, <1>8
<1>9. CASE AllFinished(s.provisional)
  <2> DEFINE w == FinishMission(t)
  <2>1. /\ w \in Memory
        /\ w.current = NoRoutes /\ w.planned = NoRoutes /\ w.reported = t.reported
        /\ w.provisional = t.provisional /\ w.aux = t.aux /\ w.phase = t.phase
        /\ Silent(t, w)
    BY <1>6, FinishEffect
  <2> HIDE DEF w
  <2>2. SameVersions(s, w) /\ SameSafety(s, w) /\ SaysNothing(s, w) /\ ~w.recalculation
    BY <1>7, <2>1 DEF Silent, SameVersions, SameSafety, SaysNothing
  <2> QED
    BY <1>4, <1>7, <1>9, <2>1, <2>2 DEF w
<1> QED
  BY <1>8, <1>9

(* A dispatch that failed is called off for everyone; if it was a revision *)
(* the mission it revised goes with it.                                    *)
LEMMA FailEffect ==
  ASSUME NEW s \in Memory, Owners(s.provisional) # {}
  PROVE  LET t == FailProvisional(s)
         IN  /\ t \in Memory
             /\ t.current = IF s.recalculation THEN NoRoutes ELSE s.current
             /\ t.provisional = NoRoutes /\ ~t.recalculation
             /\ t.planned = s.planned \/ t.planned = NoRoutes
             /\ t.aux = s.aux /\ t.phase = "IDLE"
             /\ SameVersions(s, t) /\ SameSafety(s, t)
             /\ IF s.activeMission # 0 THEN Posts(s, t, CancelAll(s)) ELSE SaysNothing(s, t)
             /\ ~s.recalculation => t.active = s.active /\ t.reported = s.reported
<1> DEFINE t == [s EXCEPT !.provisional = NoRoutes, !.phase = "IDLE",
                          !.recalculation = FALSE]
<1> DEFINE u == PublishCancelCommand(t, s.activeMission, s.activeRevision, Drones)
<1>1. t \in Memory
  BY NoRouteType, Zenon DEF Memory
<1>2. /\ t.phase = "IDLE" /\ t.current = s.current /\ t.provisional = NoRoutes
      /\ t.planned = s.planned /\ t.aux = s.aux /\ ~t.recalculation
      /\ t.active = s.active /\ t.reported = s.reported
      /\ SameVersions(s, t) /\ SameSafety(s, t) /\ SaysNothing(s, t)
  BY DEF Memory, SameVersions, SameSafety, SaysNothing
<1>3. FailProvisional(s) = IF s.recalculation THEN AbortActiveMission(u, FALSE)
                           ELSE ReleaseUnassignedDrones(u)
  BY Zenon DEF FailProvisional
<1> HIDE DEF t
<1>4. /\ u \in Memory /\ SameBuffers(t, u) /\ SameOwners(t, u) /\ u.planned = t.planned
      /\ IF s.activeMission = 0 THEN Silent(t, u)
         ELSE Says(t, u, Broadcast("CANCEL", t.nextCommand, s.activeMission,
                                   s.activeRevision, Drones, NoOrders))
  BY <1>1, BooksField, PublishCancelFields
<1> HIDE DEF u
<1>5. /\ u.current = s.current /\ u.provisional = NoRoutes /\ ~u.recalculation
      /\ u.planned = s.planned /\ u.aux = s.aux /\ u.phase = "IDLE"
      /\ u.active = s.active /\ u.reported = s.reported
      /\ SameVersions(s, u) /\ SameSafety(s, u)
  BY <1>2, <1>4 DEF SameBuffers, SameOwners, Silent, Says, SameVersions, SameSafety
<1>6. IF s.activeMission # 0 THEN Posts(s, u, CancelAll(s)) ELSE SaysNothing(s, u)
  BY <1>2, <1>4 DEF Silent, Says, Posts, SaysNothing, CancelAll
<1>7. CASE s.recalculation
  <2> DEFINE w == AbortActiveMission(u, FALSE)
  <2>1. w \in Memory /\ Emptied(u, w) /\ SaysNothing(u, w)
    BY <1>4, AbortEffect, Zenon
  <2> HIDE DEF w
  <2> QED
    BY <1>3, <1>5, <1>6, <1>7, <2>1, Zenon
       DEF w, Emptied, SameVersions, SameSafety, SaysNothing, Posts
<1>8. CASE ~s.recalculation
  <2> DEFINE w == ReleaseUnassignedDrones(u)
  <2>1. /\ w \in Memory /\ SameBuffers(u, w) /\ w.aux = u.aux /\ w.planned = u.planned
        /\ Silent(u, w)
    BY <1>4, ReleaseUnassignedFields, Zenon
  <2> HIDE DEF w
  <2> QED
    BY <1>3, <1>5, <1>6, <1>8, <2>1
       DEF w, SameBuffers, Silent, SameVersions, SameSafety, SaysNothing, Posts
<1> QED
  BY <1>7, <1>8

-----------------------------------------------------------------------------
(* What CALCULATE plans: a kept route that has stops left, or a new one.   *)
Planned(s, t) ==
  \A d \in Owners(t.planned) :
    LET old == s.current[d]
        new == t.planned[d]
    IN  /\ new.targets # <<>> /\ ~new.accepted
        /\ \/ /\ new.id = old.id /\ new.finished = old.finished
              /\ old.completed < Len(old.targets)
           \/ s.nextRoute <= new.id /\ new.id < t.nextRoute /\ ~new.finished

Calculated(s, t) ==
  /\ SameBooks(s, t) /\ SameSafety(s, t) /\ SaysNothing(s, t)
  /\ t.recalculation = s.recalculation
  /\ t.activeCommand = s.activeCommand /\ t.activeMission = s.activeMission
  /\ t.activeRevision = s.activeRevision /\ t.nextMission = s.nextMission
  /\ s.nextRoute <= t.nextRoute
  /\ t.reported = s.reported /\ t.active = s.active
  /\ Planned(s, t)

LEMMA CountBelow ==
  ASSUME NEW ds \in SUBSET Drones, NEW d \in ds
  PROVE  Cardinality({e \in ds : e < d}) < Cardinality(ds)
<1> DEFINE S == {e \in ds : e < d}
<1>1. S \in SUBSET ds /\ IsFiniteSet(ds) /\ Cardinality(ds) \in Nat
  BY DroneSubsets
<1>2. Cardinality(S) \in Nat
  BY DroneSubsets
<1>3. Cardinality(S) <= Cardinality(ds) /\ (Cardinality(ds) = Cardinality(S) => ds = S)
  BY <1>1, FS_Subset
<1>4. d \notin S
  BY DronesAssumption DEF Drones
<1>5. S # ds
  BY <1>4
<1> HIDE DEF S
<1>6. Cardinality(S) < Cardinality(ds)
  BY <1>1, <1>2, <1>3, <1>5
<1> QED
  BY <1>6 DEF S

LEMMA CalculateEffect ==
  ASSUME NEW s \in Memory, NEW recalculate \in BOOLEAN,
         NEW plan, DOMAIN plan \in SUBSET Drones,
         CalculateRoutes(s, recalculate, plan) \in Memory
  PROVE  Calculated(s, CalculateRoutes(s, recalculate, plan))
<1> DEFINE used == {d \in DOMAIN plan : plan[d] # <<>>}
<1> DEFINE b == [d \in Drones |-> PlannedRoute(s, plan, d)]
<1> DEFINE f == RoutableTargets(s, recalculate)
<1> DEFINE n == s.nextRoute + Cardinality(used)
<1> DEFINE t == [s EXCEPT !.planned = b, !.plannedRecalc = recalculate,
                          !.plannedFrom = f, !.nextRoute = n]
<1>1. CalculateRoutes(s, recalculate, plan) = t
  BY DEF CalculateRoutes
<1>2. used \in SUBSET Drones /\ Cardinality(used) \in Nat
  BY DroneSubsets
<1>3. s.nextRoute \in Nat /\ n \in Nat /\ s.nextRoute <= n
  BY <1>2, BooksField
<1>4. ASSUME NEW d \in Owners(b)
      PROVE  LET old == s.current[d]
                 new == b[d]
             IN  /\ new.targets # <<>> /\ ~new.accepted
                 /\ \/ /\ new.id = old.id /\ new.finished = old.finished
                       /\ old.completed < Len(old.targets)
                    \/ s.nextRoute <= new.id /\ new.id < n /\ ~new.finished
  <2>1. d \in Drones /\ b[d] = PlannedRoute(s, plan, d) /\ b[d].id # 0
    BY <1>4 DEF Owners
  <2>2. d \in used
    BY <2>1, NoRouteStops DEF PlannedRoute
  <2>3. CASE SameRemainingRoute(s.current[d], plan[d])
    <3> DEFINE r == s.current[d]
    <3>1. r \in Route
      BY <2>1, BooksField DEF Books
    <3>2. b[d] = [r EXCEPT !.accepted = FALSE]
      BY <2>1, <2>2, <2>3 DEF PlannedRoute
    <3>3. RemainingOrder(r) # <<>>
      BY <2>2, <2>3 DEF SameRemainingRoute
    <3>4. ~(r.completed >= Len(r.targets))
      BY <3>3 DEF RemainingOrder
    <3> HIDE DEF r, b
    <3>5. r.completed \in Nat /\ Len(r.targets) \in Nat /\ r.targets \in Seq(Nat)
      BY <3>1, LenProperties DEF Route
    <3>6. r.completed < Len(r.targets)
      BY <3>4, <3>5
    <3>7. r.targets # <<>>
      <4>1. Len(<<>>) = 0
        OBVIOUS
      <4> QED
        BY <3>5, <3>6, <4>1
    <3>8. /\ b[d].targets = r.targets /\ ~b[d].accepted
          /\ b[d].id = r.id /\ b[d].finished = r.finished
      BY <3>1, <3>2 DEF Route
    <3> QED
      BY <3>6, <3>7, <3>8 DEF r
  <2>4. CASE ~SameRemainingRoute(s.current[d], plan[d])
    <3> DEFINE k == Token(s, used, d)
    <3>1. b[d] = [id |-> k, targets |-> plan[d], completed |-> 0,
                  accepted |-> FALSE, finished |-> FALSE]
      BY <2>1, <2>2, <2>4 DEF PlannedRoute
    <3>2. s.nextRoute <= k /\ k < n
      <4> DEFINE m == Cardinality({e \in used : e < d})
      <4>1. m < Cardinality(used)
        BY <1>2, <2>2, CountBelow, Zenon
      <4>2. m \in Nat
        BY <1>2, DroneSubsets
      <4>3. k = s.nextRoute + m
        BY DEF Token
      <4> HIDE DEF m, k, used
      <4> QED
        BY <1>2, <1>3, <4>1, <4>2, <4>3 DEF n
    <3>3. plan[d] # <<>>
      BY <2>2
    <3> HIDE DEF b, k, n
    <3>4. /\ b[d].id = k /\ b[d].targets = plan[d] /\ ~b[d].accepted /\ ~b[d].finished
      BY <3>1
    <3> QED
      BY <3>2, <3>3, <3>4
  <2> QED
    BY <2>3, <2>4
<1> HIDE DEF b, f, n, used
<1>5. /\ SameBooks(s, t) /\ SameSafety(s, t) /\ SaysNothing(s, t)
      /\ t.recalculation = s.recalculation
      /\ t.activeCommand = s.activeCommand /\ t.activeMission = s.activeMission
      /\ t.activeRevision = s.activeRevision /\ t.nextMission = s.nextMission
      /\ t.nextRoute = n /\ t.planned = b
      /\ t.reported = s.reported /\ t.active = s.active
  BY DEF Memory, SameBooks, SaysNothing, SameSafety
<1>6. Planned(s, t)
  BY <1>4, <1>5 DEF Planned
<1> QED
  BY <1>1, <1>3, <1>5, <1>6 DEF Calculated

Dispatched(s, t) ==
  /\ t.current = s.current /\ t.aux = s.aux
  /\ t.provisional = s.planned /\ t.planned = NoRoutes
  /\ t.phase = "WAITING" /\ t.recalculation = s.plannedRecalc
  /\ t.activeCommand = s.nextCommand
  /\ IF s.plannedRecalc
     THEN /\ t.activeMission = s.activeMission /\ t.nextMission = s.nextMission
          /\ t.activeRevision = s.activeRevision + 1
     ELSE /\ t.activeMission = s.nextMission /\ t.nextMission = s.nextMission + 1
          /\ t.activeRevision = 1
  /\ t.reported = s.reported /\ t.active = s.active
  /\ t.nextRoute = s.nextRoute
  /\ SameSafety(s, t)
  /\ Posts(s, t, Broadcast("EXECUTE", s.nextCommand, t.activeMission, t.activeRevision,
                           Owners(s.planned), Orders(s.planned)))

LEMMA DispatchEffect ==
  ASSUME NEW s \in Memory
  PROVE  Dispatched(s, DispatchPlannedMission(s))
<1> DEFINE mission == IF s.plannedRecalc THEN s.activeMission ELSE s.nextMission
<1> DEFINE revision == NextRevision(s)
<1> DEFINE next == IF s.plannedRecalc THEN s.nextMission ELSE s.nextMission + 1
<1> DEFINE b == [d \in Drones |-> s.busy[d] \/ d \in Owners(s.planned)]
<1> DEFINE o == Append(s.out, Broadcast("EXECUTE", s.nextCommand, mission, revision,
                                        Owners(s.planned), Orders(s.planned)))
<1> DEFINE n == s.nextCommand + 1
<1> DEFINE t == [s EXCEPT !.nextMission = next, !.activeMission = mission,
                   !.activeRevision = revision, !.activeCommand = s.nextCommand,
                   !.nextCommand = n, !.provisional = s.planned,
                   !.planned = NoRoutes, !.recalculation = s.plannedRecalc,
                   !.plannedRecalc = FALSE, !.phase = "WAITING",
                   !.busy = b, !.out = o]
<1>1. DispatchPlannedMission(s) = t
  BY DEF DispatchPlannedMission
<1>2. IF s.plannedRecalc
      THEN mission = s.activeMission /\ next = s.nextMission /\ revision = s.activeRevision + 1
      ELSE mission = s.nextMission /\ next = s.nextMission + 1 /\ revision = 1
  BY DEF NextRevision
<1>3. o = Append(s.out, Broadcast("EXECUTE", s.nextCommand, mission, revision,
                                  Owners(s.planned), Orders(s.planned)))
      /\ n = s.nextCommand + 1
  OBVIOUS
<1> HIDE DEF mission, revision, next, b, o, n
<1>4. /\ t.current = s.current /\ t.aux = s.aux
      /\ t.provisional = s.planned /\ t.planned = NoRoutes
      /\ t.phase = "WAITING" /\ t.recalculation = s.plannedRecalc
      /\ t.activeCommand = s.nextCommand /\ t.activeMission = mission
      /\ t.nextMission = next /\ t.activeRevision = revision
      /\ t.reported = s.reported /\ t.active = s.active /\ t.nextRoute = s.nextRoute
      /\ SameSafety(s, t) /\ t.nextCommand = n /\ t.out = o
  BY DEF Memory, SameSafety
<1> HIDE DEF t
<1> QED
  BY <1>1, <1>2, <1>3, <1>4 DEF Dispatched, Posts

WithoutAux(aux, ds) == [d \in Drones |-> IF d \in ds THEN NoAux ELSE aux[d]]

(* The drones "ds" are off their routes.                                   *)
Released(s, t, ds) ==
  /\ t.current = Detached(s.current, ds)
  /\ t.provisional = Detached(s.provisional, ds)
  /\ t.aux = WithoutAux(s.aux, ds) /\ t.phase = s.phase
  /\ t.planned = s.planned \/ t.planned = NoRoutes

LEMMA EraseEffect ==
  ASSUME NEW s \in Memory, NEW ds \in SUBSET Drones
  PROVE  LET t == EraseAux(DetachDroneRoutes(s, ds), ds)
         IN  t \in Memory /\ Released(s, t, ds) /\ Silent(s, t)
             /\ t.reported = s.reported
             /\ t.active = s.active \ UNION {Stops(s.current[d]) : d \in ds}
<1> DEFINE u == DetachDroneRoutes(s, ds)
<1> DEFINE t == EraseAux(u, ds)
<1>1. /\ u \in Memory /\ u.aux = s.aux /\ u.phase = s.phase /\ u.planned = s.planned
      /\ u.current = Detached(s.current, ds)
      /\ u.provisional = Detached(s.provisional, ds) /\ Silent(s, u)
      /\ u.reported = s.reported
      /\ u.active = s.active \ UNION {Stops(s.current[d]) : d \in ds}
  BY DetachFields, Zenon
<1> HIDE DEF u
<1>2. /\ t \in Memory /\ SameBuffers(u, t)
      /\ t.aux = WithoutAux(u.aux, ds) /\ t.planned = u.planned /\ Silent(u, t)
  BY <1>1, EraseAuxFields DEF WithoutAux
<1> HIDE DEF t
<1> QED
  BY <1>1, <1>2 DEF u, t, SameBuffers, Released, Silent, SaysNothing, SameVersions, SameSafety

LEMMA ReleaseEffect ==
  ASSUME NEW s \in Memory, NEW ds \in SUBSET Drones, NEW value \in BOOLEAN
  PROVE  LET t == InvalidatePlannedRoutes(
                    SetLanding(EraseAux(DetachDroneRoutes(s, ds), ds), ds, value))
         IN  t \in Memory /\ Released(s, t, ds) /\ Silent(s, t)
             /\ t.reported = s.reported
             /\ t.active = s.active \ UNION {Stops(s.current[d]) : d \in ds}
             /\ t.planned = NoRoutes
<1> DEFINE u == EraseAux(DetachDroneRoutes(s, ds), ds)
<1>1. u \in Memory /\ Released(s, u, ds) /\ Silent(s, u) /\ u.reported = s.reported
      /\ u.active = s.active \ UNION {Stops(s.current[d]) : d \in ds}
  BY EraseEffect
<1> HIDE DEF u
<1> DEFINE w == SetLanding(u, ds, value)
<1>2. w \in Memory /\ SameBuffers(u, w) /\ SameOwners(u, w)
      /\ w.planned = u.planned /\ Silent(u, w)
  BY <1>1, SetLandingFields
<1> HIDE DEF w
<1> DEFINE t == InvalidatePlannedRoutes(w)
<1>3. t \in Memory /\ SameBuffers(w, t) /\ SameOwners(w, t) /\ t.planned = NoRoutes
      /\ Silent(w, t)
  BY <1>2, InvalidateFields
<1> HIDE DEF t
<1>4. Released(s, t, ds)
  BY <1>1, <1>2, <1>3 DEF Released, SameBuffers, SameOwners
<1>5. Silent(s, t)
  BY <1>1, <1>2, <1>3 DEF Silent, SaysNothing, SameVersions, SameSafety
<1>6. t.reported = s.reported /\ t.active = s.active \ UNION {Stops(s.current[d]) : d \in ds}
  BY <1>1, <1>2, <1>3 DEF SameBuffers
<1> QED
  BY <1>3, <1>4, <1>5, <1>6 DEF u, w, t

(* What StartHomeMission tells the drones "ds" and notes of them.          *)
HomeOrders(t, ds) ==
  [d \in Drones |-> IF d \in ds THEN [id |-> t.aux[d].id, legs |-> HomeLegs] ELSE NoOrder]

SentHome(s, t, ds, purpose) ==
  /\ t.current = Detached(s.current, ds)
  /\ t.provisional = Detached(s.provisional, ds)
  /\ t.phase = s.phase /\ t.recalculation = s.recalculation /\ t.planned = NoRoutes
  /\ t.activeCommand = s.activeCommand /\ t.activeMission = s.activeMission
  /\ t.activeRevision = s.activeRevision /\ t.nextMission = s.nextMission + 1
  /\ SameSafety(s, t)
  /\ \A d \in Drones : IF d \in ds
       THEN /\ t.aux[d].id # 0 /\ t.aux[d].command = s.nextCommand
            /\ t.aux[d].mission = s.nextMission
            /\ s.nextRoute <= t.aux[d].id /\ t.aux[d].id < t.nextRoute
       ELSE t.aux[d] = s.aux[d]
  /\ s.nextRoute <= t.nextRoute
  /\ t.reported = s.reported
  /\ t.active = s.active \ UNION {Stops(s.current[d]) : d \in ds}
  /\ Posts(s, t, Broadcast(purpose, s.nextCommand, s.nextMission, 1, ds, HomeOrders(t, ds)))

LEMMA StartHomeEffect ==
  ASSUME NEW s \in Memory, NEW ds \in SUBSET Drones, NEW purpose
  PROVE  SentHome(s, StartHomeMission(s, ds, purpose), ds, purpose)
<1> DEFINE i == InvalidatePlannedRoutes(s)
<1> DEFINE u == DetachDroneRoutes(i, ds)
<1> DEFINE home(d) == [id |-> Token(s, ds, d), command |-> s.nextCommand,
                       mission |-> s.nextMission]
<1> DEFINE a == [d \in Drones |-> IF d \in ds THEN home(d) ELSE u.aux[d]]
<1> DEFINE b == [d \in Drones |-> d \in ds \/ u.busy[d]]
<1> DEFINE h == [d \in Drones |-> d \in ds \/ u.returnHome[d]]
<1> DEFINE q == [d \in Drones |-> IF d \in ds
                   THEN [id |-> home(d).id, legs |-> HomeLegs] ELSE NoOrder]
<1> DEFINE o == Append(u.out, Broadcast(purpose, s.nextCommand, s.nextMission, 1, ds, q))
<1> DEFINE nc == u.nextCommand + 1
<1> DEFINE nm == u.nextMission + 1
<1> DEFINE nr == u.nextRoute + Cardinality(ds)
<1> DEFINE t == [u EXCEPT !.nextCommand = nc, !.nextMission = nm, !.nextRoute = nr,
                          !.aux = a, !.busy = b, !.returnHome = h, !.out = o]
<1>1. i \in Memory /\ SameBuffers(s, i) /\ SameOwners(s, i) /\ Silent(s, i)
      /\ i.planned = NoRoutes
  BY InvalidateFields
<1>2. /\ u \in Memory /\ u.aux = i.aux /\ u.phase = i.phase
      /\ u.current = Detached(i.current, ds) /\ u.planned = i.planned
      /\ u.provisional = Detached(i.provisional, ds) /\ Silent(i, u)
      /\ u.reported = i.reported
      /\ u.active = i.active \ UNION {Stops(i.current[d]) : d \in ds}
  BY <1>1, DetachFields, Zenon
<1>3. StartHomeMission(s, ds, purpose) = t
  BY DEF StartHomeMission
<1> HIDE DEF i, u
<1>4. \A d \in Drones : home(d).id # 0
  BY TokenType, BooksField
<1>14. \A d \in ds : s.nextRoute <= home(d).id /\ home(d).id < nr
  <2> SUFFICES ASSUME NEW d \in ds PROVE s.nextRoute <= Token(s, ds, d) /\ Token(s, ds, d) < nr
    OBVIOUS
  <2> DEFINE m == Cardinality({e \in ds : e < d})
  <2>1. m < Cardinality(ds)
    BY CountBelow
  <2>2. m \in Nat /\ Cardinality(ds) \in Nat /\ s.nextRoute \in Nat
    BY DroneSubsets, BooksField
  <2>3. Token(s, ds, d) = s.nextRoute + m
    BY DEF Token
  <2>4. u.nextRoute = s.nextRoute
    BY <1>1, <1>2 DEF Silent, SameVersions
  <2>5. nr = s.nextRoute + Cardinality(ds)
    BY <2>4
  <2> HIDE DEF m, nr
  <2> QED
    BY <2>1, <2>2, <2>3, <2>5
<1>15. s.nextRoute <= nr
  <2>1. Cardinality(ds) \in Nat /\ s.nextRoute \in Nat
    BY DroneSubsets, BooksField
  <2>4. u.nextRoute = s.nextRoute
    BY <1>1, <1>2 DEF Silent, SameVersions
  <2>5. nr = s.nextRoute + Cardinality(ds)
    BY <2>4
  <2> HIDE DEF nr
  <2> QED
    BY <2>1, <2>5
<1>5. \A d \in Drones : a[d] = IF d \in ds THEN home(d) ELSE u.aux[d]
  OBVIOUS
<1>6. q = [d \in Drones |-> IF d \in ds THEN [id |-> a[d].id, legs |-> HomeLegs] ELSE NoOrder]
  BY <1>5
<1>7. o = Append(u.out, Broadcast(purpose, s.nextCommand, s.nextMission, 1, ds, q))
      /\ nc = u.nextCommand + 1 /\ nm = u.nextMission + 1
  OBVIOUS
<1>12. \A d \in Drones : home(d).command = s.nextCommand /\ home(d).mission = s.nextMission
  OBVIOUS
<1> HIDE DEF a, b, h, o, nc, nm, nr, q, home
<1>8. /\ t.current = u.current /\ t.provisional = u.provisional /\ t.phase = u.phase
      /\ t.recalculation = u.recalculation /\ t.planned = u.planned
      /\ t.activeCommand = u.activeCommand /\ t.activeMission = u.activeMission
      /\ t.activeRevision = u.activeRevision /\ t.nextMission = nm
      /\ SameSafety(u, t) /\ t.aux = a /\ t.nextCommand = nc /\ t.out = o /\ t.nextRoute = nr
      /\ t.reported = u.reported /\ t.active = u.active
  BY <1>2, Zenon DEF Memory, SameSafety
<1> HIDE DEF t
<1>9. q = HomeOrders(t, ds)
  BY <1>6, <1>8 DEF HomeOrders
<1>10. /\ u.current = Detached(s.current, ds) /\ u.provisional = Detached(s.provisional, ds)
       /\ u.aux = s.aux /\ u.phase = s.phase /\ Silent(s, u) /\ u.planned = NoRoutes
       /\ u.reported = s.reported
       /\ u.active = s.active \ UNION {Stops(s.current[d]) : d \in ds}
  BY <1>1, <1>2 DEF SameBuffers, SameOwners, Silent, SaysNothing, SameVersions, SameSafety
<1>11. \A d \in Drones : IF d \in ds
         THEN t.aux[d].id # 0 /\ t.aux[d].command = s.nextCommand
              /\ t.aux[d].mission = s.nextMission
              /\ s.nextRoute <= t.aux[d].id /\ t.aux[d].id < t.nextRoute
         ELSE t.aux[d] = s.aux[d]
  BY <1>4, <1>5, <1>8, <1>10, <1>12, <1>14
<1>13. Posts(s, t, Broadcast(purpose, s.nextCommand, s.nextMission, 1, ds, HomeOrders(t, ds)))
  BY <1>7, <1>8, <1>9, <1>10 DEF Posts, Silent, SaysNothing
<1> QED
  BY <1>3, <1>7, <1>8, <1>10, <1>11, <1>13, <1>15
     DEF SentHome, Silent, SaysNothing, SameVersions, SameSafety

-----------------------------------------------------------------------------
(* The outbox.                                                             *)

Sent(s) == {s.out[i] : i \in DOMAIN s.out}

(* The commands of a callback are published in the order of their ids.     *)
Ordered(s) ==
  \A i \in DOMAIN s.out :
    /\ s.out[i].command < s.nextCommand
    /\ \A j \in DOMAIN s.out : i < j => s.out[i].command < s.out[j].command

Adds(s, t, new) ==
  /\ Sent(t) = Sent(s) \cup new
  /\ s.nextCommand <= t.nextCommand
  /\ \A c \in new : s.nextCommand <= c.command /\ c.command < t.nextCommand
  /\ Ordered(s) => Ordered(t)

LEMMA NothingAdded ==
  ASSUME NEW s \in Memory, NEW t, SaysNothing(s, t)
  PROVE  Adds(s, t, {})
<1>1. s.nextCommand \in Nat
  BY BooksField
<1> QED
  BY <1>1 DEF Adds, SaysNothing, Sent, Ordered

LEMMA PostAdded ==
  ASSUME NEW s \in Memory, NEW t, NEW c \in Broadcasts, Posts(s, t, c),
         c.command = s.nextCommand
  PROVE  Adds(s, t, {c})
<1>1. s.nextCommand \in Nat /\ s.out \in Seq(Broadcasts)
  BY BooksField
<1>2. /\ Len(t.out) = Len(s.out) + 1 /\ DOMAIN s.out = 1..Len(s.out)
      /\ DOMAIN t.out = 1..(Len(s.out) + 1) /\ Len(s.out) \in Nat
      /\ \A i \in 1..Len(s.out) : t.out[i] = s.out[i]
      /\ t.out[Len(s.out) + 1] = c
  BY <1>1, AppendProperties, LenProperties DEF Posts
<1>3. Sent(t) = Sent(s) \cup {c}
  <2>1. \A i \in DOMAIN t.out : t.out[i] \in Sent(s) \cup {c}
    BY <1>2 DEF Sent
  <2>2. \A i \in DOMAIN s.out : s.out[i] \in Sent(t)
    BY <1>2 DEF Sent
  <2>3. c \in Sent(t)
    BY <1>2 DEF Sent
  <2> QED
    BY <2>1, <2>2, <2>3 DEF Sent
<1>4. ASSUME Ordered(s)
      PROVE  Ordered(t)
  <2> SUFFICES ASSUME NEW i \in DOMAIN t.out
               PROVE  /\ t.out[i].command < t.nextCommand
                      /\ \A j \in DOMAIN t.out : i < j => t.out[i].command < t.out[j].command
    BY DEF Ordered
  <2>1. CASE i \in DOMAIN s.out
    <3>1. s.out[i].command \in Nat
      <4>1. s.out[i] \in Broadcasts
        BY <1>1, <1>2, <2>1, ElementOfSeq
      <4> QED
        BY <4>1 DEF Broadcasts
    <3>2. s.out[i].command < s.nextCommand
          /\ \A j \in DOMAIN s.out : i < j => s.out[i].command < s.out[j].command
      BY <1>4, <2>1 DEF Ordered
    <3>3. t.out[i] = s.out[i] /\ t.nextCommand = s.nextCommand + 1
      BY <1>2, <2>1 DEF Posts
    <3>4. ASSUME NEW j \in DOMAIN t.out, i < j
          PROVE  t.out[i].command < t.out[j].command
      <4>1. CASE j \in DOMAIN s.out
        BY <1>2, <3>2, <3>3, <3>4, <4>1
      <4>2. CASE j = Len(s.out) + 1
        BY <1>2, <3>2, <3>3, <4>2
      <4> QED
        BY <1>2, <4>1, <4>2
    <3> QED
      BY <1>1, <3>1, <3>2, <3>3, <3>4
  <2>2. CASE i = Len(s.out) + 1
    BY <1>1, <1>2, <2>2 DEF Posts
  <2> QED
    BY <1>2, <2>1, <2>2
<1> QED
  BY <1>1, <1>3, <1>4 DEF Adds, Posts

LEMMA AddsChain ==
  ASSUME NEW s \in Memory, NEW t \in Memory, NEW u \in Memory, NEW n1, NEW n2,
         Adds(s, t, n1), Adds(t, u, n2),
         \A c \in n1 \cup n2 : c \in Broadcasts
  PROVE  Adds(s, u, n1 \cup n2)
<1>1. s.nextCommand \in Nat /\ t.nextCommand \in Nat /\ u.nextCommand \in Nat
  BY BooksField
<1>2. \A c \in n1 \cup n2 : c.command \in Nat
  BY DEF Broadcasts
<1> QED
  BY <1>1, <1>2 DEF Adds

(* The cancellations that precede a LAND.                                  *)
LEMMA PublishCancellationsEffect ==
  ASSUME NEW s \in Memory, NEW from \in Memory, NEW ds \in SUBSET Drones
  PROVE  LET t == PublishCancellations(s, from, ds)
         IN  /\ t \in Memory /\ SameBuffers(s, t) /\ SameOwners(s, t)
             /\ t.planned = s.planned /\ SameVersions(s, t) /\ SameSafety(s, t)
             /\ t.recalculation = s.recalculation
             /\ \E new \in SUBSET Broadcasts :
                  /\ Adds(s, t, new)
                  /\ \A c \in new :
                       /\ c.kind = "CANCEL"
                       /\ \E d \in ds : LET l == LandCancellation(from, d)
                                        IN  /\ c.to = {d} /\ l.mission # 0
                                            /\ c.mission = l.mission
                                            /\ c.revision = l.revision
<1> DEFINE held == {d \in ds : LandCancellation(from, d).mission # 0}
<1> DEFINE c(j) == LandCancellation(from, Nth(held, j))
<1> DEFINE cancel(j) == Broadcast("CANCEL", s.nextCommand + j - 1, c(j).mission,
                                  c(j).revision, {Nth(held, j)}, NoOrders)
<1> DEFINE k == Cardinality(held)
<1> DEFINE q == [j \in 1..k |-> cancel(j)]
<1> DEFINE o == s.out \o q
<1> DEFINE n == s.nextCommand + k
<1> DEFINE t == [s EXCEPT !.nextCommand = n, !.out = o]
<1>1. held \in SUBSET Drones /\ k \in Nat
  BY DroneSubsets
<1>2. ASSUME NEW j \in 1..k
      PROVE  /\ cancel(j) \in Broadcasts /\ cancel(j).command = s.nextCommand + j - 1
             /\ cancel(j).kind = "CANCEL"
             /\ \E d \in ds : LET l == LandCancellation(from, d)
                              IN  /\ cancel(j).to = {d} /\ l.mission # 0
                                  /\ cancel(j).mission = l.mission
                                  /\ cancel(j).revision = l.revision
  <2>1. Nth(held, j) \in held
    BY <1>1, DronesAssumption, NthType, Zenon DEF Drones
  <2>2. c(j).mission \in Nat /\ c(j).revision \in Nat
    BY LandCancellationType
  <2>3. s.nextCommand + j - 1 \in Nat
    BY <1>1, BooksField
  <2>4. "CANCEL" \in Kinds /\ NoOrders \in [Drones -> Order]
    BY DEF Kinds, NoOrders, NoOrder, Order
  <2>5. cancel(j) \in Broadcasts
    BY <2>1, <2>2, <2>3, <2>4, BroadcastType
  <2> DEFINE d0 == Nth(held, j)
  <2>6. d0 \in ds /\ LandCancellation(from, d0).mission # 0
    BY <2>1
  <2>7. /\ cancel(j).kind = "CANCEL" /\ cancel(j).to = {d0}
        /\ cancel(j).command = s.nextCommand + j - 1
        /\ cancel(j).mission = LandCancellation(from, d0).mission
        /\ cancel(j).revision = LandCancellation(from, d0).revision
    BY DEF Broadcast
  <2> HIDE DEF cancel, d0, held
  <2> QED
    BY <2>5, <2>6, <2>7
<1>3. q \in Seq(Broadcasts) /\ Len(q) = k /\ \A j \in 1..k : q[j] = cancel(j)
  <2>1. \A j \in 1..k : q[j] = cancel(j)
    OBVIOUS
  <2> HIDE DEF k, cancel
  <2>2. q \in [1..k -> Broadcasts]
    BY <1>2
  <2> HIDE DEF q
  <2> QED
    BY <1>1, <2>1, <2>2, SeqDef, LenProperties
<1>4. PublishCancellations(s, from, ds) = t
  BY DEF PublishCancellations
<1>11. n = s.nextCommand + k /\ o = s.out \o q
  OBVIOUS
<1> HIDE DEF q, k, cancel
<1>5. o \in Seq(Broadcasts) /\ n \in Nat
  BY <1>1, <1>3, BooksField, ConcatProperties
<1> HIDE DEF o, n
<1>6. /\ t \in Memory /\ SameBuffers(s, t) /\ SameOwners(s, t)
      /\ t.planned = s.planned /\ SameVersions(s, t) /\ SameSafety(s, t)
      /\ t.recalculation = s.recalculation /\ t.nextCommand = n /\ t.out = o
  BY <1>5, Zenon DEF Memory, SameBuffers, SameOwners, SameVersions, SameSafety
<1> HIDE DEF t
<1> DEFINE new == {cancel(j) : j \in 1..k}
<1> DEFINE m == Len(s.out)
<1>7. /\ m \in Nat /\ DOMAIN s.out = 1..m /\ DOMAIN o = 1..(m + k)
      /\ \A i \in 1..m : o[i] = s.out[i]
      /\ \A i \in (m + 1)..(m + k) : o[i] = cancel(i - m) /\ i - m \in 1..k
  <2>1. s.out \in Seq(Broadcasts)
    BY BooksField
  <2>2. m \in Nat /\ DOMAIN s.out = 1..m
    BY <2>1, LenProperties
  <2>3. Len(o) = m + k /\ \A i \in 1..(m + k) : o[i] = IF i <= m THEN s.out[i] ELSE q[i - m]
    BY <1>1, <1>3, <1>11, <2>1, <2>2, ConcatProperties, Zenon
  <2> HIDE DEF m
  <2>4. \A i \in (m + 1)..(m + k) : i - m \in 1..k /\ i \in 1..(m + k) /\ ~(i <= m)
    BY <1>1, <2>2
  <2>5. \A i \in 1..m : i \in 1..(m + k) /\ i <= m
    BY <1>1, <2>2
  <2>6. DOMAIN o = 1..(m + k)
    BY <1>5, <2>3, LenProperties
  <2> QED
    BY <1>3, <2>2, <2>3, <2>4, <2>5, <2>6
<1>8. Sent(t) = Sent(s) \cup new
  <2>1. \A i \in DOMAIN o : o[i] \in Sent(s) \cup new
    <3> SUFFICES ASSUME NEW i \in 1..(m + k)
                 PROVE  o[i] \in Sent(s) \cup new
      BY <1>7
    <3>1. CASE i \in 1..m
      BY <1>7, <3>1 DEF Sent
    <3>2. CASE i \in (m + 1)..(m + k)
      BY <1>7, <3>2
    <3> HIDE DEF m
    <3> QED
      BY <1>1, <1>7, <3>1, <3>2
  <2>2. \A i \in DOMAIN s.out : i \in DOMAIN o /\ s.out[i] = o[i]
    <3> HIDE DEF m
    <3> QED
      BY <1>1, <1>7
  <2>3. \A j \in 1..k : m + j \in DOMAIN o /\ o[m + j] = cancel(j)
    <3> TAKE j \in 1..k
    <3> HIDE DEF m
    <3>1. m + j \in (m + 1)..(m + k) /\ m + j \in 1..(m + k) /\ (m + j) - m = j
      BY <1>1, <1>7
    <3>2. o[m + j] = cancel((m + j) - m)
      BY <1>7, <3>1
    <3> QED
      BY <1>7, <3>1, <3>2
  <2> HIDE DEF m
  <2>4. Sent(t) = {o[i] : i \in DOMAIN o}
    BY <1>6 DEF Sent
  <2> QED
    BY <2>1, <2>2, <2>3, <2>4, Zenon DEF Sent
<1>9. ASSUME Ordered(s)
      PROVE  Ordered(t)
  <2> SUFFICES ASSUME NEW i \in DOMAIN o
               PROVE  /\ o[i].command < n
                      /\ \A j \in DOMAIN o : i < j => o[i].command < o[j].command
    BY <1>6 DEF Ordered
  <2>1. s.nextCommand \in Nat
    BY BooksField
  <2>2. \A x \in 1..m : o[x].command \in Nat /\ o[x].command < s.nextCommand
    <3>1. s.out \in Seq(Broadcasts)
      BY BooksField
    <3>2. \A x \in 1..m : s.out[x] \in Broadcasts
      BY <3>1, ElementOfSeq, <1>7
    <3> QED
      BY <1>7, <1>9, <3>2, Zenon DEF Ordered, Broadcasts
  <2>3. \A x, y \in 1..m : x < y => o[x].command < o[y].command
    BY <1>7, <1>9, Zenon DEF Ordered
  <2>4. \A x \in (m + 1)..(m + k) : o[x].command = s.nextCommand + (x - m) - 1
    BY <1>2, <1>7, Zenon
  <2> HIDE DEF m
  <2>5. \A x \in 1..(m + k) : x \in 1..m \/ x \in (m + 1)..(m + k)
    BY <1>1, <1>7
  <2>6. o[i].command < n
    <3>1. CASE i \in 1..m
      <4>1. o[i].command \in Nat /\ o[i].command < s.nextCommand
        BY <2>2, <3>1
      <4> QED
        BY <1>1, <1>11, <2>1, <4>1
    <3>2. CASE i \in (m + 1)..(m + k)
      <4>1. o[i].command = s.nextCommand + (i - m) - 1 /\ i - m \in 1..k
        BY <1>7, <2>4, <3>2
      <4> QED
        BY <1>1, <1>11, <2>1, <4>1
    <3> QED
      BY <1>7, <2>5, <3>1, <3>2
  <2>7. ASSUME NEW j \in DOMAIN o, i < j
        PROVE  o[i].command < o[j].command
    <3>1. CASE j \in 1..m
      BY <1>1, <1>7, <2>3, <2>7, <3>1
    <3>2. CASE j \in (m + 1)..(m + k)
      <4>1. CASE i \in 1..m
        BY <1>1, <1>7, <2>1, <2>2, <2>4, <3>2, <4>1
      <4>2. CASE i \in (m + 1)..(m + k)
        BY <1>1, <1>7, <2>1, <2>4, <2>7, <3>2, <4>2
      <4> QED
        BY <1>7, <2>5, <4>1, <4>2
    <3> QED
      BY <1>7, <2>5, <3>1, <3>2
  <2> QED
    BY <2>6, <2>7
<1>10. \A b \in new : s.nextCommand <= b.command /\ b.command < n
  <2>1. s.nextCommand \in Nat
    BY BooksField
  <2>2. \A j \in 1..k : s.nextCommand <= s.nextCommand + j - 1 /\ s.nextCommand + j - 1 < n
    BY <1>1, <1>11, <2>1
  <2>3. \A j \in 1..k : s.nextCommand <= cancel(j).command /\ cancel(j).command < n
    BY <1>2, <2>2
  <2> QED
    BY <2>3
<1>12. s.nextCommand <= n
  BY <1>1, <1>11, BooksField
<1>13. Adds(s, t, new)
  BY <1>6, <1>8, <1>9, <1>10, <1>12 DEF Adds
<1>14. new \in SUBSET Broadcasts
  BY <1>2
<1>15. \A b \in new :
         /\ b.kind = "CANCEL"
         /\ \E d \in ds : LET l == LandCancellation(from, d)
                          IN  /\ b.to = {d} /\ l.mission # 0
                              /\ b.mission = l.mission /\ b.revision = l.revision
  BY <1>2
<1> HIDE DEF new
<1> QED
  BY <1>4, <1>6, <1>13, <1>14, <1>15

-----------------------------------------------------------------------------
(* What the node knows of its own numbers.                                 *)

Version(x) == <<x.mission, x.revision>>

ActiveVersion(s) == <<s.activeMission, s.activeRevision>>

VersionsKnown(s) ==
  /\ s.activeMission < s.nextMission /\ s.activeCommand < s.nextCommand
  /\ Assigned(s) # {} => s.activeMission # 0

HomesNumbered(s) ==
  \A d \in Owners(s.aux) :
    /\ s.aux[d].mission # 0 /\ s.aux[d].mission # s.activeMission
    /\ s.aux[d].mission < s.nextMission /\ s.aux[d].command < s.nextCommand

(* While a dispatch is awaited there is no plan, and a mission is current  *)
(* only if the dispatch revises it.                                        *)
RevisionKnown(s) ==
  s.phase = "WAITING" =>
    s.planned = NoRoutes /\ (s.recalculation \/ Owners(s.current) = {})

StopsCovered(s) ==
  \A d \in Drones : Stops(s.current[d]) \subseteq s.active \cup s.reported

RoutesNumbered(s) ==
  \A d \in Drones :
    /\ s.current[d].id < s.nextRoute /\ s.provisional[d].id < s.nextRoute
    /\ s.planned[d].id < s.nextRoute /\ s.aux[d].id < s.nextRoute

PlanFlyable(s) ==
  \A d \in Owners(s.planned) : s.planned[d].targets # <<>> /\ ~s.planned[d].accepted

Counted(s) ==
  /\ VersionsKnown(s) /\ HomesNumbered(s) /\ RevisionKnown(s) /\ s.nextMission # 0
  /\ StopsCovered(s) /\ RoutesNumbered(s) /\ PlanFlyable(s)

-----------------------------------------------------------------------------
(* Nothing moves but a setting may be published.                           *)

Unmoved(s, t, new) ==
  /\ SameBooks(s, t) /\ SameVersions(s, t) /\ t.recalculation = s.recalculation
  /\ t.active = s.active /\ t.reported = s.reported
  /\ \/ t.planned = NoRoutes
     \/ t.planned = s.planned /\ \A d \in Drones : s.excluded[d] => t.excluded[d]
  /\ new \subseteq Broadcasts /\ Adds(s, t, new)
  /\ \A c \in new : c.kind \in SettingKinds

(* The drones "ds" are taken off their routes, and told so.                *)
Halts(s, d, c) ==
  \/ c.kind \in FlightKinds
  \/ /\ c.kind = "CANCEL"
     /\ Version(c) = IF d \in Owners(s.aux) THEN <<s.aux[d].mission, 1>>
                     ELSE ActiveVersion(s)

Freed(s, t, ds, new) ==
  /\ Released(s, t, ds) /\ SameVersions(s, t) /\ t.recalculation = s.recalculation
  /\ t.planned = s.planned => t.planned = NoRoutes \/ \A d \in ds : t.excluded[d]
  /\ t.events = s.events /\ \A d \in Drones : s.excluded[d] => t.excluded[d]
  /\ t.reported = s.reported
  /\ t.active = s.active \ UNION {Stops(s.current[d]) : d \in ds}
  /\ new \subseteq Broadcasts /\ Adds(s, t, new)
  /\ \A c \in new :
       /\ c.kind \in FlightKinds \cup {"CANCEL"} /\ c.to \subseteq ds
       /\ \/ Version(c) = ActiveVersion(s)
          \/ \E d \in Owners(s.aux) : Version(c) = <<s.aux[d].mission, 1>>
  /\ \A d \in ds \cap (Owners(s.aux) \cup Assigned(s)) :
       \E c \in new : d \in c.to /\ Halts(s, d, c)

LEMMA FlightFreed ==
  ASSUME NEW s \in Memory, NEW u \in Memory, NEW ds \in SUBSET Drones,
         NEW kind \in FlightKinds,
         Released(s, u, ds), SameVersions(s, u), u.recalculation = s.recalculation,
         u.planned = s.planned => u.planned = NoRoutes \/ \A d \in ds : u.excluded[d],
         u.events = s.events, \A d \in Drones : s.excluded[d] => u.excluded[d],
         u.reported = s.reported,
         u.active = s.active \ UNION {Stops(s.current[d]) : d \in ds},
         NEW before \in SUBSET Broadcasts, Adds(s, u, before),
         \A c \in before :
           /\ c.kind = "CANCEL" /\ c.to \subseteq ds
           /\ \/ Version(c) = ActiveVersion(s)
              \/ \E d \in Owners(s.aux) : Version(c) = <<s.aux[d].mission, 1>>
  PROVE  LET t == PublishFlightCommand(u, kind, ds)
         IN  t \in Memory /\ \E new : Freed(s, t, ds, new)
<1> DEFINE t == PublishFlightCommand(u, kind, ds)
<1> DEFINE c == Broadcast(kind, u.nextCommand, u.activeMission, u.activeRevision, ds, NoOrders)
<1> DEFINE new == before \cup {c}
<1>1. kind \in Kinds
  BY FlightKindsAreKinds
<1>2. /\ t \in Memory /\ SameBuffers(u, t) /\ SameOwners(u, t)
      /\ Says(u, t, c) /\ t.planned = u.planned
  BY <1>1, PublishFlightFields
<1>3. /\ c \in Broadcasts /\ c.command = u.nextCommand /\ c.kind = kind /\ c.to = ds
      /\ Version(c) = ActiveVersion(u)
  <2>1. NoOrders \in [Drones -> Order]
    BY DEF NoOrders, NoOrder, Order
  <2>2. c \in Broadcasts
    BY <1>1, <2>1, BooksField, BroadcastType
  <2> QED
    BY <2>2 DEF Broadcast, Version, ActiveVersion
<1> HIDE DEF t, c
<1>4. Adds(u, t, {c})
  BY <1>2, <1>3, PostAdded DEF Says
<1>5. Adds(s, t, new)
  BY <1>2, <1>3, <1>4, AddsChain
<1>6. Version(c) = ActiveVersion(s)
  BY <1>3 DEF SameVersions, ActiveVersion
<1>7. \A b \in new :
        /\ b.kind \in FlightKinds \cup {"CANCEL"} /\ b.to \subseteq ds
        /\ \/ Version(b) = ActiveVersion(s)
           \/ \E d \in Owners(s.aux) : Version(b) = <<s.aux[d].mission, 1>>
  BY <1>3, <1>6
<1>8. \A d \in ds : d \in c.to /\ Halts(s, d, c)
  BY <1>3 DEF Halts
<1>9. Released(s, t, ds)
  BY <1>2 DEF Released, SameBuffers, SameOwners
<1>10. SameVersions(s, t) /\ t.recalculation = s.recalculation /\ t.events = s.events
       /\ t.excluded = u.excluded
  BY <1>2 DEF Says, SameVersions, SameSafety
<1>11. t.reported = s.reported
       /\ t.active = s.active \ UNION {Stops(s.current[d]) : d \in ds}
  BY <1>2 DEF SameBuffers
<1>12. new \subseteq Broadcasts /\ c \in new
  BY <1>3
<1> HIDE DEF new
<1>13. Freed(s, t, ds, new)
  BY <1>2, <1>5, <1>7, <1>8, <1>9, <1>10, <1>11, <1>12 DEF Freed
<1> QED
  BY <1>2, <1>13 DEF t

LEMMA FlightEffect ==
  ASSUME NEW s \in Memory, NEW ds \in SUBSET Drones, NEW value \in BOOLEAN,
         NEW kind \in FlightKinds
  PROVE  LET t == PublishFlightCommand(
                    InvalidatePlannedRoutes(
                      SetLanding(EraseAux(DetachDroneRoutes(s, ds), ds), ds, value)),
                    kind, ds)
         IN  t \in Memory /\ \E new : Freed(s, t, ds, new)
<1> DEFINE u == InvalidatePlannedRoutes(
                  SetLanding(EraseAux(DetachDroneRoutes(s, ds), ds), ds, value))
<1>1. u \in Memory /\ Released(s, u, ds) /\ Silent(s, u) /\ u.reported = s.reported
      /\ u.active = s.active \ UNION {Stops(s.current[d]) : d \in ds}
      /\ u.planned = NoRoutes
  BY ReleaseEffect
<1> HIDE DEF u
<1>2. Adds(s, u, {})
  BY <1>1, NothingAdded DEF Silent
<1>3. {} \in SUBSET Broadcasts /\ \A c \in {} : FALSE
  OBVIOUS
<1> QED
  BY <1>1, <1>2, <1>3, FlightFreed DEF u, Silent, SameSafety

LEMMA LandEffect ==
  ASSUME NEW s \in Memory, NEW ds \in SUBSET Drones
  PROVE  LET u == InvalidatePlannedRoutes(
                    SetLanding(EraseAux(DetachDroneRoutes(s, ds), ds), ds, TRUE))
             t == PublishFlightCommand(PublishCancellations(u, s, ds), "LAND", ds)
         IN  t \in Memory /\ \E new : Freed(s, t, ds, new)
<1> DEFINE u == InvalidatePlannedRoutes(
                  SetLanding(EraseAux(DetachDroneRoutes(s, ds), ds), ds, TRUE))
<1> DEFINE w == PublishCancellations(u, s, ds)
<1>1. u \in Memory /\ Released(s, u, ds) /\ Silent(s, u) /\ u.reported = s.reported
      /\ u.active = s.active \ UNION {Stops(s.current[d]) : d \in ds}
      /\ u.planned = NoRoutes
  BY ReleaseEffect, Zenon
<1> HIDE DEF u
<1>2. Adds(s, u, {})
  BY <1>1, NothingAdded DEF Silent
<1>3. /\ w \in Memory /\ SameBuffers(u, w) /\ SameOwners(u, w)
      /\ w.planned = u.planned /\ SameVersions(u, w) /\ SameSafety(u, w)
      /\ w.recalculation = u.recalculation
      /\ \E new \in SUBSET Broadcasts :
           /\ Adds(u, w, new)
           /\ \A c \in new :
                /\ c.kind = "CANCEL"
                /\ \E d \in ds : LET l == LandCancellation(s, d)
                                 IN  /\ c.to = {d} /\ l.mission # 0
                                     /\ c.mission = l.mission
                                     /\ c.revision = l.revision
  BY <1>1, PublishCancellationsEffect
<1> HIDE DEF w
<1>4. PICK new \in SUBSET Broadcasts :
        /\ Adds(u, w, new)
        /\ \A c \in new :
             /\ c.kind = "CANCEL"
             /\ \E d \in ds : LET l == LandCancellation(s, d)
                              IN  /\ c.to = {d} /\ l.mission # 0
                                  /\ c.mission = l.mission
                                  /\ c.revision = l.revision
  BY <1>3
<1>5. Adds(s, w, new)
  <2>1. Adds(s, w, {} \cup new)
    BY <1>1, <1>2, <1>3, <1>4, AddsChain
  <2>2. {} \cup new = new
    OBVIOUS
  <2> QED
    BY <2>1, <2>2
<1>6. \A c \in new :
        /\ c.kind = "CANCEL" /\ c.to \subseteq ds
        /\ \/ Version(c) = ActiveVersion(s)
           \/ \E d \in Owners(s.aux) : Version(c) = <<s.aux[d].mission, 1>>
  BY <1>4 DEF LandCancellation, Version, ActiveVersion
<1>7. Released(s, w, ds)
  BY <1>1, <1>3 DEF Released, SameBuffers, SameOwners
<1>8. SameVersions(s, w) /\ w.recalculation = s.recalculation
  BY <1>1, <1>3 DEF Silent, SameVersions
<1>9. w.events = s.events /\ \A d \in Drones : s.excluded[d] => w.excluded[d]
  BY <1>1, <1>3 DEF Silent, SameSafety
<1>10. w.reported = s.reported /\ w.planned = NoRoutes
       /\ w.active = s.active \ UNION {Stops(s.current[d]) : d \in ds}
  BY <1>1, <1>3 DEF SameBuffers
<1>11. "LAND" \in FlightKinds
  BY DEF FlightKinds
<1> QED
  BY <1>3, <1>5, <1>6, <1>7, <1>8, <1>9, <1>10, <1>11, FlightFreed, Zenon DEF u, w

LEMMA EmergencyEffect ==
  ASSUME NEW s \in Memory, NEW d \in Drones
  PROVE  LET t == PublishFlightCommand(
                    [EraseAux(DetachDroneRoutes(s, {d}), {d}) EXCEPT !.excluded[d] = TRUE],
                    "LAND", {d})
         IN  t \in Memory /\ \E new : Freed(s, t, {d}, new)
<1> DEFINE ds == {d}
<1> DEFINE w == EraseAux(DetachDroneRoutes(s, ds), ds)
<1> DEFINE x == [w.excluded EXCEPT ![d] = TRUE]
<1> DEFINE u == [w EXCEPT !.excluded = x]
<1>1. w \in Memory /\ Released(s, w, ds) /\ Silent(s, w) /\ w.reported = s.reported
      /\ w.active = s.active \ UNION {Stops(s.current[e]) : e \in ds}
  BY EraseEffect
<1>8. [EraseAux(DetachDroneRoutes(s, {d}), {d}) EXCEPT !.excluded[d] = TRUE] = u
  OBVIOUS
<1> HIDE DEF w
<1>2. w.excluded \in [Drones -> BOOLEAN]
  BY <1>1 DEF Memory
<1>3. x \in [Drones -> BOOLEAN] /\ x[d] /\ \A e \in Drones : s.excluded[e] => x[e]
  BY <1>1, <1>2 DEF Silent, SameSafety
<1> HIDE DEF x
<1>4. /\ u \in Memory /\ u.current = w.current /\ u.provisional = w.provisional
      /\ u.aux = w.aux /\ u.phase = w.phase /\ u.planned = w.planned
      /\ SameVersions(w, u) /\ u.recalculation = w.recalculation
      /\ u.events = w.events /\ u.excluded = x /\ u.reported = w.reported
      /\ u.active = w.active /\ SaysNothing(w, u)
  BY <1>1, <1>3, Zenon DEF Memory, SameVersions, SaysNothing
<1> HIDE DEF u
<1>5. Adds(s, u, {})
  BY <1>1, <1>4, NothingAdded DEF Silent, SaysNothing
<1>6. Released(s, u, ds) /\ SameVersions(s, u) /\ u.recalculation = s.recalculation
      /\ u.events = s.events
  BY <1>1, <1>4 DEF Released, Silent, SameVersions, SameSafety
<1>7. {} \in SUBSET Broadcasts /\ (\A c \in {} : FALSE) /\ "LAND" \in FlightKinds
      /\ ds \in SUBSET Drones /\ \A e \in ds : e = d
  BY DEF FlightKinds
<1> HIDE DEF ds
<1>9. LET t == PublishFlightCommand(u, "LAND", ds)
      IN  t \in Memory /\ \E new : Freed(s, t, ds, new)
  BY <1>1, <1>3, <1>4, <1>5, <1>6, <1>7, FlightFreed
<1> QED
  BY <1>8, <1>9, Zenon DEF ds

-----------------------------------------------------------------------------
(* A callback is a short chain of blocks, each of one of these kinds.      *)

(* The mission is called off, and every drone told.                        *)
CalledOff(s, t) ==
  IF s.activeMission # 0 THEN Posts(s, t, CancelAll(s)) ELSE SaysNothing(s, t)

Aborted(s, t) == Emptied(s, t) /\ CalledOff(s, t)

Failed(s, t) ==
  /\ t.current = IF s.recalculation THEN NoRoutes ELSE s.current
  /\ t.provisional = NoRoutes /\ ~t.recalculation
  /\ t.planned = s.planned \/ t.planned = NoRoutes
  /\ t.aux = s.aux /\ t.phase = "IDLE"
  /\ SameVersions(s, t) /\ SameSafety(s, t) /\ CalledOff(s, t)
  /\ ~s.recalculation => t.active = s.active /\ t.reported = s.reported

(* No drone is let back into the swarm.                                    *)
Guards(s, t) == \A d \in Drones : s.excluded[d] => t.excluded[d]

Block(s, t) ==
  /\ Good(s) /\ Good(t) /\ Guards(s, t)
  /\ \/ \E new : Unmoved(s, t, new)
     \/ s.phase = "IDLE" /\ Calculated(s, t)
     \/ CanDispatch(s) /\ Dispatched(s, t)
     \/ Aborted(s, t)
     \/ s.phase = "WAITING" /\ Failed(s, t)
     \/ s.phase = "IDLE" /\ \E ds \in SUBSET Drones : \E new : Freed(s, t, ds, new)
     \/ s.phase = "IDLE" /\ \E ds \in SUBSET Drones, purpose \in HomeKinds :
          SentHome(s, t, ds, purpose)

Chain(s, t) ==
  \E m1, m2, m3, m4 \in Memory :
    Block(s, m1) /\ Block(m1, m2) /\ Block(m2, m3) /\ Block(m3, m4) /\ Block(m4, t)

(* A block that changes none of the fields below moves nothing.            *)
LEMMA UnmovedFrom ==
  ASSUME NEW s \in Memory, NEW t, SameBuffers(s, t), SameOwners(s, t), Silent(s, t)
  PROVE  Unmoved(s, t, {})
<1>1. Adds(s, t, {})
  BY NothingAdded DEF Silent
<1>2. SameBooks(s, t) /\ SameVersions(s, t) /\ t.recalculation = s.recalculation
  BY DEF SameBuffers, SameOwners, Silent, SameBooks
<1>3. /\ t.active = s.active /\ t.reported = s.reported
      /\ \/ t.planned = NoRoutes
         \/ t.planned = s.planned /\ \A d \in Drones : s.excluded[d] => t.excluded[d]
  BY DEF SameBuffers, Silent, SameSafety
<1> QED
  BY <1>1, <1>2, <1>3 DEF Unmoved

LEMMA Stands ==
  ASSUME NEW s, Good(s)
  PROVE  Block(s, s)
<1>1. s \in Memory
  BY DEF Good
<1>2. SameBuffers(s, s) /\ SameOwners(s, s) /\ Silent(s, s)
  BY DEF SameBuffers, SameOwners, Silent, SameVersions, SameSafety, SaysNothing
<1> QED
  BY <1>1, <1>2, UnmovedFrom DEF Block, Guards, Silent, SameSafety

LEMMA OneBlock ==
  ASSUME NEW s, NEW t, Block(s, t)
  PROVE  Chain(s, t)
<1>1. t \in Memory /\ Block(t, t)
  BY Stands DEF Block, Good
<1> QED
  BY <1>1 DEF Chain

LEMMA TwoBlocks ==
  ASSUME NEW s, NEW m, NEW t, Block(s, m), Block(m, t)
  PROVE  Chain(s, t)
<1>1. m \in Memory /\ t \in Memory /\ Block(t, t)
  BY Stands DEF Block, Good
<1> QED
  BY <1>1 DEF Chain

LEMMA BeginSame ==
  ASSUME co \in Memory
  PROVE  /\ Begin \in Memory /\ SameBooks(co, Begin) /\ SameVersions(co, Begin)
         /\ Begin.recalculation = co.recalculation /\ Begin.planned = co.planned
         /\ Begin.active = co.active /\ Begin.reported = co.reported
         /\ Begin.excluded = co.excluded /\ Begin.events = co.events
         /\ Begin.nextCommand = co.nextCommand /\ Begin.out = <<>>
<1> DEFINE o == <<>>
<1> DEFINE t == [co EXCEPT !.out = o]
<1>1. Begin = t /\ Begin \in Memory
  BY BeginFields DEF Begin
<1> HIDE DEF o
<1>2. /\ SameBooks(co, t) /\ SameVersions(co, t)
      /\ t.recalculation = co.recalculation /\ t.planned = co.planned
      /\ t.active = co.active /\ t.reported = co.reported
      /\ t.excluded = co.excluded /\ t.events = co.events
      /\ t.nextCommand = co.nextCommand /\ t.out = o
  BY DEF Memory, SameBooks, SameVersions
<1> HIDE DEF t
<1> QED
  BY <1>1, <1>2 DEF o

-----------------------------------------------------------------------------
(* Each callback is such a chain.                                          *)

(* A change of the target buffer, of a switch or of what is heard of a     *)
(* drone moves nothing else.                                               *)
LEMMA AddTargetChain ==
  ASSUME Good(co), AddTarget
  PROVE  Chain(Begin, co') /\ co'.events = co.events
<1> DEFINE s == Begin
<1> DEFINE p == s.pending \cup {s.nextTarget}
<1> DEFINE n == s.nextTarget + 1
<1> DEFINE t == [s EXCEPT !.pending = p, !.nextTarget = n]
<1>1. Good(s) /\ Good(co') /\ s.events = co.events
  BY BeginGood, AddTargetStep, BeginSame DEF Good
<1>2. co' = InvalidatePlannedRoutes(t)
  BY DEF AddTarget, Become
<1> HIDE DEF s
<1>3. s \in Memory /\ s.nextTarget \in Nat \ {0}
  BY <1>1, BooksField DEF Good
<1>4. p \in SUBSET Nat /\ n \in Nat \ {0}
  BY <1>3, BooksField
<1> HIDE DEF p, n
<1>5. /\ t \in Memory /\ SameBooks(s, t) /\ Silent(s, t)
      /\ t.active = s.active /\ t.reported = s.reported
  BY <1>3, <1>4, Zenon DEF Memory, SameBooks, Silent, SaysNothing, SameVersions, SameSafety
<1> HIDE DEF t
<1>6. /\ co' \in Memory /\ SameBuffers(t, co') /\ SameOwners(t, co')
      /\ Silent(t, co') /\ co'.planned = NoRoutes
  BY <1>2, <1>5, InvalidateFields
<1>7. /\ SameBooks(s, co') /\ Silent(s, co')
      /\ co'.active = s.active /\ co'.reported = s.reported
  BY <1>5, <1>6 DEF SameBuffers, SameOwners, SameBooks, Silent, SaysNothing,
                    SameVersions, SameSafety
<1>8. Unmoved(s, co', {})
  BY <1>3, <1>6, <1>7, NothingAdded DEF Unmoved, Silent
<1>9. co'.events = co.events
  BY <1>1, <1>7 DEF Silent, SameSafety
<1> QED
  BY <1>1, <1>7, <1>8, <1>9, OneBlock DEF Block, Guards, Silent, SameSafety, s

LEMMA WithdrawChain ==
  ASSUME NEW s, Good(s), NEW w \in SUBSET s.pending
  PROVE  LET u == [s EXCEPT !.pending = s.pending \ w, !.withdrawn = s.withdrawn \cup w]
             t == InvalidatePlannedRoutes(u)
         IN  Chain(s, t) /\ t.events = s.events
<1> DEFINE p == s.pending \ w
<1> DEFINE x == s.withdrawn \cup w
<1> DEFINE u == [s EXCEPT !.pending = p, !.withdrawn = x]
<1> DEFINE t == InvalidatePlannedRoutes(u)
<1>1. Good(u) /\ s \in Memory
  BY WithdrawGood DEF Good
<1>2. Good(t)
  BY <1>1, InvalidateGood
<1> HIDE DEF p, x
<1>3. /\ SameBooks(s, u) /\ Silent(s, u)
      /\ u.active = s.active /\ u.reported = s.reported /\ u.planned = s.planned
  BY <1>1 DEF Memory, SameBooks, Silent, SaysNothing, SameVersions, SameSafety
<1> HIDE DEF u
<1>4. /\ SameBuffers(u, t) /\ SameOwners(u, t) /\ Silent(u, t) /\ t.planned = NoRoutes
  BY <1>1, InvalidateFields DEF Good
<1> HIDE DEF t
<1>5. /\ SameBooks(s, t) /\ Silent(s, t)
      /\ t.active = s.active /\ t.reported = s.reported
  BY <1>3, <1>4 DEF SameBuffers, SameOwners, SameBooks, Silent, SaysNothing,
                    SameVersions, SameSafety
<1>6. Unmoved(s, t, {})
  BY <1>1, <1>4, <1>5, NothingAdded DEF Unmoved, Silent
<1>7. t.events = s.events
  BY <1>5 DEF Silent, SameSafety
<1>8. Chain(s, t)
  BY <1>2, <1>5, <1>6, OneBlock DEF Block, Guards, Silent, SameSafety
<1> QED
  BY <1>7, <1>8 DEF t, u, p, x

LEMMA RemoveTargetChain ==
  ASSUME Good(co), NEW t \in co.pending, RemoveTarget(t)
  PROVE  Chain(Begin, co') /\ co'.events = co.events
<1>1. Good(Begin) /\ Begin.pending = co.pending /\ Begin.events = co.events
  BY BeginGood, BeginFields, BeginSame DEF Good
<1> DEFINE u == [Begin EXCEPT !.pending = Begin.pending \ {t},
                              !.withdrawn = Begin.withdrawn \cup {t}]
<1>2. co' = InvalidatePlannedRoutes(u)
  BY DEF RemoveTarget, Become
<1>3. {t} \in SUBSET Begin.pending
  BY <1>1
<1> QED
  BY <1>1, <1>2, <1>3, WithdrawChain

LEMMA ClearPendingTargetsChain ==
  ASSUME Good(co), ClearPendingTargets
  PROVE  Chain(Begin, co') /\ co'.events = co.events
<1> DEFINE s == Begin
<1> DEFINE u == [s EXCEPT !.pending = s.pending \ s.pending,
                          !.withdrawn = s.withdrawn \cup s.pending]
<1>1. Good(s) /\ s.events = co.events
  BY BeginGood, BeginSame DEF Good
<1>2. s.pending \ s.pending = {}
  OBVIOUS
<1>3. co' = InvalidatePlannedRoutes(u)
  BY <1>2 DEF ClearPendingTargets, Become
<1> HIDE DEF s
<1>4. s.pending \in SUBSET s.pending
  OBVIOUS
<1>5. Chain(s, co') /\ co'.events = s.events
  BY <1>1, <1>3, <1>4, WithdrawChain
<1> QED
  BY <1>1, <1>5 DEF s

LEMMA CalculateChain ==
  ASSUME Good(co), NEW recalculate \in BOOLEAN, Calculate(recalculate)
  PROVE  Chain(Begin, co') /\ co'.events = co.events
<1>1. Good(Begin) /\ Begin \in Memory /\ Good(co') /\ co' \in Memory
      /\ Begin.events = co.events
  BY BeginGood, CalculateStep, BeginSame DEF Good
<1>2. PICK plan \in RouteSolutions(EligibleDrones(co), RoutableTargets(co, recalculate)) :
        co' = CalculateRoutes(Begin, recalculate, plan)
  BY DEF Calculate, Become
<1>3. DOMAIN plan \in SUBSET Drones
  BY EligibleSubset DEF RouteSolutions
<1>4. Calculated(Begin, co')
  BY <1>1, <1>2, <1>3, CalculateEffect
<1>5. Begin.phase = "IDLE"
  BY BeginGood DEF Calculate, CanCalculate
<1> QED
  BY <1>1, <1>4, <1>5, OneBlock DEF Block, Guards, Calculated, SameSafety

LEMMA StartMissionChain ==
  ASSUME Good(co), StartMission
  PROVE  Chain(Begin, co') /\ co'.events = co.events
<1>1. CanDispatch(Begin)
  BY BeginFields
     DEF Good, StartMission, CanDispatch, DroneReadyForMission, DroneHealthy,
         RoutableTargets
<1>2. Good(Begin) /\ Good(co') /\ Begin.events = co.events
  BY BeginGood, StartMissionStep, BeginSame DEF Good
<1>3. Dispatched(Begin, co')
  BY <1>2, DispatchEffect DEF Good, StartMission, Become
<1> QED
  BY <1>1, <1>2, <1>3, OneBlock DEF Block, Guards, Dispatched, SameSafety

LEMMA AbortChain ==
  ASSUME NEW s, Good(s)
  PROVE  LET t == AbortActiveMission(s, TRUE)
         IN  Block(s, t) /\ t.phase = "IDLE" /\ t.events = s.events
<1> DEFINE t == AbortActiveMission(s, TRUE)
<1>1. s \in Memory /\ Good(t) /\ t.phase = "IDLE"
  BY AbortGood, Zenon DEF Good
<1>2. /\ Emptied(s, t)
      /\ IF s.activeMission # 0 THEN Posts(s, t, CancelAll(s)) ELSE SaysNothing(s, t)
  BY <1>1, AbortEffect, Zenon
<1> HIDE DEF t
<1> QED
  BY <1>1, <1>2, Zenon DEF t, Block, Guards, Aborted, CalledOff, Emptied, SameSafety

LEMMA CancelActiveMissionChain ==
  ASSUME Good(co), CancelActiveMission
  PROVE  Chain(Begin, co') /\ co'.events = co.events
<1>1. Good(Begin) /\ Begin.events = co.events
  BY BeginGood, BeginSame DEF Good
<1>2. co' = AbortActiveMission(Begin, TRUE)
  BY DEF CancelActiveMission, Become
<1> QED
  BY <1>1, <1>2, AbortChain, OneBlock, Zenon

LEMMA ReturnHomeChain ==
  ASSUME Good(co), NEW selection \in Selections, ReturnHome(selection)
  PROVE  Chain(Begin, co') /\ co'.events = co.events
<1>1. HomeEligible(co, selection) \in SUBSET Drones
  BY DEF HomeEligible, Selections
<1>2. "HOME" \in HomeKinds
  BY DEF HomeKinds
<1>3. Good(Begin) /\ Begin.phase = "IDLE" /\ Begin.events = co.events /\ Good(co')
  BY BeginGood, BeginSame, ReturnHomeStep DEF ReturnHome, Good
<1>4. co' = StartHomeMission(Begin, HomeEligible(co, selection), "HOME")
  BY DEF ReturnHome, Become
<1>5. SentHome(Begin, co', HomeEligible(co, selection), "HOME")
  BY <1>1, <1>3, <1>4, StartHomeEffect DEF Good
<1>6. Block(Begin, co')
  BY <1>1, <1>2, <1>3, <1>5 DEF Block, Guards, SentHome, SameSafety
<1> QED
  BY <1>3, <1>5, <1>6, OneBlock DEF SentHome, SameSafety

-----------------------------------------------------------------------------
LEMMA SettingBlock ==
  ASSUME NEW s, Good(s), NEW kind \in SettingKinds, NEW d \in Drones,
         NEW mission \in Nat, NEW revision \in Nat
  PROVE  LET t == PublishNew(s, kind, mission, revision, {d})
         IN  Block(s, t) /\ t.events = s.events
<1> DEFINE t == PublishNew(s, kind, mission, revision, {d})
<1> DEFINE c == Broadcast(kind, s.nextCommand, mission, revision, {d}, NoOrders)
<1>1. s \in Memory /\ kind \in Kinds
  BY DEF Good, Kinds
<1>2. /\ t \in Memory /\ SameBuffers(s, t) /\ SameOwners(s, t)
      /\ Says(s, t, c) /\ t.planned = s.planned
  BY <1>1, PublishNewFields
<1>3. c \in Broadcasts /\ c.command = s.nextCommand /\ c.kind = kind
  <2>1. NoOrders \in [Drones -> Order]
    BY DEF NoOrders, NoOrder, Order
  <2>2. c \in Broadcasts
    BY <1>1, <2>1, BooksField, BroadcastType
  <2> QED
    BY <2>2 DEF Broadcast
<1> HIDE DEF t, c
<1>4. Adds(s, t, {c})
  BY <1>1, <1>2, <1>3, PostAdded DEF Says
<1>5. SameBooks(s, t) /\ SameVersions(s, t) /\ t.recalculation = s.recalculation
      /\ t.active = s.active /\ t.reported = s.reported
      /\ t.events = s.events /\ t.excluded = s.excluded
  BY <1>2 DEF SameBuffers, SameOwners, SameBooks, Says, SameSafety
<1>6. Unmoved(s, t, {c})
  BY <1>2, <1>3, <1>4, <1>5 DEF Unmoved
<1>7. Good(t)
  BY <1>2, GoodFrame
<1> QED
  BY <1>5, <1>6, <1>7 DEF Block, Guards, t

LEMMA SetDroneSpeedChain ==
  ASSUME Good(co), NEW d \in Drones, SetDroneSpeed(d)
  PROVE  Chain(Begin, co') /\ co'.events = co.events
<1> DEFINE i == InvalidatePlannedRoutes(Begin)
<1>1. Good(Begin) /\ Begin.events = co.events /\ Begin \in Memory /\ Good(i)
  BY BeginGood, BeginSame, InvalidateGood DEF Good
<1>2. Block(Begin, i) /\ i.events = co.events
  BY <1>1, InvalidateFields, UnmovedFrom DEF Block, Guards, Silent, SameSafety
<1>3. co.activeMission \in Nat /\ co.activeRevision \in Nat
  BY BooksField DEF Good
<1>4. co' = PublishNew(i, "SET_SPEED", co.activeMission, co.activeRevision, {d})
  BY DEF SetDroneSpeed, Become
<1>5. "SET_SPEED" \in SettingKinds
  BY DEF SettingKinds
<1> HIDE DEF i
<1>6. Block(i, co') /\ co'.events = i.events
  BY <1>1, <1>3, <1>4, <1>5, SettingBlock
<1> QED
  BY <1>2, <1>6, TwoBlocks

LEMMA SetDroneLidarRangeChain ==
  ASSUME Good(co), NEW d \in Drones, SetDroneLidarRange(d)
  PROVE  Chain(Begin, co') /\ co'.events = co.events
<1>1. Good(Begin) /\ Begin.events = co.events
  BY BeginGood, BeginSame DEF Good
<1>2. co.activeMission \in Nat /\ co.activeRevision \in Nat
  BY BooksField DEF Good
<1>3. co' = PublishNew(Begin, "SET_LIDAR_RANGE", co.activeMission, co.activeRevision, {d})
  BY DEF SetDroneLidarRange, Become
<1>4. "SET_LIDAR_RANGE" \in SettingKinds
  BY DEF SettingKinds
<1>5. Block(Begin, co') /\ co'.events = Begin.events
  BY <1>1, <1>2, <1>3, <1>4, SettingBlock
<1> QED
  BY <1>1, <1>5, OneBlock

LEMMA LandChain ==
  ASSUME Good(co), NEW selection \in Selections, Land(selection)
  PROVE  Chain(Begin, co') /\ co'.events = co.events
<1> DEFINE ds == {d \in selection : Connected(d) /\ co.enabled[d]}
<1> DEFINE t == InvalidatePlannedRoutes(
                  SetLanding(EraseAux(DetachDroneRoutes(Begin, ds), ds), ds, TRUE))
<1>1. ds \in SUBSET Drones
  BY DEF Selections
<1>2. Good(Begin) /\ Begin.phase = "IDLE" /\ Begin.events = co.events /\ Good(co')
  BY BeginGood, BeginSame, LandStep, Zenon DEF Land, Good
<1>3. co' = PublishFlightCommand(PublishCancellations(t, Begin, ds), "LAND", ds)
  BY DEF Land, Become
<1> HIDE DEF ds
<1>4. \E new : Freed(Begin, co', ds, new)
  BY <1>1, <1>2, <1>3, LandEffect, Zenon DEF Good
<1> QED
  BY <1>1, <1>2, <1>4, OneBlock DEF Block, Guards, Freed

LEMMA FlightControlChain ==
  ASSUME Good(co), NEW kind \in {"ARM", "TAKEOFF"}, NEW selection \in Selections,
         FlightControl(kind, selection)
  PROVE  Chain(Begin, co') /\ co'.events = co.events
<1> DEFINE ds == {d \in selection : DroneHealthy(co, d)}
<1> DEFINE t == InvalidatePlannedRoutes(
                  SetLanding(EraseAux(DetachDroneRoutes(Begin, ds), ds), ds, FALSE))
<1>1. ds \in SUBSET Drones /\ kind \in FlightKinds
  BY DEF Selections, FlightKinds
<1>2. Good(Begin) /\ Begin.phase = "IDLE" /\ Begin.events = co.events /\ Good(co')
  BY BeginGood, BeginSame, FlightControlStep, Zenon DEF FlightControl, Good
<1>3. co' = PublishFlightCommand(t, kind, ds)
  BY DEF FlightControl, Become
<1> HIDE DEF ds
<1>4. \E new : Freed(Begin, co', ds, new)
  BY <1>1, <1>2, <1>3, FlightEffect, Zenon DEF Good
<1> QED
  BY <1>1, <1>2, <1>4, OneBlock DEF Block, Guards, Freed

LEMMA ForceDisarmChain ==
  ASSUME Good(co), NEW selection \in Selections, ForceDisarm(selection)
  PROVE  Chain(Begin, co') /\ co'.events = co.events
<1> DEFINE ds == {d \in selection : link[d] # "silent" /\ vehicle[d] # "grounded"}
<1> DEFINE s == IF co.phase = "IDLE" THEN Begin ELSE AbortActiveMission(Begin, TRUE)
<1> DEFINE t == InvalidatePlannedRoutes(
                  SetLanding(EraseAux(DetachDroneRoutes(s, ds), ds), ds, FALSE))
<1>1. ds \in SUBSET Drones /\ "FORCE_DISARM" \in FlightKinds
  BY DEF Selections, FlightKinds
<1>2. Good(Begin) /\ Begin.events = co.events /\ Good(co')
  BY BeginGood, BeginSame, ForceDisarmStep DEF Good
<1>3. Block(Begin, s) /\ s.phase = "IDLE" /\ s.events = co.events
  <2>1. Begin.phase = co.phase
    BY BeginGood
  <2> QED
    BY <1>2, <2>1, AbortChain, Stands, Zenon
<1>4. co' = PublishFlightCommand(t, "FORCE_DISARM", ds)
  BY DEF ForceDisarm, Become
<1> HIDE DEF ds, s
<1>5. \E new : Freed(s, co', ds, new)
  BY <1>1, <1>3, <1>4, FlightEffect, Zenon DEF Block, Good
<1>6. Block(s, co')
  BY <1>1, <1>2, <1>3, <1>5 DEF Block, Guards, Freed
<1> QED
  BY <1>3, <1>5, <1>6, TwoBlocks DEF Freed

(* A drone that is switched off leaves its routes and is told to stop.     *)
LEMMA OffEffect ==
  ASSUME NEW s, Good(s), s.phase = "IDLE", Counted(s), NEW d \in Drones
  PROVE  LET isAux == d \in Owners(s.aux)
             held == isAux \/ d \in Owners(s.current) \cup Owners(s.provisional)
             off == EraseAux(DetachDroneRoutes(
                      InvalidatePlannedRoutes([s EXCEPT !.enabled[d] = FALSE]), {d}), {d})
             t == IF ~held THEN off
                  ELSE IF isAux
                  THEN PublishCancelCommand(off, s.aux[d].mission, 1, {d})
                  ELSE PublishCancelCommand(off, s.activeMission, s.activeRevision, {d})
         IN  \E new : Freed(s, t, {d}, new)
<1> DEFINE ds == {d}
<1> DEFINE x == [s.enabled EXCEPT ![d] = FALSE]
<1> DEFINE e == [s EXCEPT !.enabled = x]
<1> DEFINE i == InvalidatePlannedRoutes(e)
<1> DEFINE off == EraseAux(DetachDroneRoutes(i, ds), ds)
<1> DEFINE isAux == d \in Owners(s.aux)
<1> DEFINE held == isAux \/ d \in Owners(s.current) \cup Owners(s.provisional)
<1> DEFINE v == IF isAux THEN <<s.aux[d].mission, 1>> ELSE ActiveVersion(s)
<1> DEFINE c == Broadcast("CANCEL", off.nextCommand, v[1], v[2], ds, NoOrders)
<1> DEFINE w == PublishCancelCommand(off, v[1], v[2], ds)
<1>1. s \in Memory /\ ds \in SUBSET Drones
  BY DEF Good
<1>2. x \in [Drones -> BOOLEAN]
  BY <1>1 DEF Memory
<1>3. [s EXCEPT !.enabled[d] = FALSE] = e
  OBVIOUS
<1> HIDE DEF x
<1>4. e \in Memory /\ SameBuffers(s, e) /\ SameOwners(s, e) /\ Silent(s, e)
  BY <1>1, <1>2, Zenon DEF Memory, SameBuffers, SameOwners, Silent, SaysNothing,
                    SameVersions, SameSafety
<1>17. InvalidatePlannedRoutes([s EXCEPT !.enabled[d] = FALSE]) = i
  BY <1>3
<1> HIDE DEF e
<1>5. i \in Memory /\ SameBuffers(e, i) /\ SameOwners(e, i) /\ Silent(e, i)
      /\ i.planned = NoRoutes
  BY <1>4, InvalidateFields
<1>18. EraseAux(DetachDroneRoutes(InvalidatePlannedRoutes(
           [s EXCEPT !.enabled[d] = FALSE]), {d}), {d}) = off
  BY <1>17
<1> HIDE DEF i
<1>6. /\ off \in Memory /\ Released(i, off, ds) /\ Silent(i, off)
      /\ off.reported = i.reported
      /\ off.active = i.active \ UNION {Stops(i.current[f]) : f \in ds}
  BY <1>1, <1>5, EraseEffect
<1> HIDE DEF off
<1>7. /\ Released(s, off, ds) /\ off.planned = NoRoutes
      /\ off.reported = s.reported
      /\ off.active = s.active \ UNION {Stops(s.current[f]) : f \in ds}
  BY <1>4, <1>5, <1>6 DEF Released, SameBuffers, SameOwners
<1>8. Silent(s, off)
  BY <1>4, <1>5, <1>6 DEF Silent, SaysNothing, SameVersions, SameSafety
<1>9. Adds(s, off, {})
  BY <1>1, <1>8, NothingAdded DEF Silent
<1>10. CASE ~held
  <2>1. d \notin Owners(s.aux) \cup Assigned(s)
    BY <1>10 DEF Assigned
  <2>2. Freed(s, off, ds, {})
    BY <1>7, <1>8, <1>9, <2>1 DEF Freed, Silent, SameSafety
  <2> QED
    BY <1>10, <1>18, <2>2
<1>11. CASE held
  <2>1. v[1] \in Nat /\ v[2] \in Nat /\ v[1] # 0 /\ v = <<v[1], v[2]>>
    <3>1. CASE isAux
      <4>1. s.aux[d].mission \in Nat /\ s.aux[d].mission # 0
        BY <1>1, <3>1, BooksField DEF Counted, HomesNumbered, Aux
      <4> QED
        BY <3>1, <4>1
    <3>2. CASE ~isAux
      <4>1. s.activeMission # 0
        BY <1>11, <3>2 DEF Counted, VersionsKnown, Assigned
      <4> QED
        BY <1>1, <3>2, <4>1, BooksField DEF ActiveVersion
    <3> QED
      BY <3>1, <3>2
  <2>2. /\ w \in Memory /\ SameBuffers(off, w) /\ SameOwners(off, w)
        /\ Says(off, w, c) /\ w.planned = off.planned
    BY <1>1, <1>6, <2>1, PublishCancelFields
  <2>3. /\ c \in Broadcasts /\ c.command = off.nextCommand /\ c.kind = "CANCEL"
        /\ c.to = ds /\ Version(c) = v
    <3>1. NoOrders \in [Drones -> Order] /\ "CANCEL" \in Kinds
      BY DEF NoOrders, NoOrder, Order, Kinds
    <3>2. c \in Broadcasts
      BY <1>1, <1>6, <2>1, <3>1, BooksField, BroadcastType, Zenon
    <3> QED
      BY <2>1, <3>2 DEF Broadcast, Version
  <2>4. w = IF isAux THEN PublishCancelCommand(off, s.aux[d].mission, 1, ds)
            ELSE PublishCancelCommand(off, s.activeMission, s.activeRevision, ds)
    BY DEF ActiveVersion
  <2>10. \/ v = ActiveVersion(s)
         \/ \E f \in Owners(s.aux) : v = <<s.aux[f].mission, 1>>
    OBVIOUS
  <2>11. v = IF d \in Owners(s.aux) THEN <<s.aux[d].mission, 1>> ELSE ActiveVersion(s)
    OBVIOUS
  <2> HIDE DEF w, c, v
  <2>5. Adds(off, w, {c})
    BY <1>6, <2>2, <2>3, PostAdded DEF Says
  <2>6. Adds(s, w, {c})
    <3>1. Adds(s, w, {} \cup {c})
      BY <1>1, <1>6, <1>9, <2>2, <2>3, <2>5, AddsChain
    <3>2. {} \cup {c} = {c}
      OBVIOUS
    <3> QED
      BY <3>1, <3>2
  <2>7. Released(s, w, ds) /\ SameVersions(s, w) /\ w.recalculation = s.recalculation
        /\ w.planned = NoRoutes
    BY <1>7, <1>8, <2>2 DEF Released, SameBuffers, SameOwners, Silent, Says, SameVersions
  <2>8. /\ w.events = s.events /\ w.excluded = s.excluded
        /\ w.reported = s.reported
        /\ w.active = s.active \ UNION {Stops(s.current[f]) : f \in ds}
    BY <1>7, <1>8, <2>2 DEF SameBuffers, Silent, Says, SameSafety
  <2>12. Halts(s, d, c)
    BY <2>3, <2>11 DEF Halts
  <2>9. Freed(s, w, ds, {c})
    BY <2>3, <2>6, <2>7, <2>8, <2>10, <2>12 DEF Freed
  <2> QED
    BY <1>11, <1>18, <2>4, <2>9
<1> QED
  BY <1>10, <1>11, Zenon

LEMMA DisableDroneChain ==
  ASSUME Good(co), Counted(Begin), NEW d \in Drones, DisableDrone(d)
  PROVE  Chain(Begin, co') /\ co'.events = co.events
<1> DEFINE s == Begin
<1> DEFINE isAux == d \in Owners(s.aux)
<1> DEFINE held == isAux \/ d \in Owners(s.current) \cup Owners(s.provisional)
<1> DEFINE off == EraseAux(DetachDroneRoutes(
                    InvalidatePlannedRoutes([s EXCEPT !.enabled[d] = FALSE]), {d}), {d})
<1>1. Good(s) /\ s.phase = "IDLE" /\ s.events = co.events /\ Good(co')
  BY BeginGood, BeginSame, DisableDroneStep, Zenon DEF DisableDrone, Good
<1>2. co' = IF ~held THEN off
            ELSE IF isAux
            THEN PublishCancelCommand(off, s.aux[d].mission, 1, {d})
            ELSE PublishCancelCommand(off, s.activeMission, s.activeRevision, {d})
  BY DEF DisableDrone, Become
<1>3. Counted(s)
  OBVIOUS
<1> HIDE DEF s
<1>4. \E new : Freed(s, co', {d}, new)
  BY <1>1, <1>2, <1>3, OffEffect, Zenon
<1>5. Block(s, co')
  BY <1>1, <1>4 DEF Block, Guards, Freed
<1>6. Chain(s, co') /\ co'.events = co.events
  BY <1>1, <1>4, <1>5, OneBlock DEF Freed
<1> QED
  BY <1>6 DEF s

-----------------------------------------------------------------------------
LEMMA EnableDroneEffect ==
  ASSUME Good(co), NEW d \in Drones, EnableDrone(d)
  PROVE  /\ Unmoved(Begin, co', {}) /\ co'.events = co.events
         /\ Good(co') /\ SaysNothing(Begin, co')
<1> DEFINE s == Begin
<1> DEFINE e == [s EXCEPT !.enabled[d] = TRUE, !.excluded[d] = FALSE,
                          !.returnHome[d] = FALSE]
<1>1. s \in Memory /\ s.events = co.events /\ Good(co')
  BY BeginGood, BeginSame, EnableDroneStep DEF Good
<1>2. co' = InvalidatePlannedRoutes(e)
  BY DEF EnableDrone, Become
<1> HIDE DEF s
<1>3. /\ e \in Memory /\ SameBooks(s, e) /\ SameVersions(s, e) /\ SaysNothing(s, e)
      /\ e.recalculation = s.recalculation /\ e.events = s.events
      /\ e.active = s.active /\ e.reported = s.reported
  BY <1>1, Zenon DEF Memory, SameBooks, SameVersions, SaysNothing
<1> HIDE DEF e
<1>4. /\ SameBuffers(e, co') /\ SameOwners(e, co') /\ Silent(e, co')
      /\ co'.planned = NoRoutes
  BY <1>2, <1>3, InvalidateFields
<1>5. /\ SameBooks(s, co') /\ SameVersions(s, co') /\ SaysNothing(s, co')
      /\ co'.recalculation = s.recalculation /\ co'.events = s.events
      /\ co'.active = s.active /\ co'.reported = s.reported
  BY <1>3, <1>4 DEF SameBooks, SameBuffers, SameOwners, Silent, SameVersions,
                    SaysNothing, SameSafety
<1>6. Unmoved(s, co', {})
  BY <1>1, <1>4, <1>5, NothingAdded DEF Unmoved
<1> QED
  BY <1>1, <1>5, <1>6 DEF s

LEMMA OnDroneHeartbeatChain ==
  ASSUME Good(co), NEW d \in Drones, NEW battery \in BatteryStates,
         OnDroneHeartbeat(d, battery)
  PROVE  /\ Chain(Begin, co')
         /\ \/ co'.events = co.events
            \/ /\ battery # "NORMAL"
               /\ co'.events = Queued(co, [drone |-> d, battery |-> battery])
<1> DEFINE b == Begin
<1> DEFINE s == [b EXCEPT !.batteryOk[d] = (battery = "NORMAL")]
<1> DEFINE event == [drone |-> d, battery |-> battery]
<1> DEFINE q == Queued(s, event)
<1> DEFINE raised == [s EXCEPT !.excluded[d] = TRUE,
                        !.returnHome[d] = (battery = "RETURN_HOME"),
                        !.lastEvent[d] = battery, !.events = q]
<1> DEFINE calmed == [s EXCEPT !.lastEvent[d] = "NORMAL"]
<1>1. Good(b) /\ b \in Memory /\ Good(co') /\ co' \in Memory /\ b.events = co.events
  BY BeginGood, BeginSame, OnDroneHeartbeatStep DEF Good
<1>2. (co' = raised /\ battery # "NORMAL") \/ co' = calmed \/ co' = s
  BY DEF OnDroneHeartbeat
<1> HIDE DEF b
<1>3. /\ s \in Memory /\ SameBuffers(b, s) /\ SameOwners(b, s) /\ Silent(b, s)
      /\ s.planned = b.planned
  BY <1>1, Zenon DEF Memory, SameBuffers, SameOwners, Silent, SameVersions, SameSafety, SaysNothing
<1>4. s.events = co.events
  BY <1>1, <1>3 DEF Silent, SameSafety
<1> HIDE DEF s
<1>5. q = Queued(co, event)
  BY <1>4 DEF Queued, EventsOfOthers
<1> HIDE DEF q, event
<1>6. /\ SameBooks(s, raised) /\ SameVersions(s, raised) /\ SaysNothing(s, raised)
      /\ raised.recalculation = s.recalculation /\ raised.events = q
      /\ raised.active = s.active /\ raised.reported = s.reported
      /\ raised.planned = s.planned /\ Guards(s, raised)
  BY <1>3 DEF Memory, SameBooks, SameVersions, SaysNothing, Guards
<1>7. /\ SameBooks(s, calmed) /\ SameVersions(s, calmed) /\ SaysNothing(s, calmed)
      /\ calmed.recalculation = s.recalculation /\ calmed.events = s.events
      /\ calmed.active = s.active /\ calmed.reported = s.reported
      /\ calmed.planned = s.planned /\ Guards(s, calmed)
  BY <1>3 DEF Memory, SameBooks, SameVersions, SaysNothing, Guards
<1> HIDE DEF raised, calmed
<1>8. /\ SameBooks(b, co') /\ SameVersions(b, co') /\ SaysNothing(b, co')
      /\ co'.recalculation = b.recalculation
      /\ co'.active = b.active /\ co'.reported = b.reported
      /\ co'.planned = b.planned /\ Guards(b, co')
  <2>1. /\ SameBooks(b, s) /\ SameVersions(b, s) /\ SaysNothing(b, s)
        /\ s.recalculation = b.recalculation
        /\ s.active = b.active /\ s.reported = b.reported
        /\ s.planned = b.planned /\ s.excluded = b.excluded
    BY <1>3 DEF SameBooks, SameBuffers, SameOwners, Silent, SameSafety
  <2> QED
    BY <1>2, <1>6, <1>7, <2>1 DEF SameBooks, SameVersions, SaysNothing, Guards
<1>9. Unmoved(b, co', {})
  BY <1>1, <1>8, NothingAdded DEF Unmoved, Guards
<1>10. Chain(b, co')
  BY <1>1, <1>8, <1>9, OneBlock DEF Block
<1>11. co'.events = co.events \/ (battery # "NORMAL" /\ co'.events = Queued(co, event))
  BY <1>2, <1>4, <1>5, <1>6, <1>7
<1> QED
  BY <1>10, <1>11 DEF b, event

LEMMA OnVehicleStateChain ==
  ASSUME Good(co), NEW d \in Drones, NEW v \in Vehicles, NEW localized \in BOOLEAN,
         OnVehicleState(d, v, localized)
  PROVE  Chain(Begin, co') /\ co'.events = co.events
<1> DEFINE b == Begin
<1> DEFINE t == [b EXCEPT !.landing[d] = b.landing[d] /\ v # "grounded"]
<1>1. Good(b) /\ b \in Memory /\ Good(co') /\ b.events = co.events
  BY BeginGood, BeginSame, OnVehicleStateStep DEF Good
<1>2. co' = t
  BY DEF OnVehicleState
<1> HIDE DEF b
<1>3. t \in Memory /\ SameBuffers(b, t) /\ SameOwners(b, t) /\ Silent(b, t)
  BY <1>1, Zenon DEF Memory, SameBuffers, SameOwners, Silent, SameVersions, SameSafety, SaysNothing
<1> HIDE DEF t
<1>4. Block(b, t) /\ t.events = b.events
  BY <1>1, <1>2, <1>3, UnmovedFrom DEF Block, Guards, Silent, SameSafety
<1> QED
  BY <1>1, <1>2, <1>4, OneBlock DEF b

LEMMA LinkLossChain ==
  ASSUME Good(co), NEW d \in Drones, NEW l \in Links, LinkLoss(d, l)
  PROVE  Chain(Begin, co') /\ co'.events = co.events
<1>1. Good(Begin) /\ co' = Begin /\ Begin.events = co.events
  BY BeginGood, BeginSame DEF LinkLoss, Good
<1> QED
  BY <1>1, Stands, OneBlock

LEMMA DispatchTimeoutChain ==
  ASSUME Good(co), DispatchTimeout
  PROVE  Chain(Begin, co') /\ co'.events = co.events
<1> DEFINE s == Begin
<1>1. Good(s) /\ s.phase = "WAITING" /\ Good(co') /\ s.events = co.events
  BY BeginGood, BeginSame, DispatchTimeoutStep DEF DispatchTimeout, Good
<1>2. co' = FailProvisional(s)
  BY DEF DispatchTimeout, Become
<1> HIDE DEF s
<1>3. Owners(s.provisional) # {} /\ s \in Memory
  BY <1>1 DEF Good, Consistent, Awaited
<1>4. /\ co'.current = IF s.recalculation THEN NoRoutes ELSE s.current
      /\ co'.provisional = NoRoutes /\ ~co'.recalculation
      /\ co'.planned = s.planned \/ co'.planned = NoRoutes
      /\ co'.aux = s.aux /\ co'.phase = "IDLE"
      /\ SameVersions(s, co') /\ SameSafety(s, co')
      /\ IF s.activeMission # 0 THEN Posts(s, co', CancelAll(s)) ELSE SaysNothing(s, co')
      /\ ~s.recalculation => co'.active = s.active /\ co'.reported = s.reported
  BY <1>2, <1>3, FailEffect
<1>5. Block(s, co') /\ co'.events = s.events
  BY <1>1, <1>4 DEF Block, Guards, Failed, CalledOff, SameSafety
<1> QED
  BY <1>1, <1>5, OneBlock DEF s

(* A drone on its battery's order: it lands, or heads home if it can.      *)
LEMMA SafetyResponseChain ==
  ASSUME NEW s, Good(s), s.phase = "IDLE", NEW event \in Events
  PROVE  LET t == SafetyResponse(s, event)
         IN  t.events = s.events /\ t.phase = "IDLE" /\ \E m : Block(s, m) /\ Block(m, t)
<1> DEFINE d == event.drone
<1> DEFINE t == SafetyResponse(s, event)
<1>1. d \in Drones /\ s \in Memory /\ Good(t) /\ t \in Memory
  BY SafetyResponseGood DEF Events, Good
<1>2. CASE event.battery = "EMERGENCY_LAND"
  <2>1. t = PublishFlightCommand(
              [EraseAux(DetachDroneRoutes(s, {d}), {d}) EXCEPT !.excluded[d] = TRUE],
              "LAND", {d})
    BY <1>2 DEF SafetyResponse
  <2> HIDE DEF d, t
  <2>2. PICK new : Freed(s, t, {d}, new)
    BY <1>1, <2>1, EmergencyEffect, Zenon
  <2>3. t.phase = "IDLE" /\ t.events = s.events /\ Guards(s, t)
    BY <2>2 DEF Freed, Released, Guards
  <2>4. {d} \in SUBSET Drones
    BY <1>1
  <2>5. Block(s, t)
    BY <1>1, <2>2, <2>3, <2>4 DEF Block
  <2> QED
    BY <1>1, <2>3, <2>5, Stands DEF t
<1>3. CASE event.battery # "EMERGENCY_LAND"
  <2> DEFINE homing == HomeEligible(s, {d})
  <2> DEFINE h == IF homing = {} THEN s
                  ELSE StartHomeMission(s, homing, "LOW_BATTERY_RTH")
  <2> DEFINE x == [h EXCEPT !.excluded[d] = TRUE, !.returnHome[d] = (homing # {})]
  <2>1. t = x
    BY <1>3 DEF SafetyResponse
  <2>2. homing \in SUBSET Drones /\ "LOW_BATTERY_RTH" \in HomeKinds
    BY <1>1 DEF HomeEligible, HomeKinds
  <2> HIDE DEF homing, t, d
  <2>3. Block(s, h) /\ h.phase = "IDLE" /\ h.events = s.events
    <3>1. CASE homing = {}
      BY <3>1, Stands
    <3>2. CASE homing # {}
      <4> DEFINE w == StartHomeMission(s, homing, "LOW_BATTERY_RTH")
      <4>1. Good(w)
        BY <2>2, StartHomeGood DEF Good, HomeKinds
      <4>2. SentHome(s, w, homing, "LOW_BATTERY_RTH")
        BY <1>1, <2>2, StartHomeEffect
      <4> HIDE DEF w
      <4>3. Block(s, w) /\ w.phase = "IDLE" /\ w.events = s.events
        BY <2>2, <4>1, <4>2 DEF Block, Guards, SentHome, SameSafety
      <4> QED
        BY <3>2, <4>3 DEF w
    <3> QED
      BY <3>1, <3>2
  <2> HIDE DEF h
  <2>4. h \in Memory
    BY <2>3 DEF Block, Good
  <2>5. /\ SameBooks(h, x) /\ SameVersions(h, x) /\ SaysNothing(h, x)
        /\ x.recalculation = h.recalculation /\ x.events = h.events
        /\ x.active = h.active /\ x.reported = h.reported
        /\ x.planned = h.planned /\ Guards(h, x)
    BY <1>1, <2>4 DEF Memory, SameBooks, SameVersions, SaysNothing, Guards
  <2> HIDE DEF x
  <2>6. Unmoved(h, x, {})
    BY <2>4, <2>5, NothingAdded DEF Unmoved, Guards
  <2>7. Block(h, x) /\ x.phase = "IDLE"
    BY <1>1, <2>1, <2>3, <2>5, <2>6 DEF Block, SameBooks
  <2> QED
    BY <2>1, <2>3, <2>5, <2>7 DEF t
<1> QED
  BY <1>2, <1>3

LEMMA RecoveredChain ==
  ASSUME NEW s, Good(s), s.phase = "IDLE", NEW t \in Recovered(s)
  PROVE  t.events = s.events /\ \E m : Block(s, m) /\ Block(m, t)
<1> DEFINE recalculate == Owners(s.current) # {}
<1>1. CASE t = s
  BY <1>1, Stands
<1>2. CASE t # s
  <2>1. PICK plan \in RouteSolutions(EligibleDrones(s), RoutableTargets(s, recalculate)) :
          LET p == CalculateRoutes(s, recalculate, plan)
          IN  t = IF CanDispatch(p) THEN DispatchPlannedMission(p) ELSE p
    BY <1>2 DEF Recovered
  <2> DEFINE p == CalculateRoutes(s, recalculate, plan)
  <2>2. Good(p) /\ p \in Memory /\ s \in Memory /\ Good(t)
    BY EligibleSubset, CalculateGood, RecoveredGood, Zenon DEF Good
  <2>3. DOMAIN plan \in SUBSET Drones
    BY EligibleSubset DEF RouteSolutions
  <2>4. Calculated(s, p)
    BY <2>2, <2>3, CalculateEffect, Zenon
  <2>5. t = IF CanDispatch(p) THEN DispatchPlannedMission(p) ELSE p
    BY <2>1
  <2> HIDE DEF p
  <2>6. Block(s, p) /\ p.events = s.events
    BY <2>2, <2>4 DEF Block, Guards, Calculated, SameSafety
  <2>7. CASE CanDispatch(p)
    <3>1. Dispatched(p, t)
      BY <2>2, <2>5, <2>7, DispatchEffect
    <3>2. Block(p, t) /\ t.events = p.events
      BY <2>2, <2>7, <3>1 DEF Block, Guards, Dispatched, SameSafety
    <3> QED
      BY <2>6, <3>2
  <2>8. CASE ~CanDispatch(p)
    BY <2>2, <2>5, <2>6, <2>8, Stands
  <2> QED
    BY <2>7, <2>8
<1> QED
  BY <1>1, <1>2

LEMMA HandleSafetyEventChain ==
  ASSUME Good(co), HandleSafetyEvent
  PROVE  Chain(Begin, co') /\ co'.events = Tail(co.events) /\ co.events # <<>>
<1> DEFINE b == Begin
<1> DEFINE q == Tail(b.events)
<1> DEFINE s == [b EXCEPT !.events = q]
<1> DEFINE r == SafetyResponse(s, Head(co.events))
<1>1. Good(b) /\ b.phase = "IDLE" /\ b \in Memory
  BY BeginGood DEF HandleSafetyEvent, Good
<1>2. co.events \in Seq(Events) /\ co.events # <<>>
  BY BooksField DEF Good, HandleSafetyEvent
<1>3. b.events = co.events
  BY DEF Good, Begin, Memory
<1>4. co' \in Recovered(r)
  BY DEF HandleSafetyEvent, Become
<1> HIDE DEF b
<1>5. q \in Seq(Events) /\ Head(co.events) \in Events /\ q = Tail(co.events)
  BY <1>2, <1>3, HeadTailProperties
<1> HIDE DEF q
<1>6. /\ s \in Memory /\ SameBuffers(b, s) /\ SameOwners(b, s) /\ SaysNothing(b, s)
      /\ SameVersions(b, s) /\ s.recalculation = b.recalculation /\ s.events = q
      /\ s.planned = b.planned /\ s.excluded = b.excluded
  BY <1>1, <1>5, Zenon DEF Memory, SameBuffers, SameOwners, SaysNothing, SameVersions
<1> HIDE DEF s
<1>7. Good(s) /\ s.phase = "IDLE"
  BY <1>1, <1>6, GoodFrame
<1>8. Unmoved(b, s, {})
  BY <1>1, <1>6, NothingAdded DEF Unmoved, SameBooks, SameBuffers, SameOwners
<1>9. Block(b, s)
  BY <1>1, <1>6, <1>7, <1>8 DEF Block, Guards
<1>10. r.events = q /\ r.phase = "IDLE" /\ \E m : Block(s, m) /\ Block(m, r)
  BY <1>5, <1>6, <1>7, SafetyResponseChain
<1> HIDE DEF r
<1>11. Good(r)
  BY <1>10 DEF Block
<1>12. co'.events = r.events /\ \E m : Block(r, m) /\ Block(m, co')
  BY <1>4, <1>10, <1>11, RecoveredChain
<1>13. Chain(b, co')
  <2>1. \A x, y : Block(x, y) => x \in Memory
    BY DEF Block, Good
  <2> QED
    BY <1>9, <1>10, <1>12, <2>1 DEF Chain
<1> QED
  BY <1>2, <1>5, <1>10, <1>12, <1>13 DEF b

-----------------------------------------------------------------------------
(* Feedback: what a report notes, and what follows from it.                *)

Noted(s, fb, book, t, after) ==
  LET route == Fed(book[fb.drone], fb)
  IN  /\ after = [book EXCEPT ![fb.drone] = route]
      /\ t.active = s.active \ CompletedStops(route)
      /\ t.reported = s.reported \cup CompletedStops(route)
      /\ t.aux = s.aux /\ t.planned = s.planned /\ t.phase = s.phase /\ Silent(s, t)

NotedProvisional(s, fb, t) ==
  Noted(s, fb, s.provisional, t, t.provisional) /\ t.current = s.current

NotedCurrent(s, fb, t) ==
  Noted(s, fb, s.current, t, t.current) /\ t.provisional = s.provisional

Homed(s, fb, t) ==
  /\ t.current = s.current /\ t.provisional = s.provisional /\ t.planned = s.planned
  /\ t.active = s.active /\ t.reported = s.reported /\ t.phase = s.phase
  /\ t.aux = WithoutAux(s.aux, {fb.drone}) /\ Silent(s, t)

Committed(s, t) ==
  /\ t.current = IF AllFinished(s.provisional) THEN NoRoutes ELSE s.provisional
  /\ t.provisional = NoRoutes /\ ~t.recalculation
  /\ t.planned = s.planned \/ t.planned = NoRoutes
  /\ t.aux = s.aux /\ t.phase = "IDLE" /\ t.reported = s.reported
  /\ ~AllFinished(s.provisional) =>
       /\ s.active \subseteq t.active
       /\ UNION {UnfinishedStops(s.provisional[d]) : d \in Drones} \subseteq t.active
  /\ SameVersions(s, t) /\ SameSafety(s, t) /\ SaysNothing(s, t)

Finished(s, t) ==
  /\ t.current = NoRoutes /\ t.planned = NoRoutes
  /\ t.provisional = s.provisional /\ t.aux = s.aux /\ t.phase = s.phase
  /\ t.reported = s.reported /\ Silent(s, t)

AllAccepted(s) == \A d \in Owners(s.provisional) : s.provisional[d].accepted

ProvisionalNews(s, fb, t) ==
  \E f \in Memory :
    /\ NotedProvisional(s, fb, f)
    /\ IF fb.state \in Failures THEN Failed(f, t)
       ELSE IF AllAccepted(f) THEN Committed(f, t) ELSE t = f

MissionNews(s, fb, t) ==
  \E f \in Memory :
    /\ NotedCurrent(s, fb, f)
    /\ IF fb.state \in Failures THEN Aborted(f, t)
       ELSE IF AllFinished(f.current) THEN Finished(f, t) ELSE t = f

LEMMA NotedMemory ==
  ASSUME NEW s \in Memory, NEW fb \in Feedbacks, NEW book \in Books
  PROVE  LET route == Fed(book[fb.drone], fb)
             after == [book EXCEPT ![fb.drone] = route]
         IN  /\ after \in Books
             /\ s.active \ CompletedStops(route) \in SUBSET Nat
             /\ s.reported \cup CompletedStops(route) \in SUBSET Nat
<1> DEFINE route == Fed(book[fb.drone], fb)
<1>1. fb.drone \in Drones /\ book[fb.drone] \in Route
  BY DEF Books, Feedbacks
<1>2. route \in Route /\ CompletedStops(route) \subseteq Stops(book[fb.drone])
  BY <1>1, FedGood
<1>3. Stops(book[fb.drone]) \subseteq Nat
  BY <1>1, StopsType
<1> HIDE DEF route
<1>4. [book EXCEPT ![fb.drone] = route] \in Books
  BY <1>2, Zenon DEF Books
<1>5. s.active \subseteq Nat /\ s.reported \subseteq Nat
  BY BooksField
<1> QED
  BY <1>2, <1>3, <1>4, <1>5 DEF route

LEMMA ProvisionalNoted ==
  ASSUME NEW s \in Memory, NEW fb \in Feedbacks
  PROVE  LET route == Fed(s.provisional[fb.drone], fb)
             f == RemoveCompletedTargets([s EXCEPT !.provisional[fb.drone] = route], route)
         IN  f \in Memory /\ NotedProvisional(s, fb, f)
<1> DEFINE route == Fed(s.provisional[fb.drone], fb)
<1> DEFINE v == [s.provisional EXCEPT ![fb.drone] = route]
<1> DEFINE a == s.active \ CompletedStops(route)
<1> DEFINE r == s.reported \cup CompletedStops(route)
<1> DEFINE x == [s EXCEPT !.provisional = v]
<1> DEFINE f == [x EXCEPT !.active = a, !.reported = r]
<1>1. v \in Books /\ a \in SUBSET Nat /\ r \in SUBSET Nat
  BY BooksField, NotedMemory
<1>2. RemoveCompletedTargets([s EXCEPT !.provisional[fb.drone] = route], route) = f
  <2>1. x.active = s.active /\ x.reported = s.reported
    BY DEF Memory
  <2> HIDE DEF route
  <2> QED
    BY <2>1 DEF RemoveCompletedTargets
<1>3. v = [s.provisional EXCEPT ![fb.drone] = route]
  OBVIOUS
<1> HIDE DEF v, a, r
<1>4. /\ f \in Memory /\ f.provisional = v /\ f.current = s.current
      /\ f.active = a /\ f.reported = r /\ f.aux = s.aux /\ f.planned = s.planned
      /\ f.phase = s.phase /\ Silent(s, f)
  BY <1>1, Zenon DEF Memory, Silent, SaysNothing, SameVersions, SameSafety
<1> HIDE DEF f
<1> QED
  BY <1>2, <1>4 DEF NotedProvisional, Noted, v, a, r

LEMMA CurrentNoted ==
  ASSUME NEW s \in Memory, NEW fb \in Feedbacks
  PROVE  LET route == Fed(s.current[fb.drone], fb)
             f == RemoveCompletedTargets([s EXCEPT !.current[fb.drone] = route], route)
         IN  f \in Memory /\ NotedCurrent(s, fb, f)
<1> DEFINE route == Fed(s.current[fb.drone], fb)
<1> DEFINE v == [s.current EXCEPT ![fb.drone] = route]
<1> DEFINE a == s.active \ CompletedStops(route)
<1> DEFINE r == s.reported \cup CompletedStops(route)
<1> DEFINE x == [s EXCEPT !.current = v]
<1> DEFINE f == [x EXCEPT !.active = a, !.reported = r]
<1>1. v \in Books /\ a \in SUBSET Nat /\ r \in SUBSET Nat
  BY BooksField, NotedMemory
<1>2. RemoveCompletedTargets([s EXCEPT !.current[fb.drone] = route], route) = f
  <2>1. x.active = s.active /\ x.reported = s.reported
    BY DEF Memory
  <2> HIDE DEF route
  <2> QED
    BY <2>1 DEF RemoveCompletedTargets
<1>3. v = [s.current EXCEPT ![fb.drone] = route]
  OBVIOUS
<1> HIDE DEF v, a, r
<1>4. /\ f \in Memory /\ f.current = v /\ f.provisional = s.provisional
      /\ f.active = a /\ f.reported = r /\ f.aux = s.aux /\ f.planned = s.planned
      /\ f.phase = s.phase /\ Silent(s, f)
  BY <1>1, Zenon DEF Memory, Silent, SaysNothing, SameVersions, SameSafety
<1> HIDE DEF f
<1> QED
  BY <1>2, <1>4 DEF NotedCurrent, Noted, v, a, r

LEMMA ProvisionalFeedbackEffect ==
  ASSUME NEW s \in Memory, NEW fb \in Feedbacks, s.provisional[fb.drone].id # 0
  PROVE  ProvisionalNews(s, fb, ProvisionalFeedback(s, fb))
<1> DEFINE route == Fed(s.provisional[fb.drone], fb)
<1> DEFINE f == RemoveCompletedTargets([s EXCEPT !.provisional[fb.drone] = route], route)
<1> DEFINE t == ProvisionalFeedback(s, fb)
<1>1. f \in Memory /\ NotedProvisional(s, fb, f)
  BY ProvisionalNoted
<1>2. t = IF fb.state \in Failures THEN FailProvisional(f)
          ELSE IF AllAccepted(f) THEN CommitProvisional(f) ELSE f
  BY DEF ProvisionalFeedback, AllAccepted
<1> HIDE DEF f, t
<1>3. Owners(f.provisional) # {}
  <2>1. fb.drone \in Drones /\ s.provisional[fb.drone] \in Route /\ s.provisional \in Books
    BY BooksField DEF Books, Feedbacks
  <2>2. Fed(s.provisional[fb.drone], fb).id # 0
    BY <2>1, FedGood
  <2>3. f.provisional[fb.drone].id # 0
    BY <1>1, <2>1, <2>2 DEF NotedProvisional, Noted, Books
  <2> QED
    BY <2>1, <2>3 DEF Owners
<1>4. CASE fb.state \in Failures
  <2>1. Failed(f, t)
    BY <1>1, <1>2, <1>3, <1>4, FailEffect DEF Failed, CalledOff
  <2> QED
    BY <1>1, <1>4, <2>1 DEF ProvisionalNews, t
<1>5. CASE fb.state \notin Failures /\ AllAccepted(f)
  <2>1. Committed(f, t)
    BY <1>1, <1>2, <1>5, CommitEffect DEF Committed
  <2> QED
    BY <1>1, <1>5, <2>1 DEF ProvisionalNews, t
<1>6. CASE fb.state \notin Failures /\ ~AllAccepted(f)
  BY <1>1, <1>2, <1>6 DEF ProvisionalNews, t
<1> QED
  BY <1>4, <1>5, <1>6

LEMMA MissionFeedbackEffect ==
  ASSUME NEW s \in Memory, NEW fb \in Feedbacks
  PROVE  MissionNews(s, fb, MissionFeedback(s, fb))
<1> DEFINE route == Fed(s.current[fb.drone], fb)
<1> DEFINE f == RemoveCompletedTargets([s EXCEPT !.current[fb.drone] = route], route)
<1> DEFINE t == MissionFeedback(s, fb)
<1>1. f \in Memory /\ NotedCurrent(s, fb, f)
  BY CurrentNoted
<1>2. t = IF fb.state \in Failures THEN AbortActiveMission(f, TRUE)
          ELSE IF AllFinished(f.current) THEN FinishMission(f) ELSE f
  BY DEF MissionFeedback
<1> HIDE DEF f, t
<1>4. CASE fb.state \in Failures
  <2>1. Aborted(f, t)
    BY <1>1, <1>2, <1>4, AbortEffect, Zenon DEF Aborted, CalledOff
  <2> QED
    BY <1>1, <1>4, <2>1 DEF MissionNews, t
<1>5. CASE fb.state \notin Failures /\ AllFinished(f.current)
  <2>1. Finished(f, t)
    BY <1>1, <1>2, <1>5, FinishEffect DEF Finished
  <2> QED
    BY <1>1, <1>5, <2>1 DEF MissionNews, t
<1>6. CASE fb.state \notin Failures /\ ~AllFinished(f.current)
  BY <1>1, <1>2, <1>6 DEF MissionNews, t
<1> QED
  BY <1>4, <1>5, <1>6

LEMMA AuxFeedbackEffect ==
  ASSUME NEW s \in Memory, NEW fb \in Feedbacks
  PROVE  LET t == AuxFeedback(s, fb)
         IN  IF fb.state \in Terminal THEN Homed(s, fb, t) ELSE t = s
<1> DEFINE ds == {fb.drone}
<1> DEFINE e == EraseAux(s, ds)
<1> DEFINE b == [e.busy EXCEPT ![fb.drone] = FALSE]
<1> DEFINE t == [e EXCEPT !.busy = b]
<1>1. CASE fb.state \notin Terminal
  BY <1>1 DEF AuxFeedback
<1>2. CASE fb.state \in Terminal
  <2>1. fb.drone \in Drones /\ ds \in SUBSET Drones
    BY DEF Feedbacks
  <2>2. AuxFeedback(s, fb) = t
    BY <1>2 DEF AuxFeedback
  <2>3. /\ e \in Memory /\ SameBuffers(s, e) /\ e.planned = s.planned
        /\ e.aux = WithoutAux(s.aux, ds) /\ Silent(s, e)
    BY <2>1, EraseAuxFields DEF WithoutAux
  <2> HIDE DEF e, b
  <2>4. /\ SameBuffers(e, t) /\ t.planned = e.planned /\ t.aux = e.aux /\ Silent(e, t)
    BY <2>3 DEF Memory, SameBuffers, Silent, SameVersions, SameSafety, SaysNothing
  <2> HIDE DEF t
  <2>5. Homed(s, fb, t)
    BY <2>3, <2>4 DEF Homed, SameBuffers, Silent, SameVersions, SameSafety, SaysNothing
  <2> QED
    BY <1>2, <2>2, <2>5
<1> QED
  BY <1>1, <1>2

(* The three places a report may be of use to.                             *)
ReportsHome(s, fb, t) ==
  MatchesAux(s, fb) /\ fb.state \in Terminal /\ Homed(s, fb, t)

ReportsDispatch(s, fb, t) ==
  /\ ~MatchesAux(s, fb) /\ s.phase = "WAITING" /\ CurrentBroadcast(s, fb)
  /\ fb.route # 0 /\ s.provisional[fb.drone].id = fb.route
  /\ ProvisionalNews(s, fb, t)

ReportsMission(s, fb, t) ==
  /\ ~MatchesAux(s, fb) /\ (s.phase # "WAITING" \/ ~CurrentBroadcast(s, fb))
  /\ fb.mission = s.activeMission /\ fb.revision = s.activeRevision
  /\ fb.route # 0 /\ s.current[fb.drone].id = fb.route
  /\ MissionNews(s, fb, t)

LEMMA FeedbackEffect ==
  ASSUME NEW s \in Memory, NEW fb \in Feedbacks
  PROVE  LET t == FeedbackResult(s, fb)
         IN  \/ ReportsHome(s, fb, t) \/ ReportsDispatch(s, fb, t)
             \/ ReportsMission(s, fb, t) \/ t = s
<1> DEFINE t == FeedbackResult(s, fb)
<1>1. CASE MatchesAux(s, fb)
  BY <1>1, AuxFeedbackEffect DEF FeedbackResult, ReportsHome
<1>2. CASE ~MatchesAux(s, fb) /\ s.phase = "WAITING" /\ CurrentBroadcast(s, fb)
  BY <1>2, ProvisionalFeedbackEffect DEF FeedbackResult, ReportsDispatch
<1>3. CASE ~MatchesAux(s, fb) /\ ~(s.phase = "WAITING" /\ CurrentBroadcast(s, fb))
  <2>1. CASE /\ fb.mission = s.activeMission /\ fb.revision = s.activeRevision
             /\ fb.route # 0 /\ s.current[fb.drone].id = fb.route
    <3>1. t = MissionFeedback(s, fb)
      BY <1>3, <2>1 DEF FeedbackResult
    <3> HIDE DEF t
    <3>2. MissionNews(s, fb, t)
      BY <3>1, MissionFeedbackEffect
    <3> QED
      BY <1>3, <2>1, <3>2 DEF ReportsMission, t
  <2>2. CASE ~(/\ fb.mission = s.activeMission /\ fb.revision = s.activeRevision
               /\ fb.route # 0 /\ s.current[fb.drone].id = fb.route)
    BY <1>3, <2>2 DEF FeedbackResult
  <2> QED
    BY <2>1, <2>2
<1> QED
  BY <1>1, <1>2, <1>3

-----------------------------------------------------------------------------
(* Every block keeps the numbers in order.                                 *)

(* What the numbers depend on, when no mission and no route is begun.      *)
LEMMA CountedKept ==
  ASSUME NEW s \in Memory, NEW t \in Memory, Counted(s),
         t.activeMission = s.activeMission, t.activeCommand = s.activeCommand,
         s.nextMission <= t.nextMission, s.nextCommand <= t.nextCommand,
         s.nextRoute <= t.nextRoute,
         Assigned(t) \subseteq Assigned(s),
         \A d \in Drones :
           \/ t.aux[d] = s.aux[d] \/ t.aux[d] = NoAux
           \/ /\ t.aux[d].mission = s.nextMission /\ s.nextMission < t.nextMission
              /\ t.aux[d].command < t.nextCommand /\ t.aux[d].id < t.nextRoute,
         RevisionKnown(t), StopsCovered(t), PlanFlyable(t),
         \A d \in Drones : /\ t.current[d].id < t.nextRoute
                           /\ t.provisional[d].id < t.nextRoute
                           /\ t.planned[d].id < t.nextRoute
  PROVE  Counted(t)
<1>1. /\ s.nextCommand \in Nat /\ s.nextMission \in Nat /\ s.nextRoute \in Nat
      /\ t.nextCommand \in Nat /\ t.nextMission \in Nat /\ t.nextRoute \in Nat
      /\ s.activeCommand \in Nat /\ s.activeMission \in Nat
      /\ \A d \in Drones : s.aux[d] \in Aux /\ t.aux[d] \in Aux
  BY BooksField
<1>2. VersionsKnown(t)
  BY <1>1 DEF Counted, VersionsKnown
<1>3. t.nextMission # 0
  BY <1>1 DEF Counted
<1>4. ASSUME NEW d \in Owners(t.aux)
      PROVE  /\ t.aux[d].mission # 0 /\ t.aux[d].mission # t.activeMission
             /\ t.aux[d].mission < t.nextMission /\ t.aux[d].command < t.nextCommand
  <2>1. d \in Drones /\ t.aux[d].id # 0
    BY DEF Owners
  <2>2. CASE t.aux[d] = s.aux[d]
    <3>1. d \in Owners(s.aux)
      BY <2>1, <2>2 DEF Owners
    <3>2. /\ s.aux[d].mission # 0 /\ s.aux[d].mission # s.activeMission
          /\ s.aux[d].mission < s.nextMission /\ s.aux[d].command < s.nextCommand
      BY <3>1 DEF Counted, HomesNumbered
    <3>3. s.aux[d].mission \in Nat /\ s.aux[d].command \in Nat
      BY <1>1, <2>1 DEF Aux
    <3> QED
      BY <1>1, <2>2, <3>2, <3>3
  <2>3. CASE t.aux[d] = NoAux
    BY <2>1, <2>3 DEF NoAux
  <2>4. CASE /\ t.aux[d].mission = s.nextMission /\ s.nextMission < t.nextMission
             /\ t.aux[d].command < t.nextCommand
    BY <1>1, <2>4 DEF Counted, VersionsKnown
  <2> QED
    BY <2>1, <2>2, <2>3, <2>4
<1>5. HomesNumbered(t)
  BY <1>4 DEF HomesNumbered
<1>6. ASSUME NEW d \in Drones
      PROVE  t.aux[d].id < t.nextRoute
  <2>1. s.aux[d].id < s.nextRoute /\ s.aux[d].id \in Nat
    BY <1>1 DEF Counted, RoutesNumbered, Aux
  <2>2. t.nextRoute \in Nat \ {0}
    BY BooksField
  <2> QED
    BY <1>1, <2>1, <2>2 DEF NoAux
<1>7. RoutesNumbered(t)
  BY <1>6 DEF RoutesNumbered
<1> QED
  BY <1>2, <1>3, <1>5, <1>7 DEF Counted

LEMMA NoRoutesNumbered ==
  ASSUME NEW t \in Memory
  PROVE  \A d \in Drones : NoRoutes[d] = NoRoute /\ NoRoutes[d].id < t.nextRoute
BY BooksField DEF NoRoutes, NoRoute

LEMMA NoPlan ==
  ASSUME NEW t, t.planned = NoRoutes
  PROVE  PlanFlyable(t)
BY NoOwners DEF PlanFlyable

(* The route ids of a book that only lost routes.                          *)
LEMMA SubBookNumbered ==
  ASSUME NEW s \in Memory, NEW t \in Memory, s.nextRoute <= t.nextRoute,
         NEW book \in Books, \A d \in Drones : book[d].id < s.nextRoute,
         NEW after, \A d \in Drones : after[d] = book[d] \/ after[d] = NoRoute
  PROVE  \A d \in Drones : after[d].id < t.nextRoute
<1>1. t.nextRoute \in Nat \ {0} /\ s.nextRoute \in Nat
  BY BooksField
<1>2. \A d \in Drones : book[d].id \in Nat
  BY DEF Books, Route
<1> QED
  BY <1>1, <1>2 DEF NoRoute

LEMMA DetachedIs ==
  ASSUME NEW book, NEW ds
  PROVE  /\ \A d \in Drones : Detached(book, ds)[d] = book[d]
                              \/ Detached(book, ds)[d] = NoRoute
         /\ Owners(Detached(book, ds)) \subseteq Owners(book)
BY NoRouteStops DEF Detached, Owners

LEMMA UnmovedCounted ==
  ASSUME NEW s \in Memory, NEW t \in Memory, NEW new, Unmoved(s, t, new), Counted(s)
  PROVE  Counted(t)
<1>1. /\ t.activeMission = s.activeMission /\ t.activeCommand = s.activeCommand
      /\ t.nextMission = s.nextMission /\ t.nextRoute = s.nextRoute
      /\ t.current = s.current /\ t.provisional = s.provisional /\ t.aux = s.aux
      /\ s.nextCommand <= t.nextCommand
  BY DEF Unmoved, SameBooks, SameVersions, Adds
<1>2. RevisionKnown(t)
  BY DEF Unmoved, SameBooks, Counted, RevisionKnown
<1>3. StopsCovered(t)
  BY <1>1 DEF Unmoved, Counted, StopsCovered
<1>4. PlanFlyable(t)
  BY NoPlan DEF Unmoved, Counted, PlanFlyable
<1>5. \A d \in Drones : t.planned[d].id < t.nextRoute
  BY <1>1, NoRoutesNumbered DEF Unmoved, Counted, RoutesNumbered
<1>6. s.nextMission <= t.nextMission /\ s.nextRoute <= t.nextRoute
  BY <1>1, BooksField
<1>7. Assigned(t) = Assigned(s)
  BY <1>1 DEF Assigned
<1> QED
  BY <1>1, <1>2, <1>3, <1>4, <1>5, <1>6, <1>7, CountedKept DEF Counted, RoutesNumbered

LEMMA CalculatedCounted ==
  ASSUME NEW s \in Memory, NEW t \in Memory, s.phase = "IDLE", Calculated(s, t), Counted(s)
  PROVE  Counted(t)
<1>1. /\ t.activeMission = s.activeMission /\ t.activeCommand = s.activeCommand
      /\ t.nextMission = s.nextMission /\ s.nextRoute <= t.nextRoute
      /\ t.current = s.current /\ t.provisional = s.provisional /\ t.aux = s.aux
      /\ s.nextCommand = t.nextCommand /\ t.phase = "IDLE"
  BY DEF Calculated, SameBooks, SaysNothing
<1>2. RevisionKnown(t)
  BY <1>1 DEF RevisionKnown
<1>3. StopsCovered(t)
  BY <1>1 DEF Calculated, Counted, StopsCovered
<1>4. PlanFlyable(t)
  BY DEF Calculated, Planned, PlanFlyable
<1>5. ASSUME NEW d \in Drones PROVE t.planned[d].id < t.nextRoute
  <2>1. t.nextRoute \in Nat \ {0} /\ s.nextRoute \in Nat /\ s.current[d].id \in Nat
        /\ t.planned[d].id \in Nat
    BY BooksField DEF Books, Route
  <2>2. CASE t.planned[d].id = 0
    BY <2>1, <2>2
  <2>3. CASE t.planned[d].id # 0
    <3>1. d \in Owners(t.planned)
      BY <2>3 DEF Owners
    <3>2. \/ t.planned[d].id = s.current[d].id
          \/ t.planned[d].id < t.nextRoute
      BY <3>1 DEF Calculated, Planned
    <3>3. s.current[d].id < s.nextRoute
      BY DEF Counted, RoutesNumbered
    <3> QED
      BY <1>1, <2>1, <3>2, <3>3
  <2> QED
    BY <2>2, <2>3
<1>6. s.nextMission <= t.nextMission /\ s.nextCommand <= t.nextCommand
  BY <1>1, BooksField
<1>7. Assigned(t) = Assigned(s)
  BY <1>1 DEF Assigned
<1>8. \A d \in Drones : t.current[d].id < t.nextRoute /\ t.provisional[d].id < t.nextRoute
  BY <1>1, SubBookNumbered, BooksField, Zenon DEF Counted, RoutesNumbered
<1> QED
  BY <1>1, <1>2, <1>3, <1>4, <1>5, <1>6, <1>7, <1>8, CountedKept

LEMMA DispatchedCounted ==
  ASSUME NEW s \in Memory, NEW t \in Memory, CanDispatch(s), Dispatched(s, t), Counted(s)
  PROVE  Counted(t)
<1>1. /\ s.nextCommand \in Nat /\ s.nextMission \in Nat /\ s.nextRoute \in Nat
      /\ s.activeCommand \in Nat /\ s.activeMission \in Nat
      /\ \A d \in Drones : s.aux[d] \in Aux
  BY BooksField
<1>2. t.current = s.current /\ t.aux = s.aux /\ t.provisional = s.planned
      /\ t.planned = NoRoutes /\ t.nextRoute = s.nextRoute
      /\ t.nextCommand = s.nextCommand + 1 /\ t.activeCommand = s.nextCommand
      /\ t.recalculation = s.plannedRecalc
      /\ (s.plannedRecalc <=> (Owners(s.current) # {}))
  BY DEF Dispatched, Posts, CanDispatch
<1>3. IF s.plannedRecalc
      THEN t.activeMission = s.activeMission /\ t.nextMission = s.nextMission
      ELSE t.activeMission = s.nextMission /\ t.nextMission = s.nextMission + 1
  BY DEF Dispatched
<1>4. VersionsKnown(t)
  <2>1. t.activeMission < t.nextMission
    BY <1>1, <1>3 DEF Counted, VersionsKnown
  <2>2. t.activeMission # 0
    <3>1. CASE s.plannedRecalc
      BY <1>2, <1>3, <3>1 DEF Counted, VersionsKnown, Assigned
    <3>2. CASE ~s.plannedRecalc
      BY <1>3, <3>2 DEF Counted
    <3> QED
      BY <3>1, <3>2
  <2>3. t.activeCommand < t.nextCommand
    BY <1>1, <1>2
  <2> QED
    BY <2>1, <2>2, <2>3 DEF VersionsKnown
<1>5. HomesNumbered(t)
  <2> SUFFICES ASSUME NEW d \in Owners(t.aux)
               PROVE  /\ t.aux[d].mission # 0 /\ t.aux[d].mission # t.activeMission
                      /\ t.aux[d].mission < t.nextMission
                      /\ t.aux[d].command < t.nextCommand
    BY DEF HomesNumbered
  <2>1. /\ s.aux[d].mission # 0 /\ s.aux[d].mission # s.activeMission
        /\ s.aux[d].mission < s.nextMission /\ s.aux[d].command < s.nextCommand
    BY <1>2 DEF Counted, HomesNumbered
  <2>2. s.aux[d].mission \in Nat /\ s.aux[d].command \in Nat
    BY <1>1, <1>2 DEF Owners, Aux
  <2> QED
    BY <1>1, <1>2, <1>3, <2>1, <2>2
<1>6. RevisionKnown(t)
  BY <1>2 DEF RevisionKnown
<1>7. t.nextMission # 0
  BY <1>1, <1>3 DEF Counted
<1>8. StopsCovered(t)
  BY <1>2 DEF Dispatched, Counted, StopsCovered
<1>9. RoutesNumbered(t)
  BY <1>2, NoRoutesNumbered DEF Counted, RoutesNumbered
<1>10. PlanFlyable(t)
  BY <1>2, NoPlan
<1> QED
  BY <1>4, <1>5, <1>6, <1>7, <1>8, <1>9, <1>10 DEF Counted

LEMMA CalledOffNext ==
  ASSUME NEW s \in Memory, NEW t \in Memory, CalledOff(s, t)
  PROVE  s.nextCommand <= t.nextCommand
BY BooksField DEF CalledOff, Posts, SaysNothing

LEMMA EmptiedCounted ==
  ASSUME NEW s \in Memory, NEW t \in Memory, Counted(s), Emptied(s, t),
         s.nextCommand <= t.nextCommand
  PROVE  Counted(t)
<1>1. /\ t.activeMission = s.activeMission /\ t.activeCommand = s.activeCommand
      /\ t.nextMission = s.nextMission /\ t.nextRoute = s.nextRoute
      /\ t.current = NoRoutes /\ t.provisional = NoRoutes /\ t.planned = NoRoutes
      /\ t.aux = s.aux /\ t.phase = "IDLE"
  BY DEF Emptied, SameVersions
<1>2. RevisionKnown(t) /\ PlanFlyable(t)
  BY <1>1, NoPlan DEF RevisionKnown
<1>3. StopsCovered(t)
  BY <1>1, NoRoutesNumbered, NoRouteStops DEF StopsCovered
<1>4. \A d \in Drones : /\ t.current[d].id < t.nextRoute
                        /\ t.provisional[d].id < t.nextRoute
                        /\ t.planned[d].id < t.nextRoute
  BY <1>1, NoRoutesNumbered
<1>5. s.nextMission <= t.nextMission /\ s.nextRoute <= t.nextRoute
  BY <1>1, BooksField
<1>6. Assigned(t) = {}
  BY <1>1, NoOwners DEF Assigned
<1> QED
  BY <1>1, <1>2, <1>3, <1>4, <1>5, <1>6, CountedKept

LEMMA FailedCounted ==
  ASSUME NEW s \in Memory, NEW t \in Memory, Counted(s), Failed(s, t), s.phase = "WAITING"
  PROVE  Counted(t)
<1>1. /\ t.activeMission = s.activeMission /\ t.activeCommand = s.activeCommand
      /\ t.nextMission = s.nextMission /\ t.nextRoute = s.nextRoute
      /\ t.provisional = NoRoutes /\ t.planned = NoRoutes
      /\ t.aux = s.aux /\ t.phase = "IDLE" /\ s.nextCommand <= t.nextCommand
      /\ t.current = IF s.recalculation THEN NoRoutes ELSE s.current
  BY CalledOffNext DEF Failed, SameVersions, Counted, RevisionKnown
<1>2. RevisionKnown(t) /\ PlanFlyable(t)
  BY <1>1, NoPlan DEF RevisionKnown
<1>3. StopsCovered(t)
  <2>1. CASE s.recalculation
    BY <1>1, <2>1, NoRoutesNumbered, NoRouteStops DEF StopsCovered
  <2>2. CASE ~s.recalculation
    BY <1>1, <2>2 DEF Failed, Counted, StopsCovered
  <2> QED
    BY <2>1, <2>2
<1>4. \A d \in Drones : /\ t.current[d].id < t.nextRoute
                        /\ t.provisional[d].id < t.nextRoute
                        /\ t.planned[d].id < t.nextRoute
  BY <1>1, NoRoutesNumbered DEF Counted, RoutesNumbered
<1>5. s.nextMission <= t.nextMission /\ s.nextRoute <= t.nextRoute
  BY <1>1, BooksField
<1>6. Assigned(t) \subseteq Assigned(s)
  BY <1>1, NoOwners DEF Assigned
<1> QED
  BY <1>1, <1>2, <1>3, <1>4, <1>5, <1>6, CountedKept

(* The stops of the routes that are left when some drones are taken off.   *)
LEMMA DetachedCovered ==
  ASSUME NEW s, Good(s), StopsCovered(s), NEW t, NEW ds \in SUBSET Drones,
         t.current = Detached(s.current, ds), t.reported = s.reported,
         t.active = s.active \ UNION {Stops(s.current[d]) : d \in ds}
  PROVE  StopsCovered(t)
<1> SUFFICES ASSUME NEW d \in Drones, d \notin ds, NEW x \in Stops(s.current[d]),
                    x \notin s.reported
             PROVE  x \in t.active
  BY NoRouteStops DEF StopsCovered, Detached
<1>1. x \in s.active
  BY DEF StopsCovered
<1>2. \A e \in ds : x \notin Stops(s.current[e])
  BY DEF Good, Consistent, Placed, Separate
<1> QED
  BY <1>1, <1>2

LEMMA FreedCounted ==
  ASSUME NEW s, NEW t \in Memory, Good(s), NEW ds \in SUBSET Drones, NEW new,
         Freed(s, t, ds, new), Counted(s), s.phase = "IDLE"
  PROVE  Counted(t)
<1>1. /\ t.activeMission = s.activeMission /\ t.activeCommand = s.activeCommand
      /\ t.nextMission = s.nextMission /\ t.nextRoute = s.nextRoute
      /\ t.current = Detached(s.current, ds) /\ t.provisional = Detached(s.provisional, ds)
      /\ t.aux = WithoutAux(s.aux, ds) /\ t.phase = "IDLE"
      /\ t.planned = s.planned \/ t.planned = NoRoutes
      /\ s.nextCommand <= t.nextCommand
  BY DEF Freed, Released, SameVersions, Adds
<1>2. s \in Memory
  BY DEF Good
<1>3. RevisionKnown(t) /\ PlanFlyable(t)
  BY <1>1, NoPlan DEF RevisionKnown, Counted, PlanFlyable
<1>4. StopsCovered(t)
  BY <1>1, DetachedCovered DEF Freed, Counted
<1>5. s.nextMission <= t.nextMission /\ s.nextRoute <= t.nextRoute
  BY <1>1, <1>2, BooksField
<1>6. /\ \A d \in Drones : t.current[d].id < t.nextRoute
      /\ \A d \in Drones : t.provisional[d].id < t.nextRoute
      /\ \A d \in Drones : t.planned[d].id < t.nextRoute
  <2>1. s.current \in Books /\ s.provisional \in Books /\ s.planned \in Books
    BY <1>2, BooksField
  <2>2. \A d \in Drones : t.current[d].id < t.nextRoute
    BY <1>1, <1>2, <1>5, <2>1, DetachedIs, SubBookNumbered DEF Counted, RoutesNumbered
  <2>3. \A d \in Drones : t.provisional[d].id < t.nextRoute
    BY <1>1, <1>2, <1>5, <2>1, DetachedIs, SubBookNumbered DEF Counted, RoutesNumbered
  <2>4. \A d \in Drones : t.planned[d].id < t.nextRoute
    BY <1>1, NoRoutesNumbered DEF Counted, RoutesNumbered
  <2> QED
    BY <2>2, <2>3, <2>4
<1>7. Assigned(t) \subseteq Assigned(s)
  BY <1>1, DetachedIs DEF Assigned
<1>8. \A d \in Drones : t.aux[d] = s.aux[d] \/ t.aux[d] = NoAux
  BY <1>1 DEF WithoutAux
<1> QED
  BY <1>1, <1>2, <1>3, <1>4, <1>5, <1>6, <1>7, <1>8, CountedKept

LEMMA SentHomeCounted ==
  ASSUME NEW s, NEW t \in Memory, Good(s), NEW ds \in SUBSET Drones, NEW purpose,
         SentHome(s, t, ds, purpose), Counted(s), s.phase = "IDLE"
  PROVE  Counted(t)
<1>1. /\ t.activeMission = s.activeMission /\ t.activeCommand = s.activeCommand
      /\ t.nextMission = s.nextMission + 1 /\ s.nextRoute <= t.nextRoute
      /\ t.current = Detached(s.current, ds) /\ t.provisional = Detached(s.provisional, ds)
      /\ t.phase = "IDLE" /\ t.planned = NoRoutes
      /\ t.nextCommand = s.nextCommand + 1
  BY DEF SentHome, Posts
<1>2. s \in Memory
  BY DEF Good
<1>3. RevisionKnown(t) /\ PlanFlyable(t)
  BY <1>1, NoPlan DEF RevisionKnown
<1>4. StopsCovered(t)
  BY <1>1, DetachedCovered DEF SentHome, Counted
<1>5. s.nextMission < t.nextMission /\ s.nextCommand < t.nextCommand
      /\ s.nextMission <= t.nextMission /\ s.nextCommand <= t.nextCommand
  BY <1>1, <1>2, BooksField
<1>6. /\ \A d \in Drones : t.current[d].id < t.nextRoute
      /\ \A d \in Drones : t.provisional[d].id < t.nextRoute
      /\ \A d \in Drones : t.planned[d].id < t.nextRoute
  <2>1. s.current \in Books /\ s.provisional \in Books
    BY <1>2, BooksField
  <2>2. \A d \in Drones : t.current[d].id < t.nextRoute
    BY <1>1, <1>2, <1>5, <2>1, DetachedIs, SubBookNumbered DEF Counted, RoutesNumbered
  <2>3. \A d \in Drones : t.provisional[d].id < t.nextRoute
    BY <1>1, <1>2, <1>5, <2>1, DetachedIs, SubBookNumbered DEF Counted, RoutesNumbered
  <2> QED
    BY <1>1, <2>2, <2>3, NoRoutesNumbered
<1>7. Assigned(t) \subseteq Assigned(s)
  BY <1>1, DetachedIs DEF Assigned
<1>8. \A d \in Drones :
         \/ t.aux[d] = s.aux[d]
         \/ /\ t.aux[d].mission = s.nextMission /\ s.nextMission < t.nextMission
            /\ t.aux[d].command < t.nextCommand /\ t.aux[d].id < t.nextRoute
  BY <1>5 DEF SentHome
<1> QED
  BY <1>1, <1>2, <1>3, <1>4, <1>5, <1>6, <1>7, <1>8, CountedKept

LEMMA BlockCounted ==
  ASSUME NEW s, NEW t, Block(s, t), Counted(s)
  PROVE  Counted(t)
<1>1. Good(s) /\ s \in Memory /\ t \in Memory
  BY DEF Block, Good
<1>2. CASE \E new : Unmoved(s, t, new)
  BY <1>1, <1>2, UnmovedCounted
<1>3. CASE s.phase = "IDLE" /\ Calculated(s, t)
  BY <1>1, <1>3, CalculatedCounted
<1>4. CASE CanDispatch(s) /\ Dispatched(s, t)
  BY <1>1, <1>4, DispatchedCounted
<1>5. CASE Aborted(s, t)
  BY <1>1, <1>5, EmptiedCounted, CalledOffNext DEF Aborted
<1>6. CASE s.phase = "WAITING" /\ Failed(s, t)
  BY <1>1, <1>6, FailedCounted
<1>7. CASE s.phase = "IDLE" /\ \E ds \in SUBSET Drones : \E new : Freed(s, t, ds, new)
  BY <1>1, <1>7, FreedCounted
<1>8. CASE s.phase = "IDLE" /\ \E ds \in SUBSET Drones, purpose \in HomeKinds :
             SentHome(s, t, ds, purpose)
  BY <1>1, <1>8, SentHomeCounted
<1> QED
  BY <1>2, <1>3, <1>4, <1>5, <1>6, <1>7, <1>8 DEF Block

LEMMA ChainCounted ==
  ASSUME NEW s, NEW t, Chain(s, t), Counted(s)
  PROVE  Counted(t)
BY BlockCounted DEF Chain

-----------------------------------------------------------------------------
(* A report leaves the ids and the stops of the book it is noted in.       *)
LEMMA NotedBook ==
  ASSUME NEW book \in Books, NEW fb \in Feedbacks, NEW after,
         after = [book EXCEPT ![fb.drone] = Fed(book[fb.drone], fb)]
  PROVE  /\ after \in Books /\ Owners(after) = Owners(book)
         /\ \A d \in Drones : after[d].id = book[d].id /\ Stops(after[d]) = Stops(book[d])
<1> DEFINE f == Fed(book[fb.drone], fb)
<1>1. fb.drone \in Drones /\ book[fb.drone] \in Route
  BY DEF Books, Feedbacks
<1>2. f \in Route /\ f.id = book[fb.drone].id /\ Stops(f) = Stops(book[fb.drone])
  BY <1>1, FedGood
<1> HIDE DEF f
<1>3. after \in Books
  BY <1>2, Zenon DEF f, Books
<1>4. \A d \in Drones : after[d].id = book[d].id /\ Stops(after[d]) = Stops(book[d])
  BY <1>2 DEF f, Books
<1> QED
  BY <1>3, <1>4 DEF Owners

LEMMA NotedProvisionalCounted ==
  ASSUME NEW s \in Memory, NEW t \in Memory, NEW fb \in Feedbacks,
         NotedProvisional(s, fb, t), Counted(s)
  PROVE  Counted(t)
<1>1. /\ t.current = s.current /\ t.aux = s.aux /\ t.planned = s.planned
      /\ t.phase = s.phase /\ t.recalculation = s.recalculation
      /\ t.activeMission = s.activeMission /\ t.activeCommand = s.activeCommand
      /\ t.nextMission = s.nextMission /\ t.nextRoute = s.nextRoute
      /\ t.nextCommand = s.nextCommand
  BY DEF NotedProvisional, Noted, Silent, SameVersions, SaysNothing
<1>2. /\ Owners(t.provisional) = Owners(s.provisional)
      /\ \A d \in Drones : t.provisional[d].id = s.provisional[d].id
  BY NotedBook, BooksField DEF NotedProvisional, Noted
<1>3. s.active \cup s.reported \subseteq t.active \cup t.reported
  BY DEF NotedProvisional, Noted
<1>4. StopsCovered(t)
  BY <1>1, <1>3 DEF Counted, StopsCovered
<1>5. RevisionKnown(t) /\ PlanFlyable(t)
  BY <1>1 DEF Counted, RevisionKnown, PlanFlyable
<1>6. \A d \in Drones : /\ t.current[d].id < t.nextRoute
                        /\ t.provisional[d].id < t.nextRoute
                        /\ t.planned[d].id < t.nextRoute
  BY <1>1, <1>2 DEF Counted, RoutesNumbered
<1>7. Assigned(t) = Assigned(s)
  BY <1>1, <1>2 DEF Assigned
<1>8. /\ s.nextMission <= t.nextMission /\ s.nextCommand <= t.nextCommand
      /\ s.nextRoute <= t.nextRoute
  BY <1>1, BooksField
<1> QED
  BY <1>1, <1>4, <1>5, <1>6, <1>7, <1>8, CountedKept

LEMMA NotedCurrentCounted ==
  ASSUME NEW s \in Memory, NEW t \in Memory, NEW fb \in Feedbacks,
         NotedCurrent(s, fb, t), Counted(s)
  PROVE  Counted(t)
<1>1. /\ t.provisional = s.provisional /\ t.aux = s.aux /\ t.planned = s.planned
      /\ t.phase = s.phase /\ t.recalculation = s.recalculation
      /\ t.activeMission = s.activeMission /\ t.activeCommand = s.activeCommand
      /\ t.nextMission = s.nextMission /\ t.nextRoute = s.nextRoute
      /\ t.nextCommand = s.nextCommand
  BY DEF NotedCurrent, Noted, Silent, SameVersions, SaysNothing
<1>2. /\ Owners(t.current) = Owners(s.current)
      /\ \A d \in Drones : t.current[d].id = s.current[d].id
                           /\ Stops(t.current[d]) = Stops(s.current[d])
  BY NotedBook, BooksField DEF NotedCurrent, Noted
<1>3. s.active \cup s.reported \subseteq t.active \cup t.reported
  BY DEF NotedCurrent, Noted
<1>4. StopsCovered(t)
  BY <1>2, <1>3 DEF Counted, StopsCovered
<1>5. RevisionKnown(t) /\ PlanFlyable(t)
  BY <1>1, <1>2 DEF Counted, RevisionKnown, PlanFlyable
<1>6. \A d \in Drones : /\ t.current[d].id < t.nextRoute
                        /\ t.provisional[d].id < t.nextRoute
                        /\ t.planned[d].id < t.nextRoute
  BY <1>1, <1>2 DEF Counted, RoutesNumbered
<1>7. Assigned(t) = Assigned(s)
  BY <1>1, <1>2 DEF Assigned
<1>8. /\ s.nextMission <= t.nextMission /\ s.nextCommand <= t.nextCommand
      /\ s.nextRoute <= t.nextRoute
  BY <1>1, BooksField
<1> QED
  BY <1>1, <1>4, <1>5, <1>6, <1>7, <1>8, CountedKept

LEMMA HomedCounted ==
  ASSUME NEW s \in Memory, NEW t \in Memory, NEW fb, Homed(s, fb, t), Counted(s)
  PROVE  Counted(t)
<1>1. /\ t.current = s.current /\ t.provisional = s.provisional /\ t.planned = s.planned
      /\ t.phase = s.phase /\ t.recalculation = s.recalculation
      /\ t.active = s.active /\ t.reported = s.reported
      /\ t.activeMission = s.activeMission /\ t.activeCommand = s.activeCommand
      /\ t.nextMission = s.nextMission /\ t.nextRoute = s.nextRoute
      /\ t.nextCommand = s.nextCommand
  BY DEF Homed, Silent, SameVersions, SaysNothing
<1>2. \A d \in Drones : t.aux[d] = s.aux[d] \/ t.aux[d] = NoAux
  BY DEF Homed, WithoutAux
<1>3. StopsCovered(t) /\ RevisionKnown(t) /\ PlanFlyable(t)
  BY <1>1 DEF Counted, StopsCovered, RevisionKnown, PlanFlyable
<1>4. \A d \in Drones : /\ t.current[d].id < t.nextRoute
                        /\ t.provisional[d].id < t.nextRoute
                        /\ t.planned[d].id < t.nextRoute
  BY <1>1 DEF Counted, RoutesNumbered
<1>5. Assigned(t) = Assigned(s)
  BY <1>1 DEF Assigned
<1>6. /\ s.nextMission <= t.nextMission /\ s.nextCommand <= t.nextCommand
      /\ s.nextRoute <= t.nextRoute
  BY <1>1, BooksField
<1> QED
  BY <1>1, <1>2, <1>3, <1>4, <1>5, <1>6, CountedKept

LEMMA CommittedCounted ==
  ASSUME NEW s \in Memory, NEW t \in Memory, Committed(s, t), Counted(s),
         Honest(s, s.provisional)
  PROVE  Counted(t)
<1>1. /\ t.activeMission = s.activeMission /\ t.activeCommand = s.activeCommand
      /\ t.nextMission = s.nextMission /\ t.nextRoute = s.nextRoute
      /\ t.nextCommand = s.nextCommand
      /\ t.provisional = NoRoutes /\ t.aux = s.aux /\ t.phase = "IDLE"
      /\ t.planned = s.planned \/ t.planned = NoRoutes
      /\ t.current = IF AllFinished(s.provisional) THEN NoRoutes ELSE s.provisional
  BY DEF Committed, SameVersions, SaysNothing
<1>2. RevisionKnown(t) /\ PlanFlyable(t)
  BY <1>1, NoPlan DEF RevisionKnown, Counted, PlanFlyable
<1>3. StopsCovered(t)
  <2>1. CASE AllFinished(s.provisional)
    BY <1>1, <2>1, NoRoutesNumbered, NoRouteStops DEF StopsCovered
  <2>2. CASE ~AllFinished(s.provisional)
    <3> SUFFICES ASSUME NEW d \in Drones
                 PROVE  Stops(t.current[d]) \subseteq t.active \cup t.reported
      BY DEF StopsCovered
    <3>1. t.current[d] = s.provisional[d] /\ s.provisional[d] \in Route
      BY <1>1, <2>2, BooksField DEF Books
    <3>2. CompletedStops(s.provisional[d]) \subseteq t.reported
      BY DEF Committed, Honest
    <3>3. UnfinishedStops(s.provisional[d]) \subseteq t.active
      BY <2>2 DEF Committed
    <3> QED
      BY <3>1, <3>2, <3>3, StopsType
  <2> QED
    BY <2>1, <2>2
<1>4. \A d \in Drones : /\ t.current[d].id < t.nextRoute
                        /\ t.provisional[d].id < t.nextRoute
                        /\ t.planned[d].id < t.nextRoute
  BY <1>1, NoRoutesNumbered DEF Counted, RoutesNumbered
<1>5. s.nextMission <= t.nextMission /\ s.nextRoute <= t.nextRoute
      /\ s.nextCommand <= t.nextCommand
  BY <1>1, BooksField
<1>6. Assigned(t) \subseteq Assigned(s)
  BY <1>1, NoOwners DEF Assigned
<1> QED
  BY <1>1, <1>2, <1>3, <1>4, <1>5, <1>6, CountedKept

LEMMA FinishedCounted ==
  ASSUME NEW s \in Memory, NEW t \in Memory, Finished(s, t), Counted(s)
  PROVE  Counted(t)
<1>1. /\ t.activeMission = s.activeMission /\ t.activeCommand = s.activeCommand
      /\ t.nextMission = s.nextMission /\ t.nextRoute = s.nextRoute
      /\ t.nextCommand = s.nextCommand /\ t.recalculation = s.recalculation
      /\ t.current = NoRoutes /\ t.provisional = s.provisional /\ t.planned = NoRoutes
      /\ t.aux = s.aux /\ t.phase = s.phase
  BY DEF Finished, Silent, SameVersions, SaysNothing
<1>2. RevisionKnown(t) /\ PlanFlyable(t)
  BY <1>1, NoPlan, NoOwners DEF RevisionKnown
<1>3. StopsCovered(t)
  BY <1>1, NoRoutesNumbered, NoRouteStops DEF StopsCovered
<1>4. \A d \in Drones : /\ t.current[d].id < t.nextRoute
                        /\ t.provisional[d].id < t.nextRoute
                        /\ t.planned[d].id < t.nextRoute
  BY <1>1, NoRoutesNumbered DEF Counted, RoutesNumbered
<1>5. s.nextMission <= t.nextMission /\ s.nextRoute <= t.nextRoute
      /\ s.nextCommand <= t.nextCommand
  BY <1>1, BooksField
<1>6. Assigned(t) \subseteq Assigned(s)
  BY <1>1, NoOwners DEF Assigned
<1> QED
  BY <1>1, <1>2, <1>3, <1>4, <1>5, <1>6, CountedKept

LEMMA FeedbackCounted ==
  ASSUME NEW s, Good(s), Counted(s), NEW fb \in Feedbacks,
         FeedbackResult(s, fb) \in Memory
  PROVE  Counted(FeedbackResult(s, fb))
<1> DEFINE t == FeedbackResult(s, fb)
<1>1. s \in Memory /\ t \in Memory
  BY DEF Good
<1>2. \/ ReportsHome(s, fb, t) \/ ReportsDispatch(s, fb, t)
      \/ ReportsMission(s, fb, t) \/ t = s
  BY <1>1, FeedbackEffect
<1> HIDE DEF t
<1>3. CASE ReportsHome(s, fb, t)
  BY <1>1, <1>3, HomedCounted DEF ReportsHome, t
<1>4. CASE ReportsDispatch(s, fb, t)
  <2>1. PICK f \in Memory :
          /\ NotedProvisional(s, fb, f)
          /\ IF fb.state \in Failures THEN Failed(f, t)
             ELSE IF AllAccepted(f) THEN Committed(f, t) ELSE t = f
    BY <1>4 DEF ReportsDispatch, ProvisionalNews
  <2>2. Counted(f)
    BY <1>1, <2>1, NotedProvisionalCounted
  <2>3. f.phase = "WAITING"
    BY <1>4, <2>1 DEF ReportsDispatch, NotedProvisional, Noted
  <2>4. Honest(f, f.provisional)
    <3>1. fb.drone \in Drones /\ s.provisional[fb.drone].id # 0
      BY <1>4 DEF ReportsDispatch, Feedbacks
    <3>2. Sound(s, s.provisional) /\ s.provisional \in Books
      BY <1>1, BooksField DEF Good, Consistent
    <3>3. Sound(f, [s.provisional EXCEPT ![fb.drone] = Fed(s.provisional[fb.drone], fb)])
      BY <2>1, <3>1, <3>2, FedBook DEF NotedProvisional, Noted
    <3> QED
      BY <2>1, <3>3 DEF NotedProvisional, Noted, Sound
  <2> QED
    BY <1>1, <2>1, <2>2, <2>3, <2>4, FailedCounted, CommittedCounted DEF t
<1>5. CASE ReportsMission(s, fb, t)
  <2>1. PICK f \in Memory :
          /\ NotedCurrent(s, fb, f)
          /\ IF fb.state \in Failures THEN Aborted(f, t)
             ELSE IF AllFinished(f.current) THEN Finished(f, t) ELSE t = f
    BY <1>5 DEF ReportsMission, MissionNews
  <2>2. Counted(f)
    BY <1>1, <2>1, NotedCurrentCounted
  <2>3. Aborted(f, t) => Counted(t)
    BY <1>1, <2>2, EmptiedCounted, CalledOffNext DEF Aborted
  <2> QED
    BY <1>1, <2>1, <2>2, <2>3, FinishedCounted DEF t
<1> QED
  BY <1>2, <1>3, <1>4, <1>5 DEF t

-----------------------------------------------------------------------------
(* A queue picked from another one keeps its order and all that is kept.   *)

LEMMA NthOrder ==
  ASSUME NEW b \in Nat, NEW K \in SUBSET (1..b),
         NEW m \in 1..Cardinality(K), NEW n \in 1..Cardinality(K), m < n
  PROVE  Nth(K, m) < Nth(K, n)
<1> DEFINE Below(x) == {j \in K : j < x}
<1> DEFINE x == Nth(K, m)
<1> DEFINE y == Nth(K, n)
<1>1. IsFiniteSet(K) /\ Cardinality(K) \in Nat
  <2>1. IsFiniteSet(1..b)
    BY FS_Interval
  <2>2. IsFiniteSet(K)
    BY <2>1, FS_Subset, Zenon
  <2> QED
    BY <2>2, FS_CardinalityType
<1>2. /\ x \in K /\ Cardinality(Below(x)) = m - 1
      /\ y \in K /\ Cardinality(Below(y)) = n - 1
  BY NthType, Zenon
<1> HIDE DEF x, y
<1>3. SUFFICES ASSUME ~(x < y) PROVE FALSE
  BY DEF x, y
<1>4. x \in Nat /\ y \in Nat /\ \A j \in K : j \in Nat
  BY <1>2
<1>5. \A j \in K : j < y => j < x
  BY <1>3, <1>4
<1>6. Below(y) \subseteq Below(x) /\ IsFiniteSet(Below(x))
  BY <1>1, <1>5, FS_Subset, Zenon
<1> HIDE DEF Below
<1>7. Cardinality(Below(y)) <= Cardinality(Below(x))
  BY <1>6, FS_Subset
<1>8. m \in Nat /\ n \in Nat
  BY <1>1
<1> QED
  BY <1>2, <1>7, <1>8

LEMMA NthOnto ==
  ASSUME NEW b \in Nat, NEW K \in SUBSET (1..b), NEW e \in K
  PROVE  \E n \in 1..Cardinality(K) : Nth(K, n) = e
<1> DEFINE Below(x) == {j \in K : j < x}
<1> DEFINE c == Cardinality(Below(e))
<1> DEFINE n == c + 1
<1> DEFINE y == Nth(K, n)
<1>1. IsFiniteSet(K) /\ Cardinality(K) \in Nat
  <2>1. IsFiniteSet(1..b)
    BY FS_Interval
  <2>2. IsFiniteSet(K)
    BY <2>1, FS_Subset, Zenon
  <2> QED
    BY <2>2, FS_CardinalityType
<1>2. \A x : IsFiniteSet(Below(x)) /\ Cardinality(Below(x)) \in Nat
  BY <1>1, FS_Subset, FS_CardinalityType
<1>3. \A j \in K : j \in Nat
  OBVIOUS
<1>4. ASSUME NEW x \in K, NEW z \in K, x < z
      PROVE  Cardinality(Below(x)) < Cardinality(Below(z))
  <2>1. \A j \in K : j < x => j < z
    BY <1>3, <1>4
  <2>2. x \notin Below(x)
    BY <1>3
  <2>3. Below(x) \cup {x} \subseteq Below(z)
    BY <1>4, <2>1, Zenon
  <2> DEFINE A == Below(x)
  <2> DEFINE B == Below(z)
  <2>4. IsFiniteSet(A) /\ IsFiniteSet(B) /\ Cardinality(A) \in Nat /\ Cardinality(B) \in Nat
    BY <1>2
  <2> HIDE DEF Below
  <2>5. Cardinality(A \cup {x}) = Cardinality(A) + 1 /\ IsFiniteSet(A \cup {x})
    BY <2>2, <2>4, FS_AddElement
  <2>6. Cardinality(A \cup {x}) <= Cardinality(B)
    BY <2>3, <2>4, FS_Subset
  <2> HIDE DEF A, B
  <2>7. Cardinality(A) < Cardinality(B)
    BY <2>4, <2>5, <2>6
  <2> QED
    BY <2>7 DEF A, B
<1>5. n \in 1..Cardinality(K)
  <2>1. e \notin Below(e)
    BY <1>3
  <2>2. Below(e) \cup {e} \subseteq K
    OBVIOUS
  <2> DEFINE A == Below(e)
  <2>3. IsFiniteSet(A) /\ Cardinality(A) \in Nat /\ c = Cardinality(A)
    BY <1>2
  <2> HIDE DEF Below, A, c
  <2>4. Cardinality(A \cup {e}) = Cardinality(A) + 1
    BY <2>1, <2>3, FS_AddElement, Zenon DEF A
  <2>5. Cardinality(A \cup {e}) <= Cardinality(K)
    BY <1>1, <2>2, FS_Subset DEF A
  <2> QED
    BY <1>1, <2>3, <2>4, <2>5
<1> HIDE DEF n
<1>6. y \in K /\ Cardinality(Below(y)) = n - 1
  BY <1>5, NthType, Zenon
<1> HIDE DEF Below, y
<1>10. c \in Nat
  BY <1>2
<1>11. c = Cardinality(Below(e))
  OBVIOUS
<1> HIDE DEF c
<1>7. Cardinality(Below(y)) = c
  BY <1>6, <1>10 DEF n
<1>8. ~(y < e) /\ ~(e < y)
  <2>1. ASSUME y < e PROVE FALSE
    <3>1. Cardinality(Below(y)) < Cardinality(Below(e))
      BY <1>4, <1>6, <2>1
    <3> QED
      BY <1>7, <1>10, <1>11, <3>1
  <2>2. ASSUME e < y PROVE FALSE
    <3>1. Cardinality(Below(e)) < Cardinality(Below(y))
      BY <1>4, <1>6, <2>2
    <3> QED
      BY <1>7, <1>10, <1>11, <3>1
  <2> QED
    BY <2>1, <2>2
<1>9. y = e
  BY <1>3, <1>6, <1>8
<1> QED
  BY <1>5, <1>9 DEF y

LEMMA PickedProperties ==
  ASSUME NEW T, NEW queue \in Seq(T), NEW kept \in SUBSET DOMAIN queue
  PROVE  LET p == Picked(queue, kept)
         IN  /\ p \in Seq(T) /\ DOMAIN p = 1..Cardinality(kept) /\ DOMAIN p \subseteq Nat
             /\ \A n \in DOMAIN p : Nth(kept, n) \in kept /\ p[n] = queue[Nth(kept, n)]
             /\ \A m, n \in DOMAIN p : m < n => Nth(kept, m) < Nth(kept, n)
             /\ \A i \in kept : \E n \in DOMAIN p : p[n] = queue[i]
<1> DEFINE k == Cardinality(kept)
<1> DEFINE p == Picked(queue, kept)
<1>1. Len(queue) \in Nat /\ DOMAIN queue = 1..Len(queue)
  BY LenProperties
<1>2. kept \in SUBSET (1..Len(queue))
  BY <1>1
<1>3. k \in Nat
  <2>1. IsFiniteSet(1..Len(queue))
    BY <1>1, FS_Interval
  <2>2. IsFiniteSet(kept)
    BY <1>2, <2>1, FS_Subset
  <2> QED
    BY <2>2, FS_CardinalityType
<1>4. p = [n \in 1..k |-> queue[Nth(kept, n)]]
  BY DEF Picked
<1> HIDE DEF p
<1>5. DOMAIN p = 1..k /\ \A n \in 1..k : p[n] = queue[Nth(kept, n)]
  BY <1>4
<1>6. \A n \in 1..k : Nth(kept, n) \in kept
  BY <1>1, <1>2, NthType, Zenon
<1>7. \A n \in 1..k : queue[Nth(kept, n)] \in T
  BY <1>1, <1>2, <1>6, ElementOfSeq
<1>8. \A m, n \in 1..k : m < n => Nth(kept, m) < Nth(kept, n)
  BY <1>1, <1>2, NthOrder, Zenon
<1>9. \A i \in kept : \E n \in 1..k : Nth(kept, n) = i
  BY <1>1, <1>2, NthOnto, Zenon
<1> HIDE DEF k
<1>10. p \in [1..k -> T]
  BY <1>4, <1>7
<1>11. p \in Seq(T)
  BY <1>3, <1>10, SeqDef
<1>12. \A i \in kept : \E n \in 1..k : p[n] = queue[i]
  BY <1>5, <1>9
<1>13. 1..k \subseteq Nat
  BY <1>3
<1> QED
  BY <1>5, <1>6, <1>8, <1>11, <1>12, <1>13, Zenon DEF p, k

-----------------------------------------------------------------------------
(* Every step of the node is a chain of blocks, a drone switched on, or a  *)
(* report.                                                                 *)

SwitchedOn(s, t) ==
  Unmoved(s, t, {}) /\ SaysNothing(s, t) /\ Good(t) /\ t.events = s.events

Reported(s, fb, t) ==
  t = FeedbackResult(s, fb) /\ Timely(s, fb)

EventsChange(s, t) ==
  \/ t.events = s.events
  \/ s.events # <<>> /\ t.events = Tail(s.events)
  \/ \E event \in Events : event.battery # "NORMAL" /\ t.events = Queued(s, event)

LEMMA BeginCounted ==
  ASSUME co \in Memory, Counted(co)
  PROVE  Counted(Begin)
<1>1. /\ Begin.current = co.current /\ Begin.provisional = co.provisional
      /\ Begin.planned = co.planned /\ Begin.aux = co.aux /\ Begin.phase = co.phase
      /\ Begin.recalculation = co.recalculation /\ Begin.active = co.active
      /\ Begin.reported = co.reported /\ Begin.nextCommand = co.nextCommand
      /\ Begin.activeCommand = co.activeCommand /\ Begin.activeMission = co.activeMission
      /\ Begin.nextMission = co.nextMission /\ Begin.nextRoute = co.nextRoute
  BY BeginSame DEF SameBooks, SameVersions
<1> QED
  BY <1>1 DEF Counted, VersionsKnown, HomesNumbered, RevisionKnown, StopsCovered,
              RoutesNumbered, PlanFlyable, Assigned

LEMMA CallbackChain ==
  ASSUME Good(co), Counted(Begin), Operator \/ Timer \/ Reports
  PROVE  (Chain(Begin, co') \/ SwitchedOn(Begin, co')) /\ EventsChange(co, co')
<1>1. CASE Operator
  <2> SUFFICES ASSUME NEW d \in Drones, NEW selection \in Selections, EnableDrone(d)
               PROVE  SwitchedOn(Begin, co') /\ co'.events = co.events
    <3>1. CASE \E d \in Drones : EnableDrone(d)
      BY <3>1 DEF EventsChange, Selections
    <3>2. CASE \/ AddTarget
               \/ \E t \in co.pending : RemoveTarget(t)
               \/ ClearPendingTargets
               \/ \E recalculate \in BOOLEAN : Calculate(recalculate)
               \/ StartMission
               \/ CancelActiveMission
      BY <3>2, AddTargetChain, RemoveTargetChain, ClearPendingTargetsChain, CalculateChain,
         StartMissionChain, CancelActiveMissionChain DEF EventsChange
    <3>3. CASE \/ \E s \in Selections : ReturnHome(s)
               \/ \E s \in Selections : Land(s)
               \/ \E kind \in {"ARM", "TAKEOFF"}, s \in Selections : FlightControl(kind, s)
               \/ \E s \in Selections : ForceDisarm(s)
      BY <3>3, ReturnHomeChain, LandChain, FlightControlChain, ForceDisarmChain
         DEF EventsChange
    <3>4. CASE \/ \E d \in Drones : SetDroneSpeed(d)
               \/ \E d \in Drones : SetDroneLidarRange(d)
               \/ \E d \in Drones : DisableDrone(d)
      BY <3>4, SetDroneSpeedChain, SetDroneLidarRangeChain, DisableDroneChain
         DEF EventsChange
    <3> QED
      BY <1>1, <3>1, <3>2, <3>3, <3>4 DEF Operator
  <2>1. Begin.events = co.events
    BY BeginSame DEF Good
  <2> QED
    BY <2>1, EnableDroneEffect DEF SwitchedOn
<1>2. CASE Timer
  BY <1>2, DispatchTimeoutChain, HandleSafetyEventChain DEF Timer, EventsChange
<1>3. CASE \E d \in Drones, v \in Vehicles, localized \in BOOLEAN :
             OnVehicleState(d, v, localized)
  BY <1>3, OnVehicleStateChain DEF EventsChange
<1>4. ASSUME NEW d \in Drones, NEW b \in BatteryStates, OnDroneHeartbeat(d, b)
      PROVE  Chain(Begin, co') /\ EventsChange(co, co')
  <2> DEFINE event == [drone |-> d, battery |-> b]
  <2>1. event \in Events /\ event.battery = b
    BY DEF Events
  <2>2. /\ Chain(Begin, co')
        /\ co'.events = co.events \/ (b # "NORMAL" /\ co'.events = Queued(co, event))
    BY <1>4, OnDroneHeartbeatChain
  <2> HIDE DEF event
  <2> QED
    BY <2>1, <2>2 DEF EventsChange
<1>5. CASE \E d \in Drones, l \in Links : LinkLoss(d, l)
  BY <1>5, LinkLossChain DEF EventsChange
<1> QED
  BY <1>1, <1>2, <1>3, <1>4, <1>5 DEF Reports

LEMMA FeedbackCase ==
  ASSUME co \in Memory, NEW fb \in AnyFeedback, OnMissionFeedback(fb)
  PROVE  fb \in Feedbacks /\ Reported(Begin, fb, co')
<1>1. Begin \in Memory
  BY BeginFields
<1>2. co' = FeedbackResult(Begin, fb)
  BY DEF OnMissionFeedback, Become
<1>3. PICK d \in Drones :
        \/ co.aux[d].id # 0 /\ fb \in AuxFeedbacks(d)
        \/ \E route \in {co.provisional[d], co.current[d]} : fb \in RouteFeedbacks(d, route)
  BY DEF AnyFeedback
<1>4. CASE co.aux[d].id # 0 /\ fb \in AuxFeedbacks(d)
  <2>1. PICK state \in FeedbackStates :
          fb = Feedback(co.aux[d].command, co.aux[d].mission, 1, d, co.aux[d].id, state, 0)
    BY <1>4 DEF AuxFeedbacks
  <2>2. co.aux[d] \in Aux
    BY BooksField
  <2>3. fb \in Feedbacks
    BY <2>1, <2>2 DEF Feedback, Feedbacks, Aux
  <2>4. MatchesAux(Begin, fb)
    BY <1>4, <2>1, BeginFields DEF MatchesAux, Feedback
  <2> QED
    BY <1>2, <2>3, <2>4 DEF Reported, Timely
<1>5. ASSUME NEW route \in {co.provisional[d], co.current[d]},
             fb \in RouteFeedbacks(d, route)
      PROVE  fb \in Feedbacks /\ Reported(Begin, fb, co')
  <2>1. route \in Route
    BY BooksField DEF Books
  <2>2. route.id \in Nat
    BY <2>1 DEF Route
  <2>3. PICK state \in FeedbackStates, n \in 0..Len(route.targets) :
          fb = Feedback(co.activeCommand, co.activeMission, co.activeRevision, d,
                        route.id, state, n)
    BY <1>5 DEF RouteFeedbacks
  <2>4. /\ co.activeCommand \in Nat /\ co.activeMission \in Nat
        /\ co.activeRevision \in Nat /\ n \in Nat
    BY BooksField
  <2>5. fb \in Feedbacks
    BY <2>2, <2>3, <2>4 DEF Feedback, Feedbacks
  <2>6. CurrentBroadcast(Begin, fb)
    BY <2>3, BeginFields DEF CurrentBroadcast, Feedback
  <2>7. Timely(Begin, fb)
    BY <2>6 DEF Timely, CurrentBroadcast
  <2> QED
    BY <1>2, <2>5, <2>7 DEF Reported
<1> QED
  BY <1>3, <1>4, <1>5

LEMMA ReportedGood ==
  ASSUME NEW s, Good(s), Counted(s), NEW fb \in Feedbacks, NEW t, Reported(s, fb, t)
  PROVE  Good(t) /\ Counted(t)
<1>1. Good(t)
  BY FeedbackGood DEF Good, Reported
<1> QED
  BY <1>1, FeedbackCounted DEF Reported, Good

(* A report never assigns a drone, and leaves the node's safety events.    *)
LEMMA ReportedKeeps ==
  ASSUME NEW s \in Memory, NEW fb \in Feedbacks
  PROVE  LET t == FeedbackResult(s, fb)
         IN  /\ t.events = s.events /\ t.excluded = s.excluded
             /\ Assigned(t) \subseteq Assigned(s)
<1> DEFINE t == FeedbackResult(s, fb)
<1>1. \/ ReportsHome(s, fb, t) \/ ReportsDispatch(s, fb, t)
      \/ ReportsMission(s, fb, t) \/ t = s
  BY FeedbackEffect
<1> HIDE DEF t
<1>2. CASE ReportsHome(s, fb, t)
  BY <1>2 DEF ReportsHome, Homed, Silent, SameSafety, Assigned, t
<1>3. CASE ReportsDispatch(s, fb, t)
  <2>1. PICK f \in Memory :
          /\ NotedProvisional(s, fb, f)
          /\ IF fb.state \in Failures THEN Failed(f, t)
             ELSE IF AllAccepted(f) THEN Committed(f, t) ELSE t = f
    BY <1>3 DEF ReportsDispatch, ProvisionalNews
  <2>2. /\ f.current = s.current /\ Owners(f.provisional) = Owners(s.provisional)
        /\ f.events = s.events /\ f.excluded = s.excluded
    <3>1. s.provisional \in Books
      BY BooksField
    <3>2. f.provisional = [s.provisional EXCEPT ![fb.drone] = Fed(s.provisional[fb.drone], fb)]
          /\ f.current = s.current /\ Silent(s, f)
      BY <2>1 DEF NotedProvisional, Noted
    <3>3. Owners(f.provisional) = Owners(s.provisional)
      BY <3>1, <3>2, NotedBook
    <3> QED
      BY <3>2, <3>3 DEF Silent, SameSafety
  <2>3. CASE Failed(f, t)
    BY <2>2, <2>3, NoOwners DEF Failed, SameSafety, Assigned, t
  <2>4. CASE Committed(f, t)
    BY <2>2, <2>4, NoOwners DEF Committed, SameSafety, Assigned, t
  <2> QED
    BY <2>1, <2>2, <2>3, <2>4 DEF Assigned, t
<1>4. CASE ReportsMission(s, fb, t)
  <2>1. PICK f \in Memory :
          /\ NotedCurrent(s, fb, f)
          /\ IF fb.state \in Failures THEN Aborted(f, t)
             ELSE IF AllFinished(f.current) THEN Finished(f, t) ELSE t = f
    BY <1>4 DEF ReportsMission, MissionNews
  <2>2. /\ f.provisional = s.provisional /\ Owners(f.current) = Owners(s.current)
        /\ f.events = s.events /\ f.excluded = s.excluded
    <3>1. s.current \in Books
      BY BooksField
    <3>2. f.current = [s.current EXCEPT ![fb.drone] = Fed(s.current[fb.drone], fb)]
          /\ f.provisional = s.provisional /\ Silent(s, f)
      BY <2>1 DEF NotedCurrent, Noted
    <3>3. Owners(f.current) = Owners(s.current)
      BY <3>1, <3>2, NotedBook
    <3> QED
      BY <3>2, <3>3 DEF Silent, SameSafety
  <2>3. CASE Aborted(f, t)
    BY <2>2, <2>3, NoOwners DEF Aborted, Emptied, SameSafety, Assigned, t
  <2>4. CASE Finished(f, t)
    BY <2>2, <2>4, NoOwners DEF Finished, Silent, SameSafety, Assigned, t
  <2> QED
    BY <2>1, <2>2, <2>3, <2>4 DEF Assigned, t
<1> QED
  BY <1>1, <1>2, <1>3, <1>4 DEF t

-----------------------------------------------------------------------------
(* Excluded drones.                                                        *)

NoNewWork(s, t) ==
  \A d \in Drones : s.excluded[d] /\ d \in Assigned(t) => d \in Assigned(s)

LEMMA BlockNoNewWork ==
  ASSUME NEW s, NEW t, Block(s, t)
  PROVE  NoNewWork(s, t)
<1>1. CASE \E new : Unmoved(s, t, new)
  BY <1>1 DEF Unmoved, SameBooks, NoNewWork, Assigned
<1>2. CASE Calculated(s, t)
  BY <1>2 DEF Calculated, SameBooks, NoNewWork, Assigned
<1>3. CASE CanDispatch(s) /\ Dispatched(s, t)
  BY <1>3 DEF CanDispatch, Dispatched, NoNewWork, Assigned, DroneReadyForMission,
              DroneHealthy
<1>4. CASE Aborted(s, t)
  BY <1>4, NoOwners DEF Aborted, Emptied, NoNewWork, Assigned
<1>5. CASE Failed(s, t)
  BY <1>5, NoOwners DEF Failed, NoNewWork, Assigned
<1>6. CASE \E ds \in SUBSET Drones : \E new : Freed(s, t, ds, new)
  BY <1>6, DetachedIs DEF Freed, Released, NoNewWork, Assigned
<1>7. CASE \E ds \in SUBSET Drones, purpose \in HomeKinds : SentHome(s, t, ds, purpose)
  BY <1>7, DetachedIs DEF SentHome, NoNewWork, Assigned
<1> QED
  BY <1>1, <1>2, <1>3, <1>4, <1>5, <1>6, <1>7 DEF Block

LEMMA ChainNoNewWork ==
  ASSUME NEW s, NEW t, Chain(s, t)
  PROVE  NoNewWork(s, t)
<1>1. \A x, y, z : NoNewWork(x, y) /\ Guards(x, y) /\ NoNewWork(y, z) => NoNewWork(x, z)
  BY DEF NoNewWork, Guards
<1>2. \A x, y, z : Guards(x, y) /\ Guards(y, z) => Guards(x, z)
  BY DEF Guards
<1>3. \A x, y : Block(x, y) => NoNewWork(x, y) /\ Guards(x, y)
  BY BlockNoNewWork DEF Block
<1>4. PICK m1, m2, m3, m4 \in Memory :
        Block(s, m1) /\ Block(m1, m2) /\ Block(m2, m3) /\ Block(m3, m4) /\ Block(m4, t)
  BY DEF Chain
<1>5. NoNewWork(s, m2) /\ Guards(s, m2)
  BY <1>1, <1>2, <1>3, <1>4
<1>6. NoNewWork(s, m3) /\ Guards(s, m3)
  BY <1>1, <1>2, <1>3, <1>4, <1>5
<1>7. NoNewWork(s, m4) /\ Guards(s, m4)
  BY <1>1, <1>2, <1>3, <1>4, <1>6
<1> QED
  BY <1>1, <1>3, <1>4, <1>7

-----------------------------------------------------------------------------
(* Emergencies.                                                            *)

EmergenciesLead(events) ==
  \A i, j \in DOMAIN events :
    i < j /\ events[j].battery = "EMERGENCY_LAND" => events[i].battery = "EMERGENCY_LAND"

LEMMA PickedLead ==
  ASSUME NEW s \in Memory, NEW d, EmergenciesLead(s.events)
  PROVE  EventsOfOthers(s, d) \in Seq(Events) /\ EmergenciesLead(EventsOfOthers(s, d))
<1> DEFINE kept == {i \in DOMAIN s.events : s.events[i].drone # d}
<1> DEFINE p == EventsOfOthers(s, d)
<1>1. s.events \in Seq(Events) /\ kept \in SUBSET DOMAIN s.events
  BY BooksField
<1>2. p = Picked(s.events, kept)
  BY DEF EventsOfOthers
<1> HIDE DEF p, kept
<1>3. /\ p \in Seq(Events)
      /\ \A n \in DOMAIN p : Nth(kept, n) \in kept /\ p[n] = s.events[Nth(kept, n)]
      /\ \A m, n \in DOMAIN p : m < n => Nth(kept, m) < Nth(kept, n)
  BY <1>1, <1>2, PickedProperties
<1>4. EmergenciesLead(p)
  BY <1>1, <1>3 DEF EmergenciesLead
<1> QED
  BY <1>3, <1>4 DEF p

LEMMA QueuedLead ==
  ASSUME NEW s \in Memory, NEW event \in Events, EmergenciesLead(s.events)
  PROVE  EmergenciesLead(Queued(s, event))
<1> DEFINE q == Queued(s, event)
<1>1. s.events \in Seq(Events)
  BY BooksField
<1>2. CASE event.battery = "EMERGENCY_LAND"
  <2> DEFINE p == EventsOfOthers(s, event.drone)
  <2>1. p \in Seq(Events) /\ EmergenciesLead(p)
    BY PickedLead
  <2>2. q = <<event>> \o p
    BY <1>2 DEF Queued
  <2> HIDE DEF p, q
  <2>3. <<event>> \in Seq(Events) /\ Len(<<event>>) = 1 /\ <<event>>[1] = event
    OBVIOUS
  <2>4. Len(p) \in Nat /\ DOMAIN p = 1..Len(p)
    BY <2>1, LenProperties
  <2>5. /\ Len(q) = 1 + Len(p) /\ q \in Seq(Events)
        /\ \A i \in 1..(1 + Len(p)) : q[i] = IF i <= 1 THEN <<event>>[i] ELSE p[i - 1]
    BY <2>1, <2>2, <2>3, ConcatProperties
  <2>6. DOMAIN q = 1..(1 + Len(p))
    BY <2>5, LenProperties
  <2>7. q[1] = event
    BY <2>3, <2>4, <2>5
  <2>8. \A i \in DOMAIN q : i # 1 => i - 1 \in DOMAIN p /\ q[i] = p[i - 1]
    BY <2>4, <2>5, <2>6
  <2> SUFFICES ASSUME NEW i \in DOMAIN q, NEW j \in DOMAIN q, i < j,
                      q[j].battery = "EMERGENCY_LAND"
               PROVE  q[i].battery = "EMERGENCY_LAND"
    BY DEF EmergenciesLead, q
  <2>9. CASE i = 1
    BY <1>2, <2>7, <2>9
  <2>10. CASE i # 1
    <3>1. i \in Nat /\ j \in Nat /\ j # 1 /\ i - 1 < j - 1
      BY <2>4, <2>6, <2>10
    <3>2. /\ i - 1 \in DOMAIN p /\ q[i] = p[i - 1]
          /\ j - 1 \in DOMAIN p /\ q[j] = p[j - 1]
      BY <2>8, <2>10, <3>1
    <3> QED
      BY <2>1, <3>1, <3>2 DEF EmergenciesLead
  <2> QED
    BY <2>9, <2>10
<1>3. CASE event.battery # "EMERGENCY_LAND"
  <2>1. q = Append(s.events, event)
    BY <1>3 DEF Queued
  <2> HIDE DEF q
  <2>2. Len(s.events) \in Nat /\ DOMAIN s.events = 1..Len(s.events)
    BY <1>1, LenProperties
  <2>3. /\ q \in Seq(Events) /\ Len(q) = Len(s.events) + 1
        /\ \A i \in 1..Len(s.events) : q[i] = s.events[i]
        /\ q[Len(s.events) + 1] = event
    BY <1>1, <2>1, AppendProperties
  <2>4. DOMAIN q = 1..(Len(s.events) + 1)
    BY <2>3, LenProperties
  <2> SUFFICES ASSUME NEW i \in DOMAIN q, NEW j \in DOMAIN q, i < j,
                      q[j].battery = "EMERGENCY_LAND"
               PROVE  q[i].battery = "EMERGENCY_LAND"
    BY DEF EmergenciesLead, q
  <2>5. j # Len(s.events) + 1
    BY <1>3, <2>3
  <2>6. j \in DOMAIN s.events /\ i \in DOMAIN s.events
    BY <2>2, <2>4, <2>5
  <2> QED
    BY <2>2, <2>3, <2>6, Zenon DEF EmergenciesLead
<1> QED
  BY <1>2, <1>3

LEMMA TailLead ==
  ASSUME NEW events \in Seq(Events), events # <<>>, EmergenciesLead(events)
  PROVE  EmergenciesLead(Tail(events))
<1> DEFINE t == Tail(events)
<1>1. /\ t \in Seq(Events) /\ Len(t) = Len(events) - 1
      /\ \A i \in 1..Len(t) : t[i] = events[i + 1]
  BY HeadTailProperties
<1>2. Len(events) \in Nat /\ DOMAIN events = 1..Len(events) /\ DOMAIN t = 1..Len(t)
      /\ Len(t) \in Nat
  BY <1>1, LenProperties
<1> HIDE DEF t
<1>3. \A i \in DOMAIN t : i \in Nat /\ i + 1 \in DOMAIN events /\ t[i] = events[i + 1]
  BY <1>1, <1>2
<1>4. \A i, j \in DOMAIN t : i < j => i + 1 < j + 1
  BY <1>2
<1>5. EmergenciesLead(t)
  BY <1>3, <1>4 DEF EmergenciesLead
<1> QED
  BY <1>5 DEF t

LEMMA ChangeLead ==
  ASSUME NEW s \in Memory, NEW t, EventsChange(s, t), EmergenciesLead(s.events)
  PROVE  EmergenciesLead(t.events)
<1>1. s.events \in Seq(Events)
  BY BooksField
<1>2. s.events # <<>> => EmergenciesLead(Tail(s.events))
  BY <1>1, TailLead
<1>3. \A event \in Events : EmergenciesLead(Queued(s, event))
  BY QueuedLead
<1> QED
  BY <1>2, <1>3 DEF EventsChange

-----------------------------------------------------------------------------
(* Drones that lose their route.                                           *)

Told(t, d) == \E c \in Sent(t) : d \in c.to

Tells(s, t) ==
  /\ Sent(s) \subseteq Sent(t)
  /\ \A d \in Owners(s.current) \ Owners(t.current) : Told(t, d)

LEMMA CalledOffTells ==
  ASSUME NEW s \in Memory, NEW t \in Memory, CalledOff(s, t),
         Counted(s)
  PROVE  Sent(s) \subseteq Sent(t) /\ (Assigned(s) # {} => \A d \in Drones : Told(t, d))
<1>1. CASE s.activeMission # 0
  <2> DEFINE c == CancelAll(s)
  <2>1. Posts(s, t, c)
    BY <1>1 DEF CalledOff
  <2>2. c \in Broadcasts /\ c.command = s.nextCommand /\ c.to = Drones
    <3>1. NoOrders \in [Drones -> Order] /\ "CANCEL" \in Kinds
      BY DEF NoOrders, NoOrder, Order, Kinds
    <3>2. s.nextCommand \in Nat /\ s.activeMission \in Nat /\ s.activeRevision \in Nat
      BY BooksField
    <3>3. c \in Broadcasts
      BY <3>1, <3>2, BroadcastType DEF CancelAll
    <3> QED
      BY <3>3 DEF CancelAll, Broadcast
  <2> HIDE DEF c
  <2>3. Adds(s, t, {c})
    BY <2>1, <2>2, PostAdded
  <2> QED
    BY <2>2, <2>3 DEF Adds, Told
<1>2. CASE s.activeMission = 0
  <2>1. Sent(s) \subseteq Sent(t)
    BY <1>2, NothingAdded DEF CalledOff, Adds
  <2> QED
    BY <1>2, <2>1 DEF Counted, VersionsKnown
<1> QED
  BY <1>1, <1>2

LEMMA SentHomeSends ==
  ASSUME NEW s \in Memory, NEW t \in Memory, NEW ds \in SUBSET Drones,
         NEW purpose \in HomeKinds, SentHome(s, t, ds, purpose)
  PROVE  LET c == Broadcast(purpose, s.nextCommand, s.nextMission, 1, ds, HomeOrders(t, ds))
         IN  c \in Broadcasts /\ c.to = ds /\ Adds(s, t, {c})
<1> DEFINE c == Broadcast(purpose, s.nextCommand, s.nextMission, 1, ds, HomeOrders(t, ds))
<1>1. Posts(s, t, c)
  BY DEF SentHome
<1>2. c \in Broadcasts /\ c.command = s.nextCommand /\ c.to = ds
  <2>1. purpose \in Kinds
    BY DEF Kinds, ExecuteKinds
  <2>2. HomeOrders(t, ds) \in [Drones -> Order]
    <3>1. \A d \in Drones : t.aux[d].id \in Nat
      BY BooksField DEF Aux
    <3> QED
      BY <3>1 DEF HomeOrders, Order, NoOrder, HomeLegs
  <2>3. s.nextCommand \in Nat /\ s.nextMission \in Nat
    BY BooksField
  <2>4. c \in Broadcasts
    BY <2>1, <2>2, <2>3, BroadcastType
  <2> QED
    BY <2>4 DEF Broadcast
<1> HIDE DEF c
<1>3. Adds(s, t, {c})
  BY <1>1, <1>2, PostAdded
<1> QED
  BY <1>2, <1>3 DEF c

LEMMA SentHomeTells ==
  ASSUME NEW s \in Memory, NEW t \in Memory, NEW ds \in SUBSET Drones,
         NEW purpose \in HomeKinds, SentHome(s, t, ds, purpose)
  PROVE  Sent(s) \subseteq Sent(t) /\ \A d \in ds : Told(t, d)
<1> DEFINE c == Broadcast(purpose, s.nextCommand, s.nextMission, 1, ds, HomeOrders(t, ds))
<1>1. c \in Broadcasts /\ c.to = ds /\ Adds(s, t, {c})
  BY SentHomeSends
<1> HIDE DEF c
<1> QED
  BY <1>1 DEF Adds, Told

LEMMA DispatchSends ==
  ASSUME NEW s \in Memory, NEW t \in Memory, Dispatched(s, t)
  PROVE  LET c == Broadcast("EXECUTE", s.nextCommand, t.activeMission, t.activeRevision,
                            Owners(s.planned), Orders(s.planned))
         IN  c \in Broadcasts /\ Adds(s, t, {c})
<1> DEFINE c == Broadcast("EXECUTE", s.nextCommand, t.activeMission, t.activeRevision,
                          Owners(s.planned), Orders(s.planned))
<1>1. Posts(s, t, c)
  BY DEF Dispatched
<1>2. "EXECUTE" \in Kinds /\ Orders(s.planned) \in [Drones -> Order]
      /\ Owners(s.planned) \in SUBSET Drones
  BY BooksField, OrdersType DEF Kinds, ExecuteKinds, Owners
<1>3. s.nextCommand \in Nat /\ t.activeMission \in Nat /\ t.activeRevision \in Nat
  BY BooksField
<1>4. c \in Broadcasts
  BY <1>2, <1>3, BroadcastType
<1>5. c.command = s.nextCommand
  BY DEF Broadcast
<1> HIDE DEF c
<1> QED
  BY <1>1, <1>4, <1>5, PostAdded DEF c

LEMMA BlockTells ==
  ASSUME NEW s, NEW t, Block(s, t), Counted(s)
  PROVE  Tells(s, t)
<1>1. s \in Memory /\ t \in Memory
  BY DEF Block, Good
<1>2. CASE \E new : Unmoved(s, t, new)
  BY <1>2 DEF Unmoved, SameBooks, Tells, Adds
<1>3. CASE Calculated(s, t)
  BY <1>1, <1>3, NothingAdded DEF Calculated, SameBooks, Tells, Adds
<1>4. CASE Dispatched(s, t)
  <2>1. Sent(s) \subseteq Sent(t)
    BY <1>1, <1>4, DispatchSends DEF Adds
  <2> QED
    BY <1>4, <2>1 DEF Dispatched, Tells
<1>5. CASE Aborted(s, t)
  BY <1>1, <1>5, CalledOffTells DEF Aborted, Tells, Assigned, Owners
<1>6. CASE Failed(s, t)
  BY <1>1, <1>6, CalledOffTells DEF Failed, Tells, Assigned, Owners
<1>7. CASE \E ds \in SUBSET Drones : \E new : Freed(s, t, ds, new)
  BY <1>7 DEF Freed, Released, Tells, Told, Adds, Detached, Owners, Assigned
<1>8. CASE \E ds \in SUBSET Drones, purpose \in HomeKinds : SentHome(s, t, ds, purpose)
  <2>1. PICK ds \in SUBSET Drones, purpose \in HomeKinds : SentHome(s, t, ds, purpose)
    BY <1>8
  <2>2. Sent(s) \subseteq Sent(t) /\ \A d \in ds : Told(t, d)
    BY <1>1, <2>1, SentHomeTells
  <2>3. t.current = Detached(s.current, ds)
    BY <2>1 DEF SentHome
  <2> QED
    BY <2>2, <2>3 DEF Tells, Detached, Owners
<1> QED
  BY <1>2, <1>3, <1>4, <1>5, <1>6, <1>7, <1>8 DEF Block

LEMMA ChainTells ==
  ASSUME NEW s, NEW t, Chain(s, t), Counted(s)
  PROVE  Tells(s, t)
<1>1. \A x, y, z : Tells(x, y) /\ Tells(y, z) => Tells(x, z)
  BY DEF Tells, Told
<1>2. \A x, y : Block(x, y) /\ Counted(x) => Tells(x, y) /\ Counted(y)
  BY BlockTells, BlockCounted
<1>3. PICK m1, m2, m3, m4 \in Memory :
        Block(s, m1) /\ Block(m1, m2) /\ Block(m2, m3) /\ Block(m3, m4) /\ Block(m4, t)
  BY DEF Chain
<1>4. Tells(s, m2) /\ Counted(m2)
  BY <1>1, <1>2, <1>3
<1>5. Tells(s, m3) /\ Counted(m3)
  BY <1>1, <1>2, <1>3, <1>4
<1>6. Tells(s, m4) /\ Counted(m4)
  BY <1>1, <1>2, <1>3, <1>5
<1> QED
  BY <1>1, <1>2, <1>3, <1>6

LEMMA AllFinishedReported ==
  ASSUME NEW s, NEW book, Honest(s, book), AllFinished(book)
  PROVE  BookStops(book) \subseteq s.reported
BY DEF Honest, AllFinished, BookStops, Owners

(* After a report: a drone that lost its route had flown it, or was told,  *)
(* or lost it to the new routes that the report commits.                   *)
LEMMA ReportedTells ==
  ASSUME NEW s, Good(s), Counted(s), NEW fb \in Feedbacks, NEW t \in Memory,
         t = FeedbackResult(s, fb),
         NEW d \in Owners(s.current), d \notin Owners(t.current),
         ~(s.phase = "WAITING" /\ Owners(t.current) # {}),
         ~(Stops(s.current[d]) \subseteq t.reported)
  PROVE  Told(t, d)
<1>1. s \in Memory /\ d \in Drones /\ fb.drone \in Drones
  BY DEF Good, Owners, Feedbacks
<1>2. \/ ReportsHome(s, fb, t) \/ ReportsDispatch(s, fb, t)
      \/ ReportsMission(s, fb, t) \/ t = s
  BY <1>1, FeedbackEffect
<1>3. CASE ReportsHome(s, fb, t)
  BY <1>3 DEF ReportsHome, Homed
<1>4. CASE ReportsDispatch(s, fb, t)
  <2>1. PICK f \in Memory :
          /\ NotedProvisional(s, fb, f)
          /\ IF fb.state \in Failures THEN Failed(f, t)
             ELSE IF AllAccepted(f) THEN Committed(f, t) ELSE t = f
    BY <1>4 DEF ReportsDispatch, ProvisionalNews
  <2>2. /\ f.current = s.current /\ Owners(f.provisional) = Owners(s.provisional)
        /\ \A e \in Drones : Stops(f.provisional[e]) = Stops(s.provisional[e])
    BY <2>1, NotedBook, BooksField, <1>1 DEF NotedProvisional, Noted
  <2>3. Counted(f)
    BY <1>1, <2>1, NotedProvisionalCounted
  <2>4. CASE Failed(f, t)
    BY <1>1, <2>2, <2>3, <2>4, CalledOffTells DEF Failed, Assigned
  <2>5. CASE Committed(f, t)
    <3>1. s.phase = "WAITING"
      BY <1>4 DEF ReportsDispatch
    <3>2. Owners(s.provisional) # {}
      BY <3>1 DEF Good, Consistent, Awaited
    <3>3. AllFinished(f.provisional)
      BY <2>2, <2>5, <3>1, <3>2 DEF Committed
    <3>4. Sound(f, f.provisional)
      <4>1. s.provisional[fb.drone].id # 0
        BY <1>4 DEF ReportsDispatch
      <4>2. Sound(s, s.provisional) /\ s.provisional \in Books
        BY <1>1, BooksField DEF Good, Consistent
      <4>3. Sound(f, [s.provisional EXCEPT ![fb.drone] = Fed(s.provisional[fb.drone], fb)])
        BY <1>1, <2>1, <4>1, <4>2, FedBook DEF NotedProvisional, Noted
      <4> QED
        BY <2>1, <4>3 DEF NotedProvisional, Noted
    <3>5. BookStops(f.provisional) \subseteq f.reported
      BY <3>3, <3>4, AllFinishedReported DEF Sound
    <3>6. BookStops(f.provisional) = BookStops(s.provisional)
      BY <2>2 DEF BookStops
    <3>7. s.active \subseteq BookStops(s.provisional)
      BY <3>1 DEF Good, Consistent
    <3>8. s.reported \subseteq f.reported /\ t.reported = f.reported
      BY <2>1, <2>5 DEF NotedProvisional, Noted, Committed
    <3>9. Stops(s.current[d]) \subseteq s.active \cup s.reported
      BY <1>1 DEF Counted, StopsCovered
    <3> QED
      BY <3>5, <3>6, <3>7, <3>8, <3>9
  <2> QED
    BY <2>1, <2>2, <2>4, <2>5
<1>5. CASE ReportsMission(s, fb, t)
  <2>1. PICK f \in Memory :
          /\ NotedCurrent(s, fb, f)
          /\ IF fb.state \in Failures THEN Aborted(f, t)
             ELSE IF AllFinished(f.current) THEN Finished(f, t) ELSE t = f
    BY <1>5 DEF ReportsMission, MissionNews
  <2>2. /\ Owners(f.current) = Owners(s.current)
        /\ \A e \in Drones : Stops(f.current[e]) = Stops(s.current[e])
    BY <2>1, NotedBook, BooksField, <1>1 DEF NotedCurrent, Noted
  <2>3. Counted(f)
    BY <1>1, <2>1, NotedCurrentCounted
  <2>4. CASE Aborted(f, t)
    BY <1>1, <2>2, <2>3, <2>4, CalledOffTells DEF Aborted, Assigned
  <2>5. CASE Finished(f, t) /\ AllFinished(f.current)
    <3>1. Sound(f, f.current)
      <4>1. s.current[fb.drone].id # 0
        BY <1>5 DEF ReportsMission
      <4>2. Sound(s, s.current) /\ s.current \in Books
        BY <1>1, BooksField DEF Good, Consistent
      <4>3. Sound(f, [s.current EXCEPT ![fb.drone] = Fed(s.current[fb.drone], fb)])
        BY <1>1, <2>1, <4>1, <4>2, FedBook DEF NotedCurrent, Noted
      <4> QED
        BY <2>1, <4>3 DEF NotedCurrent, Noted
    <3>2. BookStops(f.current) \subseteq f.reported
      BY <2>5, <3>1, AllFinishedReported DEF Sound
    <3>3. Stops(s.current[d]) \subseteq BookStops(f.current)
      BY <1>1, <2>2 DEF BookStops
    <3> QED
      BY <2>5, <3>2, <3>3 DEF Finished
  <2> QED
    BY <2>1, <2>2, <2>4, <2>5
<1> QED
  BY <1>2, <1>3, <1>4, <1>5

-----------------------------------------------------------------------------
(* The theorems.                                                           *)

NumberedInvariant == InductiveInvariant /\ Counted(co) /\ EmergenciesLead(co.events)

LEMMA NextNumbered ==
  ASSUME NumberedInvariant, Next
  PROVE  NumberedInvariant'
<1>1. Good(co) /\ Counted(Begin) /\ Good(Begin) /\ Begin.events = co.events /\ co \in Memory
  BY BeginCounted, BeginGood, BeginSame DEF NumberedInvariant, InductiveInvariant, Good
<1>2. InductiveInvariant'
  BY NextGood, EnvironmentTypes DEF NumberedInvariant, InductiveInvariant, Good
<1>3. CASE Operator \/ Timer \/ Reports
  <2>1. (Chain(Begin, co') \/ SwitchedOn(Begin, co')) /\ EventsChange(co, co')
    BY <1>1, <1>3, CallbackChain
  <2>2. Counted(co')
    <3>1. CASE Chain(Begin, co')
      BY <1>1, <3>1, ChainCounted
    <3>2. CASE SwitchedOn(Begin, co')
      BY <1>1, <3>2, UnmovedCounted DEF SwitchedOn, Good
    <3> QED
      BY <2>1, <3>1, <3>2
  <2>3. EmergenciesLead(co'.events)
    BY <1>1, <2>1, ChangeLead DEF NumberedInvariant
  <2> QED
    BY <1>2, <2>2, <2>3 DEF NumberedInvariant, EmergenciesLead, Counted, VersionsKnown,
       HomesNumbered, RevisionKnown, StopsCovered, RoutesNumbered, PlanFlyable, Assigned
<1>4. ASSUME NEW fb \in AnyFeedback, OnMissionFeedback(fb)
      PROVE  NumberedInvariant'
  <2>1. fb \in Feedbacks /\ Reported(Begin, fb, co')
    BY <1>1, <1>4, FeedbackCase
  <2>2. Counted(co')
    BY <1>1, <2>1, ReportedGood
  <2>3. co'.events = co.events
    BY <1>1, <2>1, ReportedKeeps DEF Reported, Good
  <2> QED
    BY <1>2, <2>2, <2>3 DEF NumberedInvariant, EmergenciesLead, Counted, VersionsKnown,
       HomesNumbered, RevisionKnown, StopsCovered, RoutesNumbered, PlanFlyable, Assigned
<1> QED
  BY <1>3, <1>4 DEF Next

LEMMA InitNumbered == Init => NumberedInvariant
<1> SUFFICES ASSUME Init PROVE NumberedInvariant
  OBVIOUS
<1>1. InductiveInvariant
  BY InitGood
<1>2. co \in Memory
  BY <1>1 DEF InductiveInvariant, Good
<1>3. /\ co.current = NoRoutes /\ co.provisional = NoRoutes /\ co.planned = NoRoutes
      /\ co.aux = [d \in Drones |-> NoAux] /\ co.phase = "IDLE"
      /\ co.nextRoute = 1 /\ co.nextCommand = 1 /\ co.nextMission = 1
      /\ co.activeCommand = 0 /\ co.activeMission = 0 /\ co.events = <<>>
  BY DEF Init, Started
<1>4. VersionsKnown(co) /\ HomesNumbered(co) /\ RevisionKnown(co)
  BY <1>3, NoOwners DEF VersionsKnown, HomesNumbered, RevisionKnown, Assigned, Owners, NoAux
<1>5. StopsCovered(co) /\ RoutesNumbered(co) /\ PlanFlyable(co)
  BY <1>2, <1>3, NoRoutesNumbered, NoRouteStops, NoPlan
     DEF StopsCovered, RoutesNumbered, NoAux
<1>6. EmergenciesLead(co.events)
  BY <1>3 DEF EmergenciesLead
<1> QED
  BY <1>1, <1>3, <1>4, <1>5, <1>6 DEF NumberedInvariant, Counted

(* The inductive invariant that also numbers the missions, the commands    *)
(* and the routes holds in every state of the coordinator.                 *)
THEOREM NumberedInvariance == Spec => []NumberedInvariant
<1>1. NumberedInvariant /\ [Next]_vars => NumberedInvariant'
  <2> SUFFICES ASSUME NumberedInvariant, [Next]_vars
               PROVE  NumberedInvariant'
    OBVIOUS
  <2>1. CASE Next
    BY <2>1, NextNumbered
  <2>2. CASE UNCHANGED vars
    BY <2>2, Zenon DEF vars, NumberedInvariant, InductiveInvariant, Good, Consistent, Exclusive,
                Awaited, Accounted, Known, Placed, Sound, Honest, Separate, Assigned,
                Submitted, Counted, VersionsKnown, HomesNumbered, RevisionKnown,
                StopsCovered, RoutesNumbered, PlanFlyable, EmergenciesLead
  <2> QED
    BY <2>1, <2>2
<1> QED
  BY <1>1, InitNumbered, PTL DEF Spec

(* Of two drones in an emergency and on low battery the one that must land *)
(* is served first.                                                        *)
THEOREM EmergenciesAreFirst == Spec => []EmergenciesFirst
<1>1. NumberedInvariant => EmergenciesFirst
  BY DEF NumberedInvariant, EmergenciesLead, EmergenciesFirst
<1> QED
  BY <1>1, NumberedInvariance, PTL

(* A drone that its battery has excluded is assigned no new route.         *)
THEOREM ExcludedAreLeftAlone == Spec => ExcludedGetNoWork
<1> DEFINE P == \A d \in Drones : co.excluded[d] /\ d \in Assigned(co)' => d \in Assigned(co)
<1>1. NumberedInvariant /\ [Next]_vars => [P]_vars
  <2> SUFFICES ASSUME NumberedInvariant, Next
               PROVE  P
    OBVIOUS
  <2>1. /\ Good(co) /\ Counted(Begin) /\ Begin \in Memory /\ Begin.excluded = co.excluded
        /\ Assigned(Begin) = Assigned(co)
    BY BeginCounted, BeginSame
       DEF NumberedInvariant, InductiveInvariant, Good, Assigned, SameBooks
  <2>2. NoNewWork(Begin, co')
    <3>1. CASE Operator \/ Timer \/ Reports
      BY <2>1, <3>1, CallbackChain, ChainNoNewWork
         DEF SwitchedOn, Unmoved, SameBooks, NoNewWork, Assigned
    <3>2. ASSUME NEW fb \in AnyFeedback, OnMissionFeedback(fb)
          PROVE  NoNewWork(Begin, co')
      <4>1. fb \in Feedbacks /\ Reported(Begin, fb, co')
        BY <2>1, <3>2, FeedbackCase DEF Good
      <4> QED
        BY <2>1, <4>1, ReportedKeeps DEF Reported, NoNewWork
    <3> QED
      BY <3>1, <3>2 DEF Next
  <2>3. Assigned(co)' = Assigned(co')
    BY DEF Assigned
  <2> QED
    BY <2>1, <2>2, <2>3 DEF NoNewWork
<1> QED
  BY <1>1, NumberedInvariance, PTL DEF Spec, ExcludedGetNoWork

(* No drone is taken off a route it has not flown without being told.      *)
THEOREM DetachedAreTold == Spec => DetachedDronesAreTold
<1> DEFINE P == \A d \in Owners(co.current) :
                  /\ d \notin Owners(co'.current) /\ ~Commits
                  /\ ~(Stops(co.current[d]) \subseteq co'.reported)
                  => \E i \in DOMAIN co'.out : d \in co'.out[i].to
<1>1. NumberedInvariant /\ [Next]_vars => [P]_vars
  <2> SUFFICES ASSUME NumberedInvariant, Next,
                      NEW d \in Owners(co.current), d \notin Owners(co'.current), ~Commits,
                      ~(Stops(co.current[d]) \subseteq co'.reported)
               PROVE  Told(co', d)
    BY DEF Told, Sent
  <2>1. /\ Good(co) /\ Counted(Begin) /\ Good(Begin) /\ Begin \in Memory
        /\ Begin.current = co.current /\ Begin.phase = co.phase /\ Good(co')
    BY BeginCounted, BeginSame, BeginGood, NextGood
       DEF NumberedInvariant, InductiveInvariant, Good, SameBooks
  <2>2. CASE Operator \/ Timer \/ Reports
    <3>1. CASE Chain(Begin, co')
      BY <2>1, <3>1, ChainTells DEF Tells
    <3>2. CASE SwitchedOn(Begin, co')
      BY <2>1, <3>2 DEF SwitchedOn, Unmoved, SameBooks
    <3> QED
      BY <2>1, <2>2, <3>1, <3>2, CallbackChain
  <2>3. ASSUME NEW fb \in AnyFeedback, OnMissionFeedback(fb)
        PROVE  Told(co', d)
    <3>1. fb \in Feedbacks /\ co' = FeedbackResult(Begin, fb)
      BY <2>1, <2>3, FeedbackCase DEF Good, Reported
    <3>2. co' \in Memory
      BY <2>1 DEF Good
    <3>3. ~(Begin.phase = "WAITING" /\ Owners(co'.current) # {})
      BY <2>1 DEF Commits
    <3> QED
      BY <2>1, <3>1, <3>2, <3>3, ReportedTells
  <2> QED
    BY <2>2, <2>3 DEF Next
<1> QED
  BY <1>1, NumberedInvariance, PTL DEF Spec, DetachedDronesAreTold
=============================================================================
