-------------------------- MODULE MapServer_proofs --------------------------
(***************************************************************************)
(* For any set of voxels and drones, any odds and any times: a local map   *)
(* shows one session only, and the published tree follows the fused map as *)
(* long as every voxel lapses once, which some odds ensure.                *)
(***************************************************************************)
EXTENDS MapServer, TLAPS, FiniteSetTheorems

Cell ==
  [odds: Int, first: Int, hit: Int, free: Int, seen: Int, hits: Int, static: BOOLEAN]

DeadlineBags == UNION {[S -> Nat \ {0}] : S \in SUBSET [key: Voxels, hit: Int]}

Fusions ==
  [cells: [Voxels -> Cell], now: Nat, timeout: Nat, occupied_count: Int,
   expirations: DeadlineBags]

(* A hit that counts has a deadline under way, which will end it.          *)
Watched(f) ==
  \A v \in Voxels : DynamicOccupied(f.cells[v], f.now, f.timeout) =>
    BagIn(Deadline(v, f.cells[v].hit), f.expirations)

SoundFusion(f) == f \in Fusions /\ Watched(f)

(* The counter, by which the serializer knows an empty map.                *)
CountsOccupied(f) == f.occupied_count = Cardinality(OccupiedKeys(f))

(* Transitions of voxels.                                                  *)
AreChanges(c) == DOMAIN c \subseteq Voxels

-----------------------------------------------------------------------------
LEMMA AfterNothing == \A keys : After(keys, NoChanges) = keys
BY DEF After, On, NoChanges

LEMMA NoneAreChanges == AreChanges(NoChanges)
BY DEF AreChanges, NoChanges

LEMMA MergedIs ==
  ASSUME NEW a, NEW b, NEW keys, AreChanges(a), AreChanges(b)
  PROVE  /\ AreChanges(Merged(a, b))
         /\ After(keys, Merged(a, b)) = After(After(keys, b), a)
<1> DEFINE m == Merged(a, b)
<1>1. /\ DOMAIN m = DOMAIN a \cup DOMAIN b
      /\ \A v \in DOMAIN m : m[v] = IF v \in DOMAIN a THEN a[v] ELSE b[v]
  BY DEF Merged
<1> HIDE DEF m
<1> QED
  BY <1>1 DEF AreChanges, After, On, m

LEMMA Recount ==
  ASSUME NEW a \in Nat, NEW b \in Nat, NEW c \in Nat
  PROVE  Larger(0, a + (b - c) - (a - c)) = b
BY DEF Larger

LEMMA TransitionsAre ==
  ASSUME NEW before \in SUBSET Voxels, NEW after \in SUBSET Voxels
  PROVE  /\ AreChanges(Transitions(before, after))
         /\ After(before, Transitions(before, after)) = after
         /\ Counted(Cardinality(before), Transitions(before, after)) = Cardinality(after)
         /\ \A count \in Int : Counted(count, Transitions(before, after)) \in Int
<1> DEFINE t == Transitions(before, after)
           on == {v \in DOMAIN t : t[v]}
<1>1. /\ DOMAIN t = (before \ after) \cup (after \ before)
      /\ \A v \in DOMAIN t : t[v] = (v \in after)
  BY DEF Transitions
<1> HIDE DEF t
<1>2. on = after \ before /\ DOMAIN t \ on = before \ after
  BY <1>1
<1>3. AreChanges(t)
  BY <1>1 DEF AreChanges
<1>10. After(before, t) = after
  <2>1. On(t) = after \ before
    BY <1>2 DEF On
  <2> QED
    BY <1>1, <2>1 DEF After
<1>4. IsFiniteSet(before) /\ IsFiniteSet(after)
  BY FusionAssumption, FS_Subset
<1>5. /\ Cardinality(on) = Cardinality(after) - Cardinality(after \cap before)
      /\ Cardinality(DOMAIN t \ on) = Cardinality(before) - Cardinality(before \cap after)
  BY <1>2, <1>4, FS_Difference
<1>6. before \cap after = after \cap before /\ IsFiniteSet(before \cap after)
  BY <1>4, FS_Intersection
<1>7. /\ Cardinality(before) \in Nat /\ Cardinality(after) \in Nat
      /\ Cardinality(after \cap before) \in Nat
  BY <1>4, <1>6, FS_CardinalityType
<1>8. Counted(Cardinality(before), t) = Larger(0, Cardinality(before) + Cardinality(on) - Cardinality(DOMAIN t \ on))
  BY DEF Counted
<1>11. \A count \in Int : Counted(count, t) \in Int
  <2> DEFINE a == Cardinality(before)
             b == Cardinality(after)
             c == Cardinality(after \cap before)
             ons == Cardinality(on)
             offs == Cardinality(DOMAIN t \ on)
  <2>1. ons = b - c /\ offs = a - c /\ a \in Int /\ b \in Int /\ c \in Int
    BY <1>5, <1>6, <1>7
  <2>2. \A count : Counted(count, t) = Larger(0, count + ons - offs)
    BY DEF Counted
  <2> HIDE DEF ons, offs, a, b, c
  <2> QED
    BY <2>1, <2>2 DEF Larger
<1> HIDE DEF on
<1>9. Counted(Cardinality(before), t) = Cardinality(after)
  <2> DEFINE a == Cardinality(before)
             b == Cardinality(after)
             c == Cardinality(after \cap before)
  <2>1. Counted(a, t) = Larger(0, a + (b - c) - (a - c))
    BY <1>5, <1>6, <1>8
  <2>2. a \in Nat /\ b \in Nat /\ c \in Nat
    BY <1>7
  <2> HIDE DEF a, b, c
  <2>3. Larger(0, a + (b - c) - (a - c)) = b
    BY <2>2, Recount
  <2> QED
    BY <2>1, <2>3 DEF a, b
<1> QED
  BY <1>3, <1>9, <1>10, <1>11 DEF t

-----------------------------------------------------------------------------
(* The fusion.                                                             *)

LEMMA DeadlinesAre ==
  ASSUME NEW b \in DeadlineBags
  PROVE  /\ b \in [DOMAIN b -> Nat \ {0}]
         /\ DOMAIN b \subseteq [key: Voxels, hit: Int]
BY DEF DeadlineBags

LEMMA DeadlinesLeft ==
  ASSUME NEW b \in DeadlineBags, NEW S \in SUBSET DOMAIN b
  PROVE  [e \in S |-> b[e]] \in DeadlineBags
BY DeadlinesAre DEF DeadlineBags

LEMMA DeadlinesAdded ==
  ASSUME NEW b \in DeadlineBags, NEW S \in SUBSET [key: Voxels, hit: Int]
  PROVE  /\ b (+) SetToBag(S) \in DeadlineBags
         /\ \A e : BagIn(e, b (+) SetToBag(S)) <=> BagIn(e, b) \/ e \in S
<1> DEFINE c == b (+) SetToBag(S)
           D == DOMAIN b \cup S
<1>1. D \in SUBSET [key: Voxels, hit: Int] /\ \A e \in DOMAIN b : b[e] \in Nat \ {0}
  BY DeadlinesAre
<1>2. c = [e \in D |-> (IF e \in DOMAIN b THEN b[e] ELSE 0) + (IF e \in S THEN 1 ELSE 0)]
  BY DEF (+), SetToBag
<1> HIDE DEF c, D
<1>3. ASSUME NEW e \in D
      PROVE  (IF e \in DOMAIN b THEN b[e] ELSE 0) + (IF e \in S THEN 1 ELSE 0) \in Nat \ {0}
  <2>1. CASE e \in DOMAIN b
    <3>1. b[e] \in Nat \ {0}
      BY <1>1, <2>1
    <3> QED
      BY <2>1, <3>1
  <2>2. CASE e \notin DOMAIN b
    BY <2>2 DEF D
  <2> QED
    BY <2>1, <2>2
<1>4. c \in [D -> Nat \ {0}]
  BY <1>2, <1>3
<1>5. c \in DeadlineBags
  BY <1>1, <1>4 DEF DeadlineBags
<1>6. \A e : BagIn(e, c) <=> BagIn(e, b) \/ e \in S
  BY <1>4 DEF BagIn, BagToSet, D
<1> QED
  BY <1>5, <1>6 DEF c

(* The voxels that decay counts out.                                       *)
LEMMA CountedOutIsInt ==
  ASSUME NEW f \in Fusions, NEW ended \in SUBSET Voxels,
         \A v \in ended : Lapses(f, v) \in Nat
  PROVE  CountedOut(f, ended) \in Int
<1> DEFINE A(v) == {v} \X (1 .. Lapses(f, v))
           S == {A(v) : v \in ended}
           g == [v \in ended |-> A(v)]
<1>1. IsFiniteSet(ended)
  BY FusionAssumption, FS_Subset
<1>2. g \in Surjection(ended, S)
  BY DEF Surjection
<1>3. IsFiniteSet(S)
  BY <1>1, <1>2, FS_Surjection
<1>4. ASSUME NEW v \in ended PROVE IsFiniteSet(A(v))
  <2>2. Lapses(f, v) \in Int /\ 1 \in Int
    OBVIOUS
  <2>1. IsFiniteSet({v}) /\ IsFiniteSet(1 .. Lapses(f, v))
    BY <2>2, FS_Singleton, FS_Interval
  <2> QED
    BY <2>1, FS_Product
<1> HIDE DEF A
<1>5. \A T \in S : IsFiniteSet(T)
  BY <1>4
<1>6. IsFiniteSet(UNION S)
  BY <1>3, <1>5, FS_UNION
<1>7. Cardinality(UNION S) \in Nat
  BY <1>6, FS_CardinalityType
<1>8. CountedOut(f, ended) = Larger(0, f.occupied_count - Cardinality(UNION S))
  BY DEF CountedOut, A
<1> HIDE DEF S
<1> QED
  BY <1>7, <1>8 DEF Larger, Fusions

LEMMA CountedOutOnce ==
  ASSUME NEW f, CountsOccupied(f), NEW ended \in SUBSET OccupiedKeys(f),
         \A v \in ended : Lapses(f, v) = 1
  PROVE  CountedOut(f, ended) = Cardinality(OccupiedKeys(f) \ ended)
<1> DEFINE all == OccupiedKeys(f)
           L == UNION {{v} \X (1 .. Lapses(f, v)) : v \in ended}
<1>1. all \subseteq Voxels
  BY DEF OccupiedKeys
<1>2. IsFiniteSet(all) /\ IsFiniteSet(ended)
  <2>1. IsFiniteSet(all)
    BY <1>1, FusionAssumption, FS_Subset
  <2> QED
    BY <2>1, FS_Subset
<1>3. L = ended \X {1}
  <2>1. 1 .. 1 = {1}
    OBVIOUS
  <2>2. L = UNION {{v} \X {1} : v \in ended}
    BY <2>1
  <2> QED
    BY <2>2
<1>4. IsFiniteSet({1}) /\ Cardinality({1}) = 1
  BY FS_Singleton
<1>5. Cardinality(ended) \in Nat /\ Cardinality(all) \in Nat /\ Cardinality(all \ ended) \in Nat
  <2>1. IsFiniteSet(all \ ended)
    BY <1>2, FS_Difference
  <2> QED
    BY <1>2, <2>1, FS_CardinalityType
<1>6. Cardinality(L) = Cardinality(ended)
  <2>1. Cardinality(L) = Cardinality(ended) * Cardinality({1})
    BY <1>2, <1>3, <1>4, FS_Product
  <2> QED
    BY <1>4, <1>5, <2>1
<1>7. Cardinality(all \ ended) = Cardinality(all) - Cardinality(ended)
  <2>1. all \cap ended = ended
    OBVIOUS
  <2> QED
    BY <1>2, <2>1, FS_Difference
<1>8. CountedOut(f, ended) = Larger(0, Cardinality(all) - Cardinality(L))
  BY DEF CountedOut, CountsOccupied
<1> HIDE DEF all, L
<1> QED
  BY <1>5, <1>6, <1>7, <1>8 DEF Larger, all

LEMMA NoFusionIs ==
  ASSUME NEW timeout \in Nat
  PROVE  /\ SoundFusion(NoFusion(timeout)) /\ CountsOccupied(NoFusion(timeout))
         /\ OccupiedKeys(NoFusion(timeout)) = {}
<1> DEFINE f == NoFusion(timeout)
<1>5. EmptyBag \in DeadlineBags
  <2>1. EmptyBag \in [{} -> Nat \ {0}]
    BY DEF EmptyBag, SetToBag
  <2> QED
    BY <2>1 DEF DeadlineBags
<1> HIDE DEF EmptyBag
<1>1. f \in Fusions /\ \A v \in Voxels : f.cells[v] = NoCell
  BY <1>5 DEF NoFusion, NoCell, Cell, Fusions
<1>2. f.occupied_count = 0
  BY DEF NoFusion
<1>3. \A v \in Voxels : ~DynamicOccupied(f.cells[v], f.now, f.timeout)
                        /\ ~StaticOccupied(f.cells[v])
  BY <1>1 DEF NoCell, DynamicOccupied, StaticOccupied
<1> HIDE DEF f
<1>4. OccupiedKeys(f) = {}
  BY <1>3 DEF OccupiedKeys, Occupied
<1> QED
  BY <1>1, <1>2, <1>3, <1>4, FS_EmptySet DEF SoundFusion, Watched, CountsOccupied, f

LEMMA DecayIs ==
  ASSUME NEW f, SoundFusion(f), NEW time \in Nat
  PROVE  LET r == Decay(f, time)
         IN  /\ SoundFusion(r.fusion)
             /\ CountsOccupied(f) /\ LapsesOnce(f) => CountsOccupied(r.fusion)
             /\ r.fusion.timeout = f.timeout
             /\ AreChanges(r.transitions)
             /\ After(OccupiedKeys(f), r.transitions) = OccupiedKeys(r.fusion)
<1> DEFINE now == Larger(f.now, time)
           over == {v \in Expired(f, now) : ~Occupied(f.cells[v], now, f.timeout)}
           cells == [v \in Voxels |->
                       IF v \in over /\ ~f.cells[v].static THEN NoCell ELSE f.cells[v]]
           ended == {v \in over : Occupied(f.cells[v], f.now, f.timeout)}
           left == Left(f, now)
           g == Decay(f, time).fusion
           t == Transitions(ended, {})
<1>0. f \in Fusions
  BY DEF SoundFusion
<1>1. /\ Decay(f, time).transitions = t
      /\ g = [f EXCEPT !.cells = cells, !.now = now, !.occupied_count = CountedOut(f, ended),
                       !.expirations = left]
  BY DEF Decay
<1>2. /\ g.cells = cells /\ g.now = now /\ g.timeout = f.timeout
      /\ g.expirations = left /\ g.occupied_count = CountedOut(f, ended)
  BY <1>0, <1>1 DEF Fusions
<1>3. now \in Nat /\ now >= f.now
  BY <1>0 DEF Larger, Fusions
<1>4. over \subseteq Voxels /\ cells \in [Voxels -> Cell] /\ NoCell \in Cell
  BY <1>0 DEF Fusions, Expired, NoCell, Cell
<1> HIDE DEF g, now
<1>5. \A v \in Voxels : f.cells[v] \in Cell
  BY <1>0 DEF Fusions
<1>6. ASSUME NEW v \in Voxels
      PROVE  /\ Occupied(cells[v], now, f.timeout) <=>
                  (v \notin over /\ Occupied(f.cells[v], f.now, f.timeout))
             /\ DynamicOccupied(cells[v], now, f.timeout) =>
                  BagIn(Deadline(v, cells[v].hit), left)
  <2> DEFINE c == f.cells[v]
  <2>1. /\ c \in Cell /\ f.now \in Nat /\ f.timeout \in Nat
    BY <1>0, <1>5 DEF Fusions
  <2>2. cells[v] = IF v \in over /\ ~c.static THEN NoCell ELSE c
    OBVIOUS
  <2> DEFINE e == Deadline(v, c.hit)
  <2>3. DynamicOccupied(c, f.now, f.timeout) => BagIn(e, f.expirations)
    BY DEF SoundFusion, Watched
  <2>4. e.hit = c.hit
    BY DEF Deadline
  <2>5. DynamicOccupied(c, now, f.timeout) => DynamicOccupied(c, f.now, f.timeout)
    <3>1. c.hit \in Int /\ f.now \in Nat /\ f.timeout \in Nat
      BY <2>1 DEF Cell
    <3>2. now - c.hit <= f.timeout => f.now - c.hit <= f.timeout
      BY <1>3, <3>1
    <3> QED
      BY <3>2 DEF DynamicOccupied
  <2>6. DynamicOccupied(c, f.now, f.timeout) /\ ~DynamicOccupied(c, now, f.timeout)
          => c.hit + f.timeout + 1 <= now
    <3>1. c.hit \in Int /\ f.now \in Nat /\ f.timeout \in Nat
      BY <2>1 DEF Cell
    <3>2. ~(now - c.hit <= f.timeout) => c.hit + f.timeout + 1 <= now
      BY <1>3, <3>1
    <3> QED
      BY <3>2 DEF DynamicOccupied
  <2>7. DynamicOccupied(c, f.now, f.timeout) /\ ~DynamicOccupied(c, now, f.timeout)
          => v \in Expired(f, now)
    BY <2>3, <2>6 DEF Expired
  <2>8. v \in over => ~Occupied(c, now, f.timeout)
    OBVIOUS
  <2>9. ~Occupied(NoCell, now, f.timeout) /\ ~DynamicOccupied(NoCell, now, f.timeout)
    BY DEF NoCell, Occupied, DynamicOccupied, StaticOccupied
  <2>10. Expired(f, now) \subseteq Voxels
    BY DEF Expired
  <2>11. CASE v \in over
    <3>1. ~Occupied(cells[v], now, f.timeout) /\ ~DynamicOccupied(cells[v], now, f.timeout)
      BY <2>2, <2>8, <2>9, <2>11 DEF Occupied
    <3> QED
      BY <2>11, <3>1
  <2>12. CASE v \notin over
    <3>1. cells[v] = c
      BY <2>2, <2>12
    <3>2. v \in Expired(f, now) => Occupied(c, now, f.timeout)
      BY <2>12
    <3>3. Occupied(c, now, f.timeout) <=> Occupied(c, f.now, f.timeout)
      BY <2>5, <2>7, <3>2 DEF Occupied, StaticOccupied
    <3>4. DynamicOccupied(c, now, f.timeout) => c.hit + f.timeout + 1 > now
      BY <1>3, <2>1 DEF DynamicOccupied, Cell
    <3>5. DynamicOccupied(c, now, f.timeout) => BagIn(e, left)
      BY <2>3, <2>4, <2>5, <3>4 DEF Left, BagIn, BagToSet
    <3> HIDE DEF cells, over, left, e
    <3> QED
      BY <2>12, <3>1, <3>3, <3>5 DEF e
  <2> QED
    BY <2>11, <2>12
<1>7. OccupiedKeys(f) \subseteq Voxels /\ OccupiedKeys(g) \subseteq Voxels
  BY DEF OccupiedKeys
<1> HIDE DEF cells, left
<1>8. OccupiedKeys(g) = OccupiedKeys(f) \ over /\ ended = OccupiedKeys(f) \cap over
  BY <1>2, <1>4, <1>6 DEF OccupiedKeys
<1>13. ASSUME NEW v \in ended
       PROVE  Lapses(f, v) \in Nat /\ (LapsesOnce(f) => Lapses(f, v) = 1)
  <2> DEFINE c == f.cells[v]
             e == Deadline(v, c.hit)
  <2>1. v \in Expired(f, now) /\ v \in Voxels /\ ~Occupied(c, now, f.timeout) /\ c \in Cell
    BY <1>4, <1>5, <1>13
  <2>2. BagIn(e, f.expirations)
    BY <2>1 DEF Expired
  <2>3. f.expirations[e] \in Nat
    <3>1. f.expirations \in DeadlineBags
      BY <1>0 DEF Fusions
    <3> QED
      BY <2>2, <3>1, DeadlinesAre DEF BagIn, BagToSet
  <2>4. c.static => c.odds <= OccupiedOdds
    BY <2>1, FusionAssumption DEF Occupied, StaticOccupied, Cell
  <2>5. c.static /\ LapsesOnce(f) => f.expirations[e] = 1
    BY <2>1, <2>2, <2>4 DEF LapsesOnce
  <2>6. Lapses(f, v) = IF c.static THEN f.expirations[e] ELSE 1
    BY DEF Lapses
  <2> HIDE DEF c, e
  <2> QED
    BY <2>3, <2>5, <2>6
<1> HIDE DEF over, ended
<1>9. t = Transitions(OccupiedKeys(f), OccupiedKeys(g))
  <2>1. ended \ {} = (OccupiedKeys(f) \ OccupiedKeys(g)) \cup (OccupiedKeys(g) \ OccupiedKeys(f))
    BY <1>8
  <2>2. \A v \in ended : (v \in {}) = (v \in OccupiedKeys(g))
    BY <1>8
  <2> QED
    BY <2>1, <2>2 DEF Transitions
<1> HIDE DEF t
<1>10. /\ AreChanges(t) /\ After(OccupiedKeys(f), t) = OccupiedKeys(g)
  BY <1>7, <1>9, TransitionsAre
<1>14. /\ g.occupied_count \in Int
       /\ CountsOccupied(f) /\ LapsesOnce(f) => CountsOccupied(g)
  <2>1. ended \in SUBSET OccupiedKeys(f) /\ OccupiedKeys(g) = OccupiedKeys(f) \ ended
    BY <1>8
  <2>2. g.occupied_count \in Int
    BY <1>0, <1>2, <1>7, <1>13, <2>1, CountedOutIsInt
  <2>3. ASSUME CountsOccupied(f), LapsesOnce(f)
        PROVE  CountsOccupied(g)
    <3>1. CountedOut(f, ended) = Cardinality(OccupiedKeys(f) \ ended)
      BY <1>13, <2>1, <2>3, CountedOutOnce
    <3> QED
      BY <1>2, <2>1, <3>1 DEF CountsOccupied
  <2> QED
    BY <2>2, <2>3
<1>11. g \in Fusions
  <2>1. left \in DeadlineBags
    BY <1>0, DeadlinesLeft DEF Fusions, left, Left
  <2> QED
    BY <1>0, <1>1, <1>2, <1>3, <1>4, <1>14, <2>1 DEF Fusions
<1>12. Watched(g)
  BY <1>2, <1>6 DEF Watched
<1> QED
  BY <1>1, <1>2, <1>10, <1>11, <1>12, <1>14 DEF SoundFusion, g

LEMMA IntegratedCell ==
  ASSUME NEW c \in Cell, NEW time \in Nat, NEW now \in Nat, NEW timeout \in Nat
  PROVE  /\ IntegrateFree(c, time, now, timeout) \in Cell
         /\ IntegrateHit(c, time, timeout) \in Cell
         /\ DynamicOccupied(IntegrateFree(c, time, now, timeout), now, timeout) =>
              /\ DynamicOccupied(c, now, timeout)
              /\ IntegrateFree(c, time, now, timeout).hit = c.hit
         /\ IntegrateHit(c, time, timeout).hit = IF time < c.seen THEN c.hit ELSE time
         /\ time < c.seen => IntegrateHit(c, time, timeout) = c
<1>1. \A a, b \in Int : Larger(a, b) \in Int /\ Smaller(a, b) \in Int
  BY DEF Larger, Smaller
<1>2. \A a \in Int : ClampOdds(a) \in Int
  BY <1>1, FusionAssumption DEF ClampOdds
<1>3. NoCell \in Cell /\ ~DynamicOccupied(NoCell, now, timeout)
  BY DEF NoCell, Cell, DynamicOccupied
<1>4. /\ IntegrateFree(c, time, now, timeout) \in Cell
      /\ DynamicOccupied(IntegrateFree(c, time, now, timeout), now, timeout) =>
              /\ DynamicOccupied(c, now, timeout)
              /\ IntegrateFree(c, time, now, timeout).hit = c.hit
  <2> DEFINE odds == ClampOdds(c.odds - MissOdds)
             free == Larger(c.free, time)
             missed == [c EXCEPT !.odds = odds, !.free = free, !.seen = time,
                                 !.static = @ /\ odds > OccupiedOdds]
  <2>0. c.odds - MissOdds \in Int /\ c.free \in Int
    BY FusionAssumption DEF Cell
  <2>6. odds \in Int
    BY <1>2, <2>0
  <2>1. odds \in Int /\ free \in Int /\ free >= c.free
    BY <2>0, <2>6 DEF Larger
  <2>5. PICK static \in BOOLEAN : static = (c.static /\ odds > OccupiedOdds)
    BY Zenon DEF Cell
  <2>2. IntegrateFree(c, time, now, timeout) \in {c, NoCell, missed}
    BY DEF IntegrateFree
  <2> HIDE DEF odds, free
  <2>7. missed = [c EXCEPT !.odds = odds, !.free = free, !.seen = time, !.static = static]
    BY <2>5
  <2> HIDE DEF missed
  <2>8. missed = [odds |-> odds, first |-> c.first, hit |-> c.hit, free |-> free,
                  seen |-> time, hits |-> c.hits, static |-> static]
    BY <2>7 DEF Cell
  <2>9. c.first \in Int /\ c.hit \in Int /\ c.hits \in Int /\ time \in Int
    BY DEF Cell
  <2>3. missed \in Cell /\ missed.hit = c.hit /\ missed.free = free
    BY <2>1, <2>8, <2>9 DEF Cell
  <2>4. DynamicOccupied(missed, now, timeout) => DynamicOccupied(c, now, timeout)
    <3>1. c.hit \in Int /\ c.free \in Int
      BY DEF Cell
    <3>2. c.hit >= free => c.hit >= c.free
      BY <2>1, <3>1
    <3> QED
      BY <2>3, <3>2 DEF DynamicOccupied
  <2> QED
    BY <1>3, <2>2, <2>3, <2>4
<1>5. /\ IntegrateHit(c, time, timeout) \in Cell
      /\ IntegrateHit(c, time, timeout).hit = IF time < c.seen THEN c.hit ELSE time
      /\ time < c.seen => IntegrateHit(c, time, timeout) = c
  <2> DEFINE first == IF c.first < 0 THEN time ELSE c.first
             hits == IF c.first < 0 THEN 1 ELSE Smaller(c.hits + 1, ConfirmHits)
             confirmed == timeout = 0 \/ (hits >= ConfirmHits /\ time - first >= ConfirmTime)
             odds == ClampOdds(c.odds + HitOdds)
             hit == [c EXCEPT !.odds = odds, !.first = first, !.hits = hits,
                              !.hit = time, !.seen = time, !.static = @ \/ confirmed]
  <2>0. c.odds + HitOdds \in Int /\ c.first \in Int /\ c.hits + 1 \in Int /\ ConfirmHits \in Int
    BY FusionAssumption DEF Cell
  <2>5. odds \in Int
    BY <1>2, <2>0
  <2>6. Smaller(c.hits + 1, ConfirmHits) \in Int
    BY <1>1, <2>0
  <2>1. odds \in Int /\ first \in Int /\ hits \in Int
    BY <2>0, <2>5, <2>6
  <2>2. IntegrateHit(c, time, timeout) = IF time < c.seen THEN c ELSE hit
    BY DEF IntegrateHit
  <2> HIDE DEF odds, first, hits, confirmed
  <2>3. PICK static \in BOOLEAN : static = (c.static \/ confirmed)
    BY Zenon
  <2>7. hit = [c EXCEPT !.odds = odds, !.first = first, !.hits = hits,
                        !.hit = time, !.seen = time, !.static = static]
    BY <2>3
  <2> HIDE DEF hit
  <2>8. hit = [odds |-> odds, first |-> first, hit |-> time, free |-> c.free,
               seen |-> time, hits |-> hits, static |-> static]
    BY <2>7 DEF Cell
  <2>9. c.free \in Int /\ time \in Int
    BY DEF Cell
  <2>4. hit \in Cell /\ hit.hit = time
    BY <2>1, <2>8, <2>9 DEF Cell
  <2> QED
    BY <2>2, <2>4
<1> QED
  BY <1>4, <1>5

LEMMA IntegrateIs ==
  ASSUME NEW f, SoundFusion(f), NEW time \in Nat,
         NEW free \in SUBSET Voxels, NEW occupied \in SUBSET Voxels
  PROVE  LET r == IntegrateScan(f, free, occupied, time)
         IN  /\ SoundFusion(r.fusion)
             /\ CountsOccupied(f) /\ LapsesOnce(f) => CountsOccupied(r.fusion)
             /\ AreChanges(r.transitions)
             /\ After(OccupiedKeys(f), r.transitions) = OccupiedKeys(r.fusion)
<1> DEFINE decayed == Decay(f, time)
           d == decayed.fusion
           Next1(v) == IF v \in free THEN IntegrateFree(d.cells[v], time, d.now, d.timeout)
                       ELSE IF v \in occupied THEN IntegrateHit(d.cells[v], time, d.timeout)
                       ELSE d.cells[v]
           cells == [v \in Voxels |-> Next1(v)]
           heeded == {v \in occupied : d.timeout > 0 /\ d.cells[v].seen <= time}
           more == d.expirations (+) SetToBag({Deadline(v, time) : v \in heeded})
           s == [d EXCEPT !.cells = cells, !.expirations = more]
           t == Transitions(OccupiedKeys(d), OccupiedKeys(s))
           g == [s EXCEPT !.occupied_count = Counted(@, t)]
<1>1. /\ SoundFusion(d) /\ (CountsOccupied(f) /\ LapsesOnce(f) => CountsOccupied(d))
      /\ AreChanges(decayed.transitions)
      /\ After(OccupiedKeys(f), decayed.transitions) = OccupiedKeys(d)
  BY DecayIs
<1>2. /\ IntegrateScan(f, free, occupied, time).fusion = g
      /\ IntegrateScan(f, free, occupied, time).transitions = Merged(t, decayed.transitions)
  BY DEF IntegrateScan
<1> HIDE DEF d
<1>3. /\ d \in Fusions /\ d.now \in Nat /\ d.timeout \in Nat /\ d.occupied_count \in Int
      /\ d.expirations \in DeadlineBags
      /\ \A v \in Voxels : d.cells[v] \in Cell
  BY <1>1 DEF SoundFusion, Fusions
<1>4. \A v \in Voxels :
        /\ Next1(v) \in Cell
        /\ DynamicOccupied(Next1(v), d.now, d.timeout) =>
             \/ DynamicOccupied(d.cells[v], d.now, d.timeout) /\ Next1(v).hit = d.cells[v].hit
             \/ v \in heeded /\ Next1(v).hit = time
  <2> SUFFICES ASSUME NEW v \in Voxels
               PROVE  /\ Next1(v) \in Cell
                      /\ DynamicOccupied(Next1(v), d.now, d.timeout) =>
                           \/ /\ DynamicOccupied(d.cells[v], d.now, d.timeout)
                              /\ Next1(v).hit = d.cells[v].hit
                           \/ v \in heeded /\ Next1(v).hit = time
    OBVIOUS
  <2>1. d.cells[v] \in Cell
    BY <1>3
  <2>2. CASE v \in free
    <3> DEFINE c == d.cells[v]
               n == IntegrateFree(c, time, d.now, d.timeout)
    <3>1. Next1(v) = n
      BY <2>2
    <3>2. c \in Cell /\ d.now \in Nat /\ d.timeout \in Nat
      BY <1>3
    <3> HIDE DEF Next1, c
    <3>3. /\ n \in Cell
          /\ DynamicOccupied(n, d.now, d.timeout) =>
               DynamicOccupied(c, d.now, d.timeout) /\ n.hit = c.hit
      <4> DEFINE w == d.now
                 u == d.timeout
      <4>1. w \in Nat /\ u \in Nat
        BY <3>2
      <4> HIDE DEF w, u
      <4>2. IntegrateFree(c, time, w, u) \in Cell
        BY <3>2, <4>1, IntegratedCell
      <4>3. DynamicOccupied(IntegrateFree(c, time, w, u), w, u) =>
              DynamicOccupied(c, w, u) /\ IntegrateFree(c, time, w, u).hit = c.hit
        BY <3>2, <4>1, IntegratedCell
      <4> QED
        BY <4>2, <4>3 DEF w, u
    <3> HIDE DEF n
    <3> QED
      BY <3>1, <3>3 DEF c
  <2>3. CASE v \notin free /\ v \in occupied
    <3>1. Next1(v) = IntegrateHit(d.cells[v], time, d.timeout)
      BY <2>3
    <3>2. DynamicOccupied(Next1(v), d.now, d.timeout) => d.timeout > 0
      BY DEF DynamicOccupied
    <3>3. d.cells[v].seen \in Int
      BY <2>1 DEF Cell
    <3> DEFINE c == d.cells[v]
               n == IntegrateHit(c, time, d.timeout)
    <3> HIDE DEF Next1
    <3>6. /\ n \in Cell
          /\ n.hit = IF time < c.seen THEN c.hit ELSE time
          /\ time < c.seen => n = c
      <4>1. c \in Cell /\ d.now \in Nat /\ d.timeout \in Nat
        BY <1>3
      <4> DEFINE w == d.now
                 u == d.timeout
      <4>2. w \in Nat /\ u \in Nat
        BY <4>1
      <4> HIDE DEF c, w, u
      <4>3. IntegrateHit(c, time, u) \in Cell
        BY <4>1, <4>2, IntegratedCell
      <4>4. IntegrateHit(c, time, u).hit = IF time < c.seen THEN c.hit ELSE time
        BY <4>1, <4>2, IntegratedCell
      <4>5. time < c.seen => IntegrateHit(c, time, u) = c
        BY <4>1, <4>2, IntegratedCell
      <4> QED
        BY <4>3, <4>4, <4>5 DEF u
    <3>4. /\ Next1(v) \in Cell
          /\ Next1(v).hit = IF time < d.cells[v].seen THEN d.cells[v].hit ELSE time
          /\ time < d.cells[v].seen => Next1(v) = d.cells[v]
      BY <3>1, <3>6
    <3>5. ~(time < d.cells[v].seen) => d.cells[v].seen <= time
      BY <3>3
    <3> QED
      BY <2>3, <3>2, <3>4, <3>5
  <2>4. CASE v \notin free /\ v \notin occupied
    <3>1. Next1(v) = d.cells[v]
      BY <2>4
    <3> HIDE DEF Next1
    <3> QED
      BY <2>1, <3>1
  <2> QED
    BY <2>2, <2>3, <2>4
<1>5. heeded \subseteq Voxels
  OBVIOUS
<1> HIDE DEF Next1, heeded
<1>6. /\ cells \in [Voxels -> Cell] /\ more \in DeadlineBags
      /\ \A e : BagIn(e, more) <=> BagIn(e, d.expirations) \/ e \in {Deadline(v, time) : v \in heeded}
  <2>1. {Deadline(v, time) : v \in heeded} \in SUBSET [key: Voxels, hit: Int]
    BY <1>5 DEF Deadline
  <2> QED
    BY <1>3, <1>4, <2>1, DeadlinesAdded
<1> HIDE DEF more, cells
<1>7. /\ s \in Fusions /\ s.cells = cells /\ s.now = d.now /\ s.timeout = d.timeout
      /\ s.expirations = more /\ s.occupied_count = d.occupied_count
  BY <1>3, <1>6 DEF Fusions
<1> HIDE DEF s
<1>8. /\ AreChanges(t) /\ After(OccupiedKeys(d), t) = OccupiedKeys(s)
      /\ CountsOccupied(d) => Counted(d.occupied_count, t) = Cardinality(OccupiedKeys(s))
      /\ Counted(d.occupied_count, t) \in Int
  <2>1. OccupiedKeys(d) \in SUBSET Voxels /\ OccupiedKeys(s) \in SUBSET Voxels
    BY DEF OccupiedKeys
  <2>2. /\ AreChanges(t) /\ After(OccupiedKeys(d), t) = OccupiedKeys(s)
        /\ Counted(Cardinality(OccupiedKeys(d)), t) = Cardinality(OccupiedKeys(s))
        /\ \A count \in Int : Counted(count, t) \in Int
    BY <2>1, TransitionsAre
  <2> HIDE DEF t
  <2>3. Counted(d.occupied_count, t) \in Int
    BY <1>3, <2>2
  <2> QED
    BY <2>2, <2>3 DEF CountsOccupied
<1> HIDE DEF t
<1>9. /\ g \in Fusions /\ g.cells = cells /\ g.now = d.now /\ g.timeout = d.timeout
      /\ g.expirations = more /\ g.occupied_count = Counted(d.occupied_count, t)
  <2>1. Counted(s.occupied_count, t) \in Int
    BY <1>7, <1>8
  <2> QED
    BY <1>7, <1>8, <2>1 DEF Fusions
<1> HIDE DEF g
<1>10. OccupiedKeys(g) = OccupiedKeys(s)
  BY <1>7, <1>9 DEF OccupiedKeys
<1>11. Watched(g)
  <2> SUFFICES ASSUME NEW v \in Voxels, DynamicOccupied(g.cells[v], g.now, g.timeout)
               PROVE  BagIn(Deadline(v, g.cells[v].hit), g.expirations)
    BY DEF Watched
  <2>1. g.cells[v] = Next1(v) /\ g.now = d.now /\ g.timeout = d.timeout /\ g.expirations = more
    BY <1>9 DEF cells
  <2>2. CASE DynamicOccupied(d.cells[v], d.now, d.timeout) /\ Next1(v).hit = d.cells[v].hit
    <3>1. BagIn(Deadline(v, d.cells[v].hit), d.expirations)
      BY <1>1, <2>2 DEF SoundFusion, Watched
    <3> QED
      BY <1>6, <2>1, <2>2, <3>1
  <2>3. CASE v \in heeded /\ Next1(v).hit = time
    BY <1>6, <2>1, <2>3
  <2> QED
    BY <1>4, <2>1, <2>2, <2>3
<1>12. SoundFusion(g)
  BY <1>9, <1>11 DEF SoundFusion
<1>14. CountsOccupied(f) /\ LapsesOnce(f) => CountsOccupied(g)
  BY <1>1, <1>8, <1>9, <1>10 DEF CountsOccupied
<1>13. /\ AreChanges(Merged(t, decayed.transitions))
       /\ After(OccupiedKeys(f), Merged(t, decayed.transitions)) = OccupiedKeys(g)
  BY <1>1, <1>8, <1>10, MergedIs
<1> QED
  BY <1>2, <1>12, <1>13, <1>14

-----------------------------------------------------------------------------
(* The server.                                                             *)

IsScan(p) ==
  p.stamp \in Nat /\ p.free \in SUBSET Voxels /\ p.occupied \in SUBSET Voxels

DroneRecord ==
  [boot: Int, connected: BOOLEAN, subscription: Int, lost: BOOLEAN, started: BOOLEAN,
   generation: Int, reset_generation: Nat, last_stamp: Nat, keys: SUBSET Voxels,
   worker_generation: Int, local_fusion: Fusions]

(* What the worker inserted and has not shown yet, of this reset.          *)
Pending(m, w) ==
  IF w.at = "inserted" /\ w.reset_generation = m.reset_generation
  THEN w.changes ELSE NoChanges

(* A local map is that of one session.  The worker's generation is never   *)
(* ahead of the resets, so that a reset always makes it an old one.        *)
LocalMap(m, w) ==
  /\ m \in DroneRecord
  /\ SoundFusion(m.local_fusion)
  /\ m.worker_generation <= m.reset_generation
  /\ w.at = "taken" /\ w.pending.item = "scan" => IsScan(w.pending)
  /\ w.at = "inserted" =>
       /\ IsScan(w.pending)
       /\ AreChanges(w.changes)
       /\ w.reset_generation \in Nat
       /\ w.reset_generation <= m.reset_generation
       /\ w.reset_generation = m.reset_generation => m.worker_generation = m.reset_generation
  /\ IF m.worker_generation = m.reset_generation
     THEN After(m.keys, Pending(m, w)) = OccupiedKeys(m.local_fusion)
     ELSE m.keys = {}

LocalMaps ==
  /\ drones \in [Drones -> DroneRecord]
  /\ workers = [d \in Drones |-> workers[d]]
  /\ pending_map_clouds = [d \in Drones |-> pending_map_clouds[d]]
  /\ \A d \in Drones : LocalMap(drones[d], workers[d])
  /\ \A d \in Drones : pending_map_clouds[d].item = "scan" => IsScan(pending_map_clouds[d])

IInv == config.timeout \in Nat /\ clock \in Nat /\ LocalMaps /\ SoundFusion(global_fusion)

(* What is published, which depends on the count of the global map.        *)
GlobalMap ==
  /\ CountsOccupied(global_fusion)
  /\ AreChanges(pending_global_changes)
  /\ serializer # Idle => AreChanges(serializer.changes)
  /\ cloud \in [keys: SUBSET Voxels, current: BOOLEAN]
  /\ PublishedFollowsGlobal

-----------------------------------------------------------------------------
(* The session of a drone changes.                                         *)

SameMap(m, n) ==
  /\ n \in DroneRecord
  /\ n.local_fusion = m.local_fusion /\ n.keys = m.keys
  /\ n.reset_generation = m.reset_generation /\ n.worker_generation = m.worker_generation

LEMMA SameMapIsLocal ==
  ASSUME NEW m, NEW n, NEW w, LocalMap(m, w), SameMap(m, n)
  PROVE  LocalMap(n, w)
BY DEF LocalMap, SameMap, Pending

LEMMA ResetIsLocal ==
  ASSUME NEW m, NEW w, LocalMap(m, w)
  PROVE  LocalMap(Reset(m), w)
<1> DEFINE n == Reset(m)
<1>1. m \in DroneRecord /\ m.generation + 1 \in Int /\ m.reset_generation + 1 \in Nat
  BY DEF LocalMap, DroneRecord
<1>2. n = [m EXCEPT !.generation = m.generation + 1, !.last_stamp = 0, !.keys = {},
                    !.reset_generation = m.reset_generation + 1]
  BY <1>1 DEF Reset, DroneRecord
<1> HIDE DEF n
<1>3. /\ n \in DroneRecord
      /\ n.local_fusion = m.local_fusion /\ n.keys = {}
      /\ n.worker_generation = m.worker_generation
      /\ n.reset_generation = m.reset_generation + 1
  BY <1>1, <1>2 DEF DroneRecord
<1>4. m.reset_generation \in Nat /\ m.worker_generation \in Int
  BY <1>1 DEF DroneRecord
<1>5. /\ n.worker_generation <= n.reset_generation
      /\ n.worker_generation # n.reset_generation
  BY <1>3, <1>4 DEF LocalMap
<1>6. w.at = "inserted" => w.reset_generation < n.reset_generation
  BY <1>3, <1>4 DEF LocalMap
<1>7. w.at = "inserted" => /\ w.reset_generation <= n.reset_generation
                           /\ w.reset_generation # n.reset_generation
  BY <1>3, <1>4, <1>6 DEF LocalMap
<1> QED
  BY <1>3, <1>5, <1>7 DEF LocalMap, n

LEMMA ReportedIsLocal ==
  ASSUME NEW m, NEW w, LocalMap(m, w), NEW boot \in Int, NEW r, r.boot = boot
  PROVE  LocalMap(Reported(m, r), w)
<1> DEFINE reset == [Reset(m) EXCEPT !.subscription = -1]
           fresh == IF m.boot \notin {0, boot} THEN reset ELSE m
           n == Rebooted(m, boot)
<1>1. LocalMap(reset, w)
  <2>1. LocalMap(Reset(m), w) /\ Reset(m) \in DroneRecord
    BY ResetIsLocal DEF LocalMap
  <2>2. SameMap(Reset(m), reset)
    BY <2>1 DEF SameMap, DroneRecord
  <2> QED
    BY <2>1, <2>2, SameMapIsLocal
<1> HIDE DEF reset
<1>2. LocalMap(n, w) /\ n \in DroneRecord
  <2>1. n = [fresh EXCEPT !.boot = boot]
    BY DEF Rebooted, reset
  <2>2. LocalMap(fresh, w) /\ fresh \in DroneRecord
    BY <1>1 DEF LocalMap
  <2> HIDE DEF fresh
  <2>3. SameMap(fresh, n)
    BY <2>1, <2>2 DEF SameMap, DroneRecord
  <2> QED
    BY <2>2, <2>3, SameMapIsLocal DEF LocalMap
<1> HIDE DEF n
<1>3. LocalMap(Connected(n), w)
  <2> DEFINE up == IF n.connected THEN n
                   ELSE [n EXCEPT !.generation = @ + 1, !.connected = TRUE]
  <2>1. up \in DroneRecord /\ SameMap(n, up)
    <3> DEFINE begun == [n EXCEPT !.generation = @ + 1, !.connected = TRUE]
    <3>1. n.generation + 1 \in Int
      BY <1>2 DEF DroneRecord
    <3> DEFINE next == n.generation + 1
    <3>2. begun = [n EXCEPT !.generation = next, !.connected = TRUE] /\ next \in Int
      BY <1>2, <3>1 DEF DroneRecord
    <3> HIDE DEF begun, next
    <3>5. n \in DroneRecord
      BY <1>2
    <3>7. begun = [boot |-> n.boot, connected |-> TRUE, subscription |-> n.subscription,
                   lost |-> n.lost, started |-> n.started, generation |-> next,
                   reset_generation |-> n.reset_generation, last_stamp |-> n.last_stamp,
                   keys |-> n.keys, worker_generation |-> n.worker_generation,
                   local_fusion |-> n.local_fusion]
      BY <3>2, <3>5 DEF DroneRecord
    <3>6. begun \in DroneRecord
      BY <3>2, <3>5, <3>7 DEF DroneRecord
    <3>3. SameMap(n, begun)
      BY <3>6, <3>7 DEF SameMap
    <3>4. up \in {n, begun}
      BY DEF begun
    <3> HIDE DEF up
    <3> QED
      BY <1>2, <3>3, <3>4 DEF SameMap
  <2>2. Connected(n) = [up EXCEPT !.lost = FALSE, !.started = TRUE,
                 !.subscription = IF @ = -1 THEN up.generation ELSE @]
    BY DEF Connected
  <2> HIDE DEF up
  <2>3. SameMap(up, Connected(n))
    BY <2>1, <2>2 DEF SameMap, DroneRecord
  <2> QED
    BY <1>2, <2>1, <2>3, SameMapIsLocal
<1>4. LocalMap(Disconnected(n), w)
  <2> DEFINE down == [n EXCEPT !.generation = @ + 1, !.connected = FALSE,
                               !.subscription = -1, !.lost = TRUE]
  <2>1. SameMap(n, down)
    <3> DEFINE next == n.generation + 1
    <3>1. next \in Int /\ n \in DroneRecord
      BY <1>2 DEF DroneRecord
    <3>2. down = [n EXCEPT !.generation = next, !.connected = FALSE,
                           !.subscription = -1, !.lost = TRUE]
      BY <1>2 DEF DroneRecord
    <3> HIDE DEF down, next
    <3>3. down = [boot |-> n.boot, connected |-> FALSE, subscription |-> -1,
                  lost |-> TRUE, started |-> n.started, generation |-> next,
                  reset_generation |-> n.reset_generation, last_stamp |-> n.last_stamp,
                  keys |-> n.keys, worker_generation |-> n.worker_generation,
                  local_fusion |-> n.local_fusion]
      BY <3>1, <3>2 DEF DroneRecord
    <3>4. down \in DroneRecord
      BY <3>1, <3>3 DEF DroneRecord
    <3> QED
      BY <3>3, <3>4 DEF SameMap
  <2>2. LocalMap(down, w)
    BY <1>2, <2>1, SameMapIsLocal
  <2>3. Disconnected(n) \in {n, down, Reset(down)}
    BY DEF Disconnected
  <2> HIDE DEF down
  <2> QED
    BY <1>2, <2>2, <2>3, ResetIsLocal
<1>5. Reported(m, r) \in {Connected(n), Disconnected(n)}
  BY DEF Reported, n
<1> QED
  BY <1>3, <1>4, <1>5

LEMMA SessionsAreLocal ==
  ASSUME LocalMaps, OnSwarmState \/ ExpireRetainedSubmaps
  PROVE  LocalMaps'
<1>1. /\ drones' = [d \in Drones |-> drones'[d]]
      /\ \A d \in Drones : LocalMap(drones'[d], workers[d])
  <2>1. CASE OnSwarmState
    <3>1. PICK state \in [Drones -> [boot : Sessions, up : BOOLEAN]] :
            drones' = [d \in Drones |-> Reported(drones[d], state[d])]
      BY <2>1 DEF OnSwarmState
    <3>2. \A d \in Drones : state[d].boot \in Int
      BY DEF Sessions
    <3>3. \A d \in Drones : LocalMap(drones[d], workers[d])
      BY DEF LocalMaps
    <3>4. \A d \in Drones : LocalMap(Reported(drones[d], state[d]), workers[d])
      BY <3>2, <3>3, ReportedIsLocal
    <3> QED
      BY <3>1, <3>4
  <2>2. CASE ExpireRetainedSubmaps
    <3>1. PICK expired :
            drones' = [d \in Drones |-> IF d \in expired
                                        THEN [Reset(drones[d]) EXCEPT !.lost = FALSE]
                                        ELSE drones[d]]
      BY <2>2 DEF ExpireRetainedSubmaps
    <3>2. ASSUME NEW d \in Drones
          PROVE  LocalMap(drones'[d], workers[d])
      <4> DEFINE m == drones[d]
                 n == [Reset(m) EXCEPT !.lost = FALSE]
      <4>1. LocalMap(m, workers[d])
        BY DEF LocalMaps
      <4> HIDE DEF m
      <4>2. LocalMap(Reset(m), workers[d]) /\ Reset(m) \in DroneRecord
        BY <4>1, ResetIsLocal DEF LocalMap
      <4>3. SameMap(Reset(m), n)
        BY <4>2 DEF SameMap, DroneRecord
      <4>4. LocalMap(n, workers[d])
        BY <4>2, <4>3, SameMapIsLocal
      <4>5. drones'[d] = n \/ drones'[d] = m
        BY <3>1 DEF m
      <4> HIDE DEF n
      <4> QED
        BY <4>1, <4>4, <4>5
    <3> QED
      BY <3>1, <3>2
  <2> QED
    BY <2>1, <2>2
<1>2. workers' = workers /\ pending_map_clouds' = Marked(drones')
  BY DEF OnSwarmState, ExpireRetainedSubmaps
<1>3. \A d \in Drones : drones'[d] \in DroneRecord
  BY <1>1 DEF LocalMap
<1>4. drones' \in [Drones -> DroneRecord]
  BY <1>1, <1>3
<1>5. /\ pending_map_clouds' = [d \in Drones |-> pending_map_clouds'[d]]
      /\ \A d \in Drones : pending_map_clouds'[d].item = "scan" => IsScan(pending_map_clouds'[d])
  <2>1. \A d \in Drones :
          \/ pending_map_clouds'[d] = pending_map_clouds[d]
          \/ pending_map_clouds'[d].item = "reset"
    BY <1>2 DEF Marked, Marker
  <2>2. pending_map_clouds' = [d \in Drones |-> pending_map_clouds'[d]]
    BY <1>2 DEF Marked
  <2> QED
    BY <2>1, <2>2 DEF LocalMaps
<1> QED
  BY <1>1, <1>2, <1>4, <1>5 DEF LocalMaps

-----------------------------------------------------------------------------
(* The other steps of the local maps.                                      *)

LEMMA CloudIsLocal ==
  ASSUME LocalMaps, NEW d \in Drones, OnMapCloud(d), clock \in Nat
  PROVE  LocalMaps'
<1>1. PICK stamp \in drones[d].last_stamp + 1 .. clock, free, occupied \in SUBSET Voxels :
        pending_map_clouds' = [pending_map_clouds EXCEPT ![d] =
            [item |-> "scan", generation |-> drones[d].subscription, stamp |-> stamp,
             free |-> free, occupied |-> occupied]]
  BY DEF OnMapCloud
<1>2. drones[d].last_stamp \in Nat
  BY DEF LocalMaps, DroneRecord
<1>3. stamp \in Nat
  BY <1>1, <1>2
<1> DEFINE scan == [item |-> "scan", generation |-> drones[d].subscription, stamp |-> stamp,
                    free |-> free, occupied |-> occupied]
<1>4. IsScan(scan)
  BY <1>3 DEF IsScan
<1> HIDE DEF scan
<1>5. /\ pending_map_clouds' = [e \in Drones |-> pending_map_clouds'[e]]
      /\ \A e \in Drones : pending_map_clouds'[e] = IF e = d THEN scan ELSE pending_map_clouds[e]
  <2>1. pending_map_clouds' = [pending_map_clouds EXCEPT ![d] = scan]
    BY <1>1 DEF scan
  <2>2. pending_map_clouds = [e \in Drones |-> pending_map_clouds[e]]
    BY DEF LocalMaps
  <2> QED
    BY <2>1, <2>2
<1>6. drones' = drones /\ workers' = workers
  BY DEF OnMapCloud
<1> QED
  BY <1>4, <1>5, <1>6 DEF LocalMaps

(* A step of one drone's worker that keeps what is queued for it.          *)
LEMMA WorkerIsLocal ==
  ASSUME LocalMaps, NEW d \in Drones, NEW m, NEW w, LocalMap(m, w),
         workers' = [workers EXCEPT ![d] = w],
         drones' = [drones EXCEPT ![d] = m],
         pending_map_clouds' = pending_map_clouds
  PROVE  LocalMaps'
<1>1. m \in DroneRecord
  BY DEF LocalMap
<1>2. /\ drones' \in [Drones -> DroneRecord]
      /\ \A e \in Drones : drones'[e] = IF e = d THEN m ELSE drones[e]
  BY <1>1 DEF LocalMaps
<1>3. /\ workers' = [e \in Drones |-> workers'[e]]
      /\ \A e \in Drones : workers'[e] = IF e = d THEN w ELSE workers[e]
  <2>1. workers = [e \in Drones |-> workers[e]]
    BY DEF LocalMaps
  <2> QED
    BY <2>1
<1> QED
  BY <1>2, <1>3 DEF LocalMaps

LEMMA TakingIsLocal ==
  ASSUME LocalMaps, NEW d \in Drones, WorkerTakes(d)
  PROVE  LocalMaps'
<1> DEFINE w == [at |-> "taken", pending |-> pending_map_clouds[d]]
           m == drones[d]
<1>1. /\ workers[d] = Idle /\ workers' = [workers EXCEPT ![d] = w] /\ drones' = drones
      /\ pending_map_clouds' = [pending_map_clouds EXCEPT ![d] = None]
  BY DEF WorkerTakes
<1>2. LocalMap(m, Idle) /\ (pending_map_clouds[d].item = "scan" => IsScan(pending_map_clouds[d]))
  BY <1>1 DEF LocalMaps
<1>3. w.at = "taken" /\ w.pending = pending_map_clouds[d] /\ Idle.at = "idle"
  BY DEF Idle
<1> HIDE DEF w, m
<1>4. LocalMap(m, w)
  BY <1>2, <1>3 DEF LocalMap, Pending
<1>5. /\ workers' = [e \in Drones |-> workers'[e]]
      /\ \A e \in Drones : workers'[e] = IF e = d THEN w ELSE workers[e]
  <2>1. workers = [e \in Drones |-> workers[e]]
    BY DEF LocalMaps
  <2> QED
    BY <1>1, <2>1
<1>6. /\ pending_map_clouds' = [e \in Drones |-> pending_map_clouds'[e]]
      /\ \A e \in Drones : pending_map_clouds'[e] = IF e = d THEN None ELSE pending_map_clouds[e]
  <2>1. pending_map_clouds = [e \in Drones |-> pending_map_clouds[e]]
    BY DEF LocalMaps
  <2> QED
    BY <1>1, <2>1
<1>7. None.item # "scan"
  BY DEF None
<1> QED
  BY <1>1, <1>4, <1>5, <1>6, <1>7 DEF LocalMaps, m

LEMMA RenewedIsLocal ==
  ASSUME NEW m, NEW w, LocalMap(m, w), w.at # "inserted", config.timeout \in Nat
  PROVE  /\ LocalMap(Renewed(m), Idle)
         /\ Renewed(m).worker_generation = Renewed(m).reset_generation
<1> DEFINE n == Renewed(m)
           begun == [m EXCEPT !.local_fusion = NoFusion(config.timeout),
                              !.worker_generation = m.reset_generation]
<1>1. m \in DroneRecord /\ m.reset_generation \in Int
  BY DEF LocalMap, DroneRecord
<1>2. /\ SoundFusion(NoFusion(config.timeout)) /\ NoFusion(config.timeout) \in Fusions
      /\ OccupiedKeys(NoFusion(config.timeout)) = {}
  BY NoFusionIs DEF SoundFusion
<1>3. /\ begun \in DroneRecord /\ begun.local_fusion = NoFusion(config.timeout)
      /\ begun.keys = m.keys /\ begun.worker_generation = m.reset_generation
      /\ begun.reset_generation = m.reset_generation
  BY <1>1, <1>2 DEF DroneRecord
<1>4. n = IF m.worker_generation = m.reset_generation THEN m ELSE begun
  BY DEF Renewed
<1>5. Idle.at = "idle" /\ Pending(m, w) = NoChanges /\ \A x : Pending(x, Idle) = NoChanges
  BY DEF Idle, Pending
<1> HIDE DEF begun, n
<1>6. CASE m.worker_generation = m.reset_generation
  BY <1>1, <1>4, <1>5, <1>6 DEF LocalMap, n
<1>7. CASE m.worker_generation # m.reset_generation
  <2>1. m.keys = {}
    BY <1>7 DEF LocalMap
  <2>2. After({}, NoChanges) = {}
    BY AfterNothing
  <2>3. n = begun
    BY <1>4, <1>7
  <2> QED
    BY <1>1, <1>2, <1>3, <1>5, <2>1, <2>2, <2>3 DEF LocalMap, n
<1> QED
  BY <1>6, <1>7

LEMMA InsertingIsLocal ==
  ASSUME LocalMaps, NEW d \in Drones, WorkerInserts(d), config.timeout \in Nat
  PROVE  LocalMaps'
<1> DEFINE p == workers[d].pending
           m == Renewed(drones[d])
           scanned == IntegrateScan(m.local_fusion, p.free, p.occupied, p.stamp)
           n == [m EXCEPT !.local_fusion = scanned.fusion]
           w == [at |-> "inserted", pending |-> p, changes |-> scanned.transitions,
                 reset_generation |-> m.reset_generation]
<1>1. /\ workers[d].at = "taken" /\ pending_map_clouds' = pending_map_clouds
      /\ \/ workers' = [workers EXCEPT ![d] = Idle] /\ drones' = drones
         \/ workers' = [workers EXCEPT ![d] = Idle] /\ drones' = [drones EXCEPT ![d] = m]
         \/ /\ p.item = "scan"
            /\ workers' = [workers EXCEPT ![d] = w]
            /\ drones' = [drones EXCEPT ![d] = n]
  BY DEF WorkerInserts
<1>2. LocalMap(drones[d], workers[d]) /\ drones \in [Drones -> DroneRecord]
  BY DEF LocalMaps
<1>3. LocalMap(m, Idle) /\ m.worker_generation = m.reset_generation
  BY <1>1, <1>2, RenewedIsLocal
<1>4. \A x : Pending(x, Idle) = NoChanges
  BY DEF Idle, Pending
<1>5. LocalMap(drones[d], Idle)
  <2>1. Pending(drones[d], workers[d]) = NoChanges
    BY <1>1 DEF Pending
  <2>2. Idle.at = "idle"
    BY DEF Idle
  <2> QED
    BY <1>2, <1>4, <2>1, <2>2 DEF LocalMap
<1>6. drones = [drones EXCEPT ![d] = drones[d]]
  BY <1>2
<1>7. ASSUME p.item = "scan"
      PROVE  LocalMap(n, w)
  <2>1. IsScan(p)
    BY <1>1, <1>2, <1>7 DEF LocalMap
  <2> HIDE DEF p, m
  <2>2. m \in DroneRecord /\ SoundFusion(m.local_fusion) /\ m.reset_generation \in Nat
    BY <1>3 DEF LocalMap, DroneRecord
  <2>3. /\ SoundFusion(scanned.fusion) /\ AreChanges(scanned.transitions)
        /\ After(OccupiedKeys(m.local_fusion), scanned.transitions) = OccupiedKeys(scanned.fusion)
    BY <2>1, <2>2, IntegrateIs DEF IsScan
  <2>4. After(m.keys, NoChanges) = OccupiedKeys(m.local_fusion)
    BY <1>3, <1>4 DEF LocalMap
  <2>5. m.keys = OccupiedKeys(m.local_fusion)
    BY <2>4, AfterNothing
  <2>6. /\ w.at = "inserted" /\ w.pending = p /\ w.changes = scanned.transitions
        /\ w.reset_generation = m.reset_generation
    OBVIOUS
  <2> HIDE DEF scanned, w
  <2>7. /\ n \in DroneRecord /\ n.local_fusion = scanned.fusion /\ n.keys = m.keys
        /\ n.reset_generation = m.reset_generation /\ n.worker_generation = m.worker_generation
    <3>1. scanned.fusion \in Fusions
      BY <2>3 DEF SoundFusion
    <3> QED
      BY <2>2, <3>1 DEF DroneRecord
  <2> HIDE DEF n
  <2>8. Pending(n, w) = scanned.transitions
    BY <2>6, <2>7 DEF Pending
  <2>9. m.worker_generation <= m.reset_generation /\ m.reset_generation <= m.reset_generation
    BY <1>3, <2>2
  <2> QED
    BY <1>3, <2>1, <2>2, <2>3, <2>5, <2>6, <2>7, <2>8, <2>9 DEF LocalMap
<1> HIDE DEF p, m, n, w
<1> QED
  BY <1>1, <1>3, <1>5, <1>6, <1>7, WorkerIsLocal

LEMMA ApplyingIsLocal ==
  ASSUME LocalMaps, NEW d \in Drones, WorkerApplies(d)
  PROVE  LocalMaps'
<1> DEFINE w == workers[d]
           m == drones[d]
           keys == After(m.keys, w.changes)
           n == [m EXCEPT !.keys = keys, !.last_stamp = w.pending.stamp]
<1>1. LocalMap(m, w) /\ m \in DroneRecord /\ drones \in [Drones -> DroneRecord]
  BY DEF LocalMaps
<1>2. /\ w.at = "inserted" /\ pending_map_clouds' = pending_map_clouds
      /\ workers' = [workers EXCEPT ![d] = Idle]
  BY DEF WorkerApplies
<1>3. \A x : Pending(x, Idle) = NoChanges
  BY DEF Idle, Pending
<1>4. Idle.at = "idle"
  BY DEF Idle
<1>5. CASE w.reset_generation = m.reset_generation
  <2>1. drones' = [drones EXCEPT ![d] = n]
    <3>1. drones' = [drones EXCEPT ![d].keys = After(@, w.changes),
                                   ![d].last_stamp = w.pending.stamp]
      BY <1>5 DEF WorkerApplies
    <3> QED
      BY <1>1, <3>1 DEF DroneRecord
  <2> HIDE DEF w, m
  <2>2. /\ m.worker_generation = m.reset_generation
        /\ w.pending.stamp \in Nat /\ AreChanges(w.changes)
        /\ keys = OccupiedKeys(m.local_fusion)
    <3>1. Pending(m, w) = w.changes
      BY <1>2, <1>5 DEF Pending
    <3> QED
      BY <1>1, <1>2, <1>5, <3>1 DEF LocalMap, IsScan
  <2>3. keys \in SUBSET Voxels
    BY <2>2 DEF OccupiedKeys
  <2> HIDE DEF keys
  <2>4. /\ n \in DroneRecord /\ n.local_fusion = m.local_fusion /\ n.keys = keys
        /\ n.reset_generation = m.reset_generation /\ n.worker_generation = m.worker_generation
    BY <1>1, <2>2, <2>3 DEF DroneRecord
  <2> HIDE DEF n
  <2>5. LocalMap(n, Idle)
    BY <1>1, <1>3, <1>4, <2>2, <2>4, AfterNothing DEF LocalMap
  <2> QED
    BY <1>2, <2>1, <2>5, WorkerIsLocal
<1>6. CASE w.reset_generation # m.reset_generation
  <2>1. drones' = drones
    BY <1>6 DEF WorkerApplies
  <2>2. drones = [drones EXCEPT ![d] = m]
    BY <1>1
  <2>3. Pending(m, w) = NoChanges
    BY <1>6 DEF Pending
  <2> HIDE DEF w, m
  <2>4. LocalMap(m, Idle)
    BY <1>1, <1>3, <1>4, <2>3 DEF LocalMap
  <2> QED
    BY <1>2, <2>1, <2>2, <2>4, WorkerIsLocal
<1> QED
  BY <1>5, <1>6

-----------------------------------------------------------------------------
(* The global map.                                                         *)

(* Changes of the fused map that are queued for the publishers.            *)
LEMMA QueuedIsGlobal ==
  ASSUME GlobalMap, NEW f, CountsOccupied(f), NEW changes, AreChanges(changes),
         After(OccupiedKeys(global_fusion), changes) = OccupiedKeys(f),
         global_fusion' = f,
         pending_global_changes' = Merged(changes, pending_global_changes),
         octree' = octree, serializer' = serializer,
         cloud' \in [keys: SUBSET Voxels, current: BOOLEAN],
         cloud'.current => cloud'.keys = OccupiedKeys(f)
  PROVE  GlobalMap'
<1> DEFINE tree == IF serializer = Idle THEN octree
                   ELSE Updated(octree, serializer.changes, serializer.empty)
<1>1. /\ AreChanges(pending_global_changes')
      /\ After(tree, pending_global_changes') = After(After(tree, pending_global_changes), changes)
  BY MergedIs DEF GlobalMap
<1>2. After(tree, pending_global_changes) = OccupiedKeys(global_fusion)
  BY DEF GlobalMap, PublishedFollowsGlobal, SerializedSoon
<1>3. SerializedSoon' = After(tree, pending_global_changes')
  BY DEF SerializedSoon, Updated, After, On
<1> HIDE DEF tree
<1>4. SerializedSoon' = OccupiedKeys(global_fusion')
  BY <1>1, <1>2, <1>3
<1>5. (cloud.current => cloud.keys = OccupiedKeys(global_fusion))'
  OBVIOUS
<1> QED
  BY <1>1, <1>4, <1>5 DEF GlobalMap, PublishedFollowsGlobal

LEMMA ApplyingIsGlobal ==
  ASSUME IInv, GlobalMap, LapsesOnce(global_fusion), NEW d \in Drones, WorkerApplies(d)
  PROVE  GlobalMap'
<1> DEFINE w == workers[d]
           scanned == IntegrateScan(global_fusion, w.pending.free, w.pending.occupied,
                                    w.pending.stamp)
<1>1. SoundFusion(global_fusion) /\ LocalMap(drones[d], w) /\ w.at = "inserted"
  BY DEF IInv, LocalMaps, WorkerApplies
<1>2. IsScan(w.pending)
  BY <1>1 DEF LocalMap
<1>3. CASE w.reset_generation = drones[d].reset_generation
  <2>1. /\ global_fusion' = scanned.fusion
        /\ pending_global_changes' = Merged(scanned.transitions, pending_global_changes)
        /\ cloud' = [cloud EXCEPT !.current = @ /\ scanned.transitions = NoChanges]
        /\ octree' = octree /\ serializer' = serializer
    BY <1>3 DEF WorkerApplies, QueueGlobalChanges
  <2> HIDE DEF w
  <2>2. /\ CountsOccupied(scanned.fusion) /\ AreChanges(scanned.transitions)
        /\ After(OccupiedKeys(global_fusion), scanned.transitions) = OccupiedKeys(scanned.fusion)
    BY <1>1, <1>2, IntegrateIs DEF GlobalMap, IsScan
  <2> HIDE DEF scanned
  <2>3. PICK current \in BOOLEAN : current = (cloud.current /\ scanned.transitions = NoChanges)
    BY Zenon
  <2>4. cloud \in [keys: SUBSET Voxels, current: BOOLEAN]
    BY <1>1 DEF GlobalMap
  <2>5. cloud' = [keys |-> cloud.keys, current |-> current]
    BY <2>1, <2>3, <2>4
  <2>6. cloud' \in [keys: SUBSET Voxels, current: BOOLEAN]
    BY <2>4, <2>5
  <2>7. ASSUME cloud'.current
        PROVE  cloud'.keys = OccupiedKeys(scanned.fusion)
    <3>1. cloud.current /\ scanned.transitions = NoChanges
      BY <2>3, <2>5, <2>7
    <3>2. cloud.keys = OccupiedKeys(global_fusion)
      BY <1>1, <3>1 DEF GlobalMap, PublishedFollowsGlobal
    <3>3. After(OccupiedKeys(global_fusion), NoChanges) = OccupiedKeys(global_fusion)
      BY AfterNothing
    <3> QED
      BY <2>2, <2>5, <3>1, <3>2, <3>3
  <2> QED
    BY <1>1, <2>1, <2>2, <2>6, <2>7, QueuedIsGlobal
<1>4. CASE w.reset_generation # drones[d].reset_generation
  <2>1. UNCHANGED <<global_fusion, pending_global_changes, cloud, octree, serializer>>
    BY <1>4 DEF WorkerApplies
  <2> QED
    BY <1>1, <2>1 DEF GlobalMap, PublishedFollowsGlobal, SerializedSoon, AreChanges
<1> QED
  BY <1>3, <1>4

LEMMA PublishingIsGlobal ==
  ASSUME IInv, GlobalMap, LapsesOnce(global_fusion), PublishMaps
  PROVE  GlobalMap'
<1> DEFINE decayed == Decay(global_fusion, clock)
           same == cloud.current /\ decayed.transitions = NoChanges
<1>1. /\ global_fusion' = decayed.fusion
      /\ pending_global_changes' = Merged(decayed.transitions, pending_global_changes)
      /\ cloud' = [keys |-> IF same THEN cloud.keys ELSE OccupiedKeys(decayed.fusion),
                   current |-> TRUE]
      /\ octree' = octree /\ serializer' = serializer
  BY DEF PublishMaps
<1>2. SoundFusion(global_fusion) /\ clock \in Nat
  BY DEF IInv
<1>3. /\ CountsOccupied(decayed.fusion) /\ AreChanges(decayed.transitions)
      /\ After(OccupiedKeys(global_fusion), decayed.transitions) = OccupiedKeys(decayed.fusion)
  BY <1>2, DecayIs DEF GlobalMap
<1> HIDE DEF decayed
<1>4. same => cloud.keys = OccupiedKeys(decayed.fusion)
  <2>1. same => OccupiedKeys(decayed.fusion) = OccupiedKeys(global_fusion)
    BY <1>3, AfterNothing
  <2> QED
    BY <1>2, <2>1 DEF GlobalMap, PublishedFollowsGlobal
<1>5. cloud' = [keys |-> OccupiedKeys(decayed.fusion), current |-> TRUE]
  BY <1>1, <1>4
<1>6. OccupiedKeys(decayed.fusion) \in SUBSET Voxels
  BY DEF OccupiedKeys
<1>7. /\ cloud' \in [keys: SUBSET Voxels, current: BOOLEAN]
      /\ cloud'.current => cloud'.keys = OccupiedKeys(decayed.fusion)
  BY <1>5, <1>6
<1> QED
  BY <1>1, <1>2, <1>3, <1>7, QueuedIsGlobal

LEMMA SwappingIsGlobal ==
  ASSUME GlobalMap, SerializerSwaps
  PROVE  GlobalMap'
<1> DEFINE swapped == [at |-> "swapped", changes |-> pending_global_changes,
                       empty |-> Empty(global_fusion)]
<1>1. /\ serializer = Idle /\ serializer' = swapped /\ pending_global_changes' = NoChanges
      /\ UNCHANGED <<global_fusion, cloud, octree>>
  BY DEF SerializerSwaps
<1>2. /\ swapped.changes = pending_global_changes
      /\ swapped.empty <=> global_fusion.occupied_count = 0
      /\ swapped.at = "swapped" /\ Idle.at = "idle"
  BY DEF Empty, Idle
<1> HIDE DEF swapped
<1>3. swapped # Idle
  BY <1>2
<1>4. Empty(global_fusion) => OccupiedKeys(global_fusion) = {}
  <2>1. global_fusion.occupied_count = Cardinality(OccupiedKeys(global_fusion))
    BY DEF GlobalMap, CountsOccupied
  <2>2. OccupiedKeys(global_fusion) \subseteq Voxels
    BY DEF OccupiedKeys
  <2>3. IsFiniteSet(OccupiedKeys(global_fusion))
    BY <2>2, FusionAssumption, FS_Subset
  <2> QED
    BY <2>1, <2>3, FS_EmptySet DEF Empty
<1>5. After(octree, pending_global_changes) = OccupiedKeys(global_fusion)
  BY <1>1 DEF GlobalMap, PublishedFollowsGlobal, SerializedSoon
<1>6. Updated(octree, swapped.changes, swapped.empty) = OccupiedKeys(global_fusion)
  BY <1>2, <1>4, <1>5 DEF Updated, Empty
<1>7. SerializedSoon' = After(Updated(octree, swapped.changes, swapped.empty), NoChanges)
  BY <1>1, <1>3 DEF SerializedSoon, Updated, After, On
<1>8. SerializedSoon' = OccupiedKeys(global_fusion')
  BY <1>1, <1>6, <1>7, AfterNothing
<1>9. (serializer # Idle => AreChanges(serializer.changes))'
  BY <1>1, <1>2 DEF GlobalMap, AreChanges
<1>10. AreChanges(pending_global_changes')
  BY <1>1, NoneAreChanges
<1> QED
  BY <1>1, <1>8, <1>9, <1>10 DEF GlobalMap, PublishedFollowsGlobal

LEMMA UpdatingIsGlobal ==
  ASSUME GlobalMap, SerializerUpdates
  PROVE  GlobalMap'
<1>1. /\ serializer.at = "swapped" /\ serializer' = Idle
      /\ octree' = Updated(octree, serializer.changes, serializer.empty)
      /\ UNCHANGED <<global_fusion, pending_global_changes, cloud>>
  BY DEF SerializerUpdates
<1>2. serializer # Idle
  BY <1>1 DEF Idle
<1>3. SerializedSoon' = After(octree', pending_global_changes)
  BY <1>1 DEF SerializedSoon, After, On
<1>4. SerializedSoon' = SerializedSoon
  BY <1>1, <1>2, <1>3 DEF SerializedSoon
<1> QED
  BY <1>1, <1>4 DEF GlobalMap, PublishedFollowsGlobal, AreChanges

-----------------------------------------------------------------------------
(* The inductive invariant.                                                *)

LEMMA Initially == Init => IInv /\ GlobalMap
<1> SUFFICES ASSUME Init PROVE IInv /\ GlobalMap
  OBVIOUS
<1>1. /\ config.timeout \in Nat /\ clock = 1
      /\ drones = [d \in Drones |-> NewDrone(config.timeout)]
      /\ pending_map_clouds = [d \in Drones |-> None]
      /\ workers = [d \in Drones |-> Idle]
      /\ global_fusion = NoFusion(config.timeout) /\ pending_global_changes = NoChanges
      /\ cloud = [keys |-> {}, current |-> FALSE] /\ octree = {} /\ serializer = Idle
  BY DEF Init
<1>2. /\ SoundFusion(NoFusion(config.timeout)) /\ CountsOccupied(NoFusion(config.timeout))
      /\ OccupiedKeys(NoFusion(config.timeout)) = {}
  BY <1>1, NoFusionIs
<1> DEFINE m == NewDrone(config.timeout)
           fusion == NoFusion(config.timeout)
<1>3. fusion \in Fusions
  BY <1>2 DEF SoundFusion
<1>4. m = [boot |-> 0, connected |-> FALSE, subscription |-> -1, lost |-> FALSE,
           started |-> FALSE, generation |-> 0, reset_generation |-> 0, last_stamp |-> 0,
           keys |-> {}, worker_generation |-> -1, local_fusion |-> fusion]
  BY DEF NewDrone
<1> HIDE DEF m, fusion
<1>5. /\ m \in DroneRecord /\ m.local_fusion = fusion /\ m.keys = {}
      /\ m.worker_generation = -1 /\ m.reset_generation = 0
  BY <1>3, <1>4 DEF DroneRecord
<1>6. Idle.at = "idle" /\ None.item = "none"
  BY DEF Idle, None
<1>7. LocalMap(m, Idle)
  BY <1>2, <1>5, <1>6 DEF LocalMap, fusion
<1>8. LocalMaps
  BY <1>1, <1>5, <1>6, <1>7 DEF LocalMaps, m
<1>9. GlobalMap
  BY <1>1, <1>2, AfterNothing, NoneAreChanges DEF GlobalMap, PublishedFollowsGlobal, SerializedSoon
<1> QED
  BY <1>1, <1>2, <1>8, <1>9 DEF IInv

LEMMA ApplyingIsSound ==
  ASSUME IInv, NEW d \in Drones, WorkerApplies(d)
  PROVE  SoundFusion(global_fusion)'
<1> DEFINE w == workers[d]
           scanned == IntegrateScan(global_fusion, w.pending.free, w.pending.occupied,
                                    w.pending.stamp)
<1>1. SoundFusion(global_fusion) /\ IsScan(w.pending)
  BY DEF IInv, LocalMaps, LocalMap, WorkerApplies
<1>2. global_fusion' \in {global_fusion, scanned.fusion}
  BY DEF WorkerApplies
<1> HIDE DEF w
<1>3. SoundFusion(scanned.fusion)
  BY <1>1, IntegrateIs DEF IsScan
<1> QED
  BY <1>1, <1>2, <1>3

LEMMA Inductive == IInv /\ [Next]_vars => IInv'
<1> SUFFICES ASSUME IInv, [Next]_vars PROVE IInv'
  OBVIOUS
<1>1. config.timeout \in Nat /\ clock \in Nat /\ LocalMaps /\ SoundFusion(global_fusion)
  BY DEF IInv
<1> DEFINE Locals == <<drones, pending_map_clouds, workers>>
<1>2. UNCHANGED global_fusion => SoundFusion(global_fusion)'
  BY <1>1
<1>3. UNCHANGED Locals => LocalMaps'
  BY <1>1 DEF LocalMaps
<1>4. CASE OnSwarmState \/ ExpireRetainedSubmaps
  <2>1. UNCHANGED <<config, clock>> /\ UNCHANGED global_fusion
    BY <1>4 DEF OnSwarmState, ExpireRetainedSubmaps
  <2> QED
    BY <1>1, <1>2, <1>4, <2>1, SessionsAreLocal DEF IInv
<1>5. ASSUME NEW d \in Drones, OnMapCloud(d)
      PROVE  IInv'
  <2>1. UNCHANGED <<config, clock>> /\ UNCHANGED global_fusion
    BY <1>5 DEF OnMapCloud
  <2> QED
    BY <1>1, <1>2, <1>5, <2>1, CloudIsLocal DEF IInv
<1>6. ASSUME NEW d \in Drones, WorkerTakes(d)
      PROVE  IInv'
  <2>1. UNCHANGED <<config, clock>> /\ UNCHANGED global_fusion
    BY <1>6 DEF WorkerTakes
  <2> QED
    BY <1>1, <1>2, <1>6, <2>1, TakingIsLocal DEF IInv
<1>7. ASSUME NEW d \in Drones, WorkerInserts(d)
      PROVE  IInv'
  <2>1. UNCHANGED <<config, clock>> /\ UNCHANGED global_fusion
    BY <1>7 DEF WorkerInserts
  <2> QED
    BY <1>1, <1>2, <1>7, <2>1, InsertingIsLocal DEF IInv
<1>8. ASSUME NEW d \in Drones, WorkerApplies(d)
      PROVE  IInv'
  <2>1. UNCHANGED <<config, clock>>
    BY <1>8 DEF WorkerApplies
  <2> QED
    BY <1>1, <1>8, <2>1, ApplyingIsLocal, ApplyingIsSound DEF IInv
<1>9. CASE PublishMaps
  <2>1. UNCHANGED <<config, clock>> /\ UNCHANGED Locals
    BY <1>9 DEF PublishMaps
  <2> QED
    BY <1>1, <1>3, <1>9, <2>1, DecayIs DEF IInv, PublishMaps
<1>10. CASE SerializerSwaps
  <2>1. UNCHANGED <<config, clock>> /\ UNCHANGED Locals /\ UNCHANGED global_fusion
    BY <1>10 DEF SerializerSwaps
  <2> QED
    BY <1>1, <1>2, <1>3, <2>1 DEF IInv
<1>11. CASE SerializerUpdates
  <2>1. UNCHANGED <<config, clock>> /\ UNCHANGED Locals /\ UNCHANGED global_fusion
    BY <1>11 DEF SerializerUpdates
  <2> QED
    BY <1>1, <1>2, <1>3, <2>1 DEF IInv
<1>12. CASE Tick
  <2>1. clock' = clock + 1 /\ config' = config /\ UNCHANGED Locals /\ UNCHANGED global_fusion
    BY <1>12 DEF Tick
  <2> QED
    BY <1>1, <1>2, <1>3, <2>1 DEF IInv
<1>13. CASE UNCHANGED vars
  <2>1. UNCHANGED <<config, clock>> /\ UNCHANGED Locals /\ UNCHANGED global_fusion
    BY <1>13 DEF vars
  <2> QED
    BY <1>1, <1>2, <1>3, <2>1 DEF IInv
<1> QED
  BY <1>4, <1>5, <1>6, <1>7, <1>8, <1>9, <1>10, <1>11, <1>12, <1>13 DEF Next

LEMMA GlobalInductive ==
  IInv /\ GlobalMap /\ LapsesOnce(global_fusion) /\ [Next]_vars => GlobalMap'
<1> SUFFICES ASSUME IInv, GlobalMap, LapsesOnce(global_fusion), [Next]_vars
             PROVE  GlobalMap'
  OBVIOUS
<1> DEFINE Globals == <<global_fusion, pending_global_changes, cloud, octree, serializer>>
<1>1. UNCHANGED Globals => GlobalMap'
  BY DEF GlobalMap, CountsOccupied, PublishedFollowsGlobal, SerializedSoon, AreChanges
<1>2. CASE OnSwarmState \/ ExpireRetainedSubmaps \/ Tick \/ UNCHANGED vars
  BY <1>1, <1>2 DEF OnSwarmState, ExpireRetainedSubmaps, Tick, vars
<1>3. ASSUME NEW d \in Drones, OnMapCloud(d) \/ WorkerTakes(d) \/ WorkerInserts(d)
      PROVE  GlobalMap'
  BY <1>1, <1>3 DEF OnMapCloud, WorkerTakes, WorkerInserts
<1>4. ASSUME NEW d \in Drones, WorkerApplies(d)
      PROVE  GlobalMap'
  BY <1>4, ApplyingIsGlobal
<1>5. CASE PublishMaps
  BY <1>5, PublishingIsGlobal
<1>6. CASE SerializerSwaps \/ SerializerUpdates
  BY <1>6, SwappingIsGlobal, UpdatingIsGlobal
<1> QED
  BY <1>2, <1>3, <1>4, <1>5, <1>6 DEF Next

LEMMA Invariant == Spec => []IInv
BY Initially, Inductive, PTL DEF Spec

LEMMA GlobalInvariant == Spec /\ []LapsesOnce(global_fusion) => []GlobalMap
BY Initially, Inductive, GlobalInductive, PTL DEF Spec


-----------------------------------------------------------------------------
(* Where every voxel lapses once.                                          *)

(* Without a temporal layer there are no deadlines.                        *)
Untimed(f) == f.timeout = 0 /\ DOMAIN f.expirations = {}

LEMMA UntimedStays ==
  ASSUME NEW f \in Fusions, Untimed(f), NEW time, NEW free, NEW occupied
  PROVE  Untimed(Decay(f, time).fusion) /\ Untimed(IntegrateScan(f, free, occupied, time).fusion)
<1> DEFINE d == Decay(f, time).fusion
           more == {Deadline(v, time) : v \in {v \in occupied : d.timeout > 0 /\ d.cells[v].seen <= time}}
           g == IntegrateScan(f, free, occupied, time).fusion
<1>1. d.timeout = 0 /\ d.expirations = Left(f, Larger(f.now, time)) /\ DOMAIN d = DOMAIN f
  BY DEF Decay, Fusions, Untimed
<1>2. DOMAIN d.expirations = {}
  BY <1>1 DEF Left, Untimed
<1> HIDE DEF d
<1>3. more = {}
  BY <1>1
<1>4. g.timeout = d.timeout /\ g.expirations = d.expirations (+) SetToBag(more)
  BY <1>1 DEF IntegrateScan, d, Fusions
<1> HIDE DEF more, g
<1>5. DOMAIN g.expirations = {}
  BY <1>2, <1>3, <1>4 DEF (+), SetToBag
<1> QED
  BY <1>1, <1>2, <1>4, <1>5 DEF Untimed, d, g

(* A hit lifts a voxel above the threshold, wherever the clamp left it.    *)
HitsOccupy == MaxOdds > OccupiedOdds /\ HitOdds - MinOdds > OccupiedOdds

AboveThreshold(c) == c.odds >= -MinOdds /\ (c.static => c.odds > OccupiedOdds)

ConfirmedAbove(f) == \A v \in Voxels : AboveThreshold(f.cells[v])

LEMMA CellStaysAbove ==
  ASSUME HitsOccupy, NEW c \in Cell, AboveThreshold(c), NEW time \in Nat, NEW now, NEW timeout
  PROVE  /\ AboveThreshold(IntegrateFree(c, time, now, timeout))
         /\ AboveThreshold(IntegrateHit(c, time, timeout))
<1>1. /\ c.odds \in Int /\ HitOdds \in Nat /\ MissOdds \in Nat /\ MinOdds \in Nat
      /\ MaxOdds \in Nat /\ OccupiedOdds \in Int
  BY FusionAssumption DEF Cell
<1>2. AboveThreshold(NoCell)
  BY <1>1 DEF NoCell, AboveThreshold
<1>3. AboveThreshold(IntegrateFree(c, time, now, timeout))
  <2> DEFINE odds == ClampOdds(c.odds - MissOdds)
             free == Larger(c.free, time)
             missed == [c EXCEPT !.odds = odds, !.free = free, !.seen = time,
                                 !.static = @ /\ odds > OccupiedOdds]
  <2>1. odds >= -MinOdds
    BY <1>1 DEF ClampOdds, Larger, Smaller
  <2>2. IntegrateFree(c, time, now, timeout) \in {c, NoCell, missed}
    BY DEF IntegrateFree
  <2> HIDE DEF odds, free
  <2>3. missed.odds = odds /\ (missed.static => odds > OccupiedOdds)
    <3>1. missed.odds = odds
      BY DEF Cell
    <3>2. missed.static = (c.static /\ odds > OccupiedOdds)
      BY Zenon DEF Cell
    <3> QED
      BY <3>1, <3>2
  <2> QED
    BY <1>2, <2>1, <2>2, <2>3 DEF AboveThreshold
<1>4. AboveThreshold(IntegrateHit(c, time, timeout))
  <2> DEFINE odds == ClampOdds(c.odds + HitOdds)
  <2>1. odds >= -MinOdds /\ odds > OccupiedOdds
    BY <1>1 DEF ClampOdds, Larger, Smaller, HitsOccupy, AboveThreshold
  <2>2. ~(time < c.seen) => IntegrateHit(c, time, timeout).odds = odds
    BY DEF IntegrateHit, Cell
  <2>3. time < c.seen => IntegrateHit(c, time, timeout) = c
    BY DEF IntegrateHit
  <2> HIDE DEF odds
  <2> QED
    BY <2>1, <2>2, <2>3 DEF AboveThreshold
<1> QED
  BY <1>3, <1>4

LEMMA MapStaysAbove ==
  ASSUME HitsOccupy, NEW f, SoundFusion(f), ConfirmedAbove(f), NEW time \in Nat,
         NEW free \in SUBSET Voxels, NEW occupied \in SUBSET Voxels
  PROVE  /\ ConfirmedAbove(Decay(f, time).fusion)
         /\ ConfirmedAbove(IntegrateScan(f, free, occupied, time).fusion)
<1> DEFINE d == Decay(f, time).fusion
           g == IntegrateScan(f, free, occupied, time).fusion
<1>1. \A v \in Voxels : d.cells[v] \in {f.cells[v], NoCell}
  BY DEF Decay, SoundFusion, Fusions
<1>2. AboveThreshold(NoCell)
  BY FusionAssumption DEF NoCell, AboveThreshold
<1>3. ConfirmedAbove(d)
  BY <1>1, <1>2 DEF ConfirmedAbove
<1>4. d \in Fusions
  BY DecayIs DEF SoundFusion
<1>5. \A v \in Voxels : g.cells[v] \in {IntegrateFree(d.cells[v], time, d.now, d.timeout),
                                        IntegrateHit(d.cells[v], time, d.timeout), d.cells[v]}
  BY <1>4 DEF IntegrateScan, Fusions
<1> HIDE DEF d, g
<1>6. ASSUME NEW v \in Voxels PROVE AboveThreshold(g.cells[v])
  <2>1. d.cells[v] \in Cell /\ AboveThreshold(d.cells[v])
    BY <1>3, <1>4 DEF ConfirmedAbove, Fusions
  <2>2. /\ AboveThreshold(IntegrateFree(d.cells[v], time, d.now, d.timeout))
        /\ AboveThreshold(IntegrateHit(d.cells[v], time, d.timeout))
    BY <2>1, CellStaysAbove
  <2> QED
    BY <1>5, <2>1, <2>2
<1> QED
  BY <1>3, <1>6 DEF ConfirmedAbove, d, g

(* The global map changes by a scan and by decay only.                     *)
LEMMA GlobalSteps ==
  ASSUME IInv, [Next]_vars
  PROVE  \/ global_fusion' = global_fusion
         \/ \E time \in Nat : global_fusion' = Decay(global_fusion, time).fusion
         \/ \E time \in Nat, free, occupied \in SUBSET Voxels :
              global_fusion' = IntegrateScan(global_fusion, free, occupied, time).fusion
<1>1. ASSUME NEW d \in Drones, WorkerApplies(d)
      PROVE  \/ global_fusion' = global_fusion
             \/ \E time \in Nat, free, occupied \in SUBSET Voxels :
                  global_fusion' = IntegrateScan(global_fusion, free, occupied, time).fusion
  <2> DEFINE p == workers[d].pending
  <2>1. IsScan(p)
    BY <1>1 DEF IInv, LocalMaps, LocalMap, WorkerApplies
  <2>2. global_fusion' \in
          {global_fusion, IntegrateScan(global_fusion, p.free, p.occupied, p.stamp).fusion}
    BY <1>1 DEF WorkerApplies
  <2> QED
    BY <2>1, <2>2 DEF IsScan
<1>2. CASE PublishMaps
  BY <1>2 DEF PublishMaps, IInv
<1>3. CASE ~(\E d \in Drones : WorkerApplies(d)) /\ ~PublishMaps
  BY <1>3 DEF Next, vars, OnSwarmState, ExpireRetainedSubmaps, OnMapCloud, WorkerTakes,
     WorkerInserts, SerializerSwaps, SerializerUpdates, Tick
<1> QED
  BY <1>1, <1>2, <1>3

-----------------------------------------------------------------------------
(* What is shown of a drone is what its own tree has gathered since the    *)
(* last reset of its contribution, however the resets of the executor fall *)
(* between the insertion of a scan and its application by the worker, and  *)
(* nothing as long as the worker has not begun the new tree.               *)
THEOREM LocalMapsAreOneSession == Spec => []LocalMapsAreTheirDrones
<1>1. IInv => LocalMapsAreTheirDrones
  <2> SUFFICES ASSUME IInv, NEW d \in Drones
               PROVE  IF drones[d].worker_generation = drones[d].reset_generation
                      THEN After(drones[d].keys, InHand(d)) = OccupiedKeys(drones[d].local_fusion)
                      ELSE drones[d].keys = {}
    BY DEF LocalMapsAreTheirDrones
  <2>1. InHand(d) = Pending(drones[d], workers[d])
    BY DEF InHand, Pending
  <2> QED
    BY <2>1 DEF IInv, LocalMaps, LocalMap
<1> QED
  BY <1>1, Invariant, PTL

(* The tree that is published, with the changes on their way to it, and    *)
(* the cloud that counts as up to date are the fused map, however scans,   *)
(* the expiry of hits and the two publishers follow each other, if every   *)
(* voxel lapses once.                                                      *)
THEOREM PublishedMapsFollow ==
  Spec /\ []LapsesOnce(global_fusion) => []PublishedFollowsGlobal
<1>1. GlobalMap => PublishedFollowsGlobal
  BY DEF GlobalMap
<1> QED
  BY <1>1, GlobalInvariant, PTL

(* Every hit that makes a voxel of the fused map occupied has a deadline   *)
(* under way which will end it, whatever the odds.                         *)
THEOREM EveryHitIsWatched == Spec => []Watched(global_fusion)
<1>1. IInv => Watched(global_fusion)
  BY DEF IInv, SoundFusion
<1> QED
  BY <1>1, Invariant, PTL

(* The number of occupied voxels that the fused map counts is the number   *)
(* it holds, by which the serializer knows an empty map, if every voxel    *)
(* lapses once.                                                            *)
THEOREM FusedMapIsCounted ==
  Spec /\ []LapsesOnce(global_fusion) => []CountsOccupied(global_fusion)
<1>1. GlobalMap => CountsOccupied(global_fusion)
  BY DEF GlobalMap
<1> QED
  BY <1>1, GlobalInvariant, PTL

(* By default there is no temporal layer: then the tree and the cloud are  *)
(* the fused map whatever the odds.                                        *)
THEOREM PublishedMapsFollowUntimed ==
  Spec /\ config.timeout = 0 => []PublishedFollowsGlobal
<1>1. Init /\ config.timeout = 0 => Untimed(global_fusion)
  BY DEF Init, NoFusion, Untimed, EmptyBag, SetToBag
<1>2. IInv /\ Untimed(global_fusion) /\ [Next]_vars => Untimed(global_fusion)'
  <2> SUFFICES ASSUME IInv, Untimed(global_fusion), [Next]_vars
               PROVE  Untimed(global_fusion)'
    OBVIOUS
  <2>1. global_fusion \in Fusions
    BY DEF IInv, SoundFusion
  <2> QED
    BY <2>1, GlobalSteps, UntimedStays
<1>3. Untimed(global_fusion) => LapsesOnce(global_fusion)
  BY DEF Untimed, LapsesOnce, BagIn, BagToSet
<1> QED
  BY <1>1, <1>2, <1>3, Invariant, PublishedMapsFollow, PTL DEF Spec

(* With one they are if a single hit lifts a voxel above the threshold,    *)
(* however often it was missed.                                            *)
THEOREM PublishedMapsFollowIfHitsOccupy ==
  ASSUME HitsOccupy
  PROVE  Spec => []PublishedFollowsGlobal
<1>1. Init => ConfirmedAbove(global_fusion)
  BY FusionAssumption DEF Init, NoFusion, NoCell, ConfirmedAbove, AboveThreshold
<1>2. IInv /\ ConfirmedAbove(global_fusion) /\ [Next]_vars => ConfirmedAbove(global_fusion)'
  <2> SUFFICES ASSUME IInv, ConfirmedAbove(global_fusion), [Next]_vars
               PROVE  ConfirmedAbove(global_fusion)'
    OBVIOUS
  <2>1. SoundFusion(global_fusion)
    BY DEF IInv
  <2> QED
    BY <2>1, GlobalSteps, MapStaysAbove
<1>3. IInv /\ ConfirmedAbove(global_fusion) => LapsesOnce(global_fusion)
  <2> SUFFICES ASSUME IInv, ConfirmedAbove(global_fusion), NEW v \in Voxels,
                      global_fusion.cells[v].static, global_fusion.cells[v].odds <= OccupiedOdds
               PROVE  FALSE
    BY DEF LapsesOnce
  <2>1. global_fusion.cells[v].odds \in Int /\ OccupiedOdds \in Int
    BY FusionAssumption DEF IInv, SoundFusion, Fusions, Cell
  <2> QED
    BY <2>1 DEF ConfirmedAbove, AboveThreshold
<1> QED
  BY <1>1, <1>2, <1>3, Invariant, PublishedMapsFollow, PTL DEF Spec
=============================================================================
