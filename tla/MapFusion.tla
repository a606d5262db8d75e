------------------------------ MODULE MapFusion ------------------------------
(***************************************************************************)
(* global_map_fusion.cpp: what scans say of a set of voxels, kept for the  *)
(* global map and for the local map of each drone.  A fusion is a record,  *)
(* an operation gives the next one and the transitions of its voxels, a    *)
(* function from the voxels that changed to whether they are occupied.     *)
(*                                                                         *)
(* Log-odds are integers, 0 those of a voxel nobody has seen; times are    *)
(* whole numbers, -1 for never.  A voxel without a cell has the cell       *)
(* NoCell, which no observed voxel has.  The deadlines are a bag: each hit *)
(* adds one, and those of one voxel and one stamp are equal.               *)
(* An operator called Mistaken... is a wrong version of the definition     *)
(* after it, to see the properties fail; no specification uses it.         *)
(***************************************************************************)
EXTENDS Integers, FiniteSets, Bags

CONSTANTS
  Voxels,
  HitOdds, MissOdds,          \* what a hit adds and a miss takes away
  MaxOdds, MinOdds,           \* the clamps, above and below 0
  OccupiedOdds,               \* occupied_threshold_log_odds_
  ConfirmTime, ConfirmHits    \* static_confirmation_sec and _hits

ASSUME FusionAssumption ==
  /\ IsFiniteSet(Voxels)
  /\ HitOdds \in Nat /\ MissOdds \in Nat /\ MaxOdds \in Nat /\ MinOdds \in Nat
  /\ OccupiedOdds \in Int
  /\ ConfirmTime \in Nat /\ ConfirmHits \in Nat

Larger(a, b) == IF a > b THEN a ELSE b

Smaller(a, b) == IF a < b THEN a ELSE b

ClampOdds(odds) == Larger(-MinOdds, Smaller(MaxOdds, odds))

NoCell ==
  [odds |-> 0, first |-> -1, hit |-> -1, free |-> -1, seen |-> -1, hits |-> 0, static |-> FALSE]

NoFusion(timeout) ==
  [cells |-> [v \in Voxels |-> NoCell], now |-> 0, timeout |-> timeout,
   occupied_count |-> 0, expirations |-> EmptyBag]

StaticOccupied(c) == c.static /\ c.odds > OccupiedOdds

DynamicOccupied(c, at, timeout) ==
  c.hit >= 0 /\ c.hit >= c.free /\ timeout > 0 /\ at - c.hit <= timeout

Occupied(c, at, timeout) == StaticOccupied(c) \/ DynamicOccupied(c, at, timeout)

OccupiedKeys(f) == {v \in Voxels : Occupied(f.cells[v], f.now, f.timeout)}

Empty(f) == f.occupied_count = 0

-----------------------------------------------------------------------------
(* One voxel.  An observation older than the last one is ignored.          *)

IntegrateFree(c, time, now, timeout) ==
  LET odds == ClampOdds(c.odds - MissOdds)
      missed == [c EXCEPT !.odds = odds, !.free = Larger(@, time), !.seen = time,
                          !.static = @ /\ odds > OccupiedOdds]
      forgotten == ~Occupied(missed, now, timeout) /\ ~missed.static /\ odds <= OccupiedOdds
  IN  IF c = NoCell \/ time < c.seen THEN c
      ELSE IF forgotten THEN NoCell ELSE missed

(* Without a temporal layer a hit confirms at once.                        *)
IntegrateHit(c, time, timeout) ==
  LET first == IF c.first < 0 THEN time ELSE c.first
      hits == IF c.first < 0 THEN 1 ELSE Smaller(c.hits + 1, ConfirmHits)
      confirmed == timeout = 0 \/ (hits >= ConfirmHits /\ time - first >= ConfirmTime)
  IN  IF time < c.seen THEN c
      ELSE [c EXCEPT !.odds = ClampOdds(@ + HitOdds), !.first = first, !.hits = hits,
                     !.hit = time, !.seen = time, !.static = @ \/ confirmed]

-----------------------------------------------------------------------------
(* The whole map.                                                          *)

(* appendTransition, with its counter.                                     *)
Counted(count, transitions) ==
  LET on == {v \in DOMAIN transitions : transitions[v]}
  IN  Larger(0, count + Cardinality(on) - Cardinality(DOMAIN transitions \ on))

(* From one occupancy to another.                                          *)
Transitions(before, after) ==
  [v \in (before \ after) \cup (after \ before) |-> v \in after]

(* Of two transitions of one voxel the newer one counts.                   *)
Merged(newer, older) ==
  [v \in DOMAIN newer \cup DOMAIN older |-> IF v \in DOMAIN newer THEN newer[v] ELSE older[v]]

Deadline(v, stamp) == [key |-> v, hit |-> stamp]

Expired(f, now) ==
  {v \in Voxels : /\ BagIn(Deadline(v, f.cells[v].hit), f.expirations)
                  /\ f.cells[v].hit + f.timeout + 1 <= now}

Left(f, now) ==
  [e \in {e \in DOMAIN f.expirations : e.hit + f.timeout + 1 > now} |-> f.expirations[e]]

(* How often decay counts a voxel out: it is erased at its first deadline, *)
(* unless it is confirmed, when each deadline of the stamp counts again.   *)
Lapses(f, v) ==
  IF f.cells[v].static THEN f.expirations[Deadline(v, f.cells[v].hit)] ELSE 1

CountedOut(f, ended) ==
  Larger(0, f.occupied_count - Cardinality(UNION {{v} \X (1 .. Lapses(f, v)) : v \in ended}))

MistakenDecay(f, time) ==
  LET now == Larger(f.now, time)
      over == {v \in Expired(f, now) : ~Occupied(f.cells[v], now, f.timeout)}
      cells == [v \in Voxels |-> IF v \in over /\ ~f.cells[v].static THEN NoCell ELSE f.cells[v]]
      ended == {v \in over : Occupied(f.cells[v], now, f.timeout)}
  IN  [fusion |-> [f EXCEPT !.cells = cells, !.now = now,
                            !.occupied_count = CountedOut(f, ended),
                            !.expirations = Left(f, now)],
       transitions |-> Transitions(ended, {})]

(* decay: recent hits whose deadline has passed.                           *)
Decay(f, time) ==
  LET now == Larger(f.now, time)
      over == {v \in Expired(f, now) : ~Occupied(f.cells[v], now, f.timeout)}
      cells == [v \in Voxels |-> IF v \in over /\ ~f.cells[v].static THEN NoCell ELSE f.cells[v]]
      ended == {v \in over : Occupied(f.cells[v], f.now, f.timeout)}
  IN  [fusion |-> [f EXCEPT !.cells = cells, !.now = now,
                            !.occupied_count = CountedOut(f, ended),
                            !.expirations = Left(f, now)],
       transitions |-> Transitions(ended, {})]

(* integrateScan: the two sets are disjoint.                               *)
IntegrateScan(f, free, occupied, time) ==
  LET decayed == Decay(f, time)
      d == decayed.fusion
      cells == [v \in Voxels |->
                  IF v \in free THEN IntegrateFree(d.cells[v], time, d.now, d.timeout)
                  ELSE IF v \in occupied THEN IntegrateHit(d.cells[v], time, d.timeout)
                  ELSE d.cells[v]]
      heeded == {v \in occupied : d.timeout > 0 /\ d.cells[v].seen <= time}
      s == [d EXCEPT !.cells = cells,
                     !.expirations = @ (+) SetToBag({Deadline(v, time) : v \in heeded})]
      transitions == Transitions(OccupiedKeys(d), OccupiedKeys(s))
  IN  [fusion |-> [s EXCEPT !.occupied_count = Counted(@, transitions)],
       transitions |-> Merged(transitions, decayed.transitions)]

(* No confirmed voxel at or below the threshold has two deadlines of its   *)
(* last hit: Decay counts every voxel out once.                            *)
LapsesOnce(f) ==
  \A v \in Voxels :
    LET last == Deadline(v, f.cells[v].hit)
    IN  f.cells[v].static /\ f.cells[v].odds <= OccupiedOdds /\ BagIn(last, f.expirations) =>
          f.expirations[last] = 1
=============================================================================
