SPECIFICATION ScenarioSpec
CONSTANTS
  Voxels = {v1, v2}
  Drones = {d1, d2}
  Visitor = d1
  Landmark = v2
  HitOdds = 1
  MissOdds = 1
  MinOdds = 1
  MaxOdds = 2
  OccupiedOdds = 1
  ConfirmTime = 0
  ConfirmHits = 1
  MaxTime = 3
  MaxGeneration = 4
INVARIANTS LocalMapsAreTheirDrones PublishedFollowsGlobal
CHECK_DEADLOCK FALSE
