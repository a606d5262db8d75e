SPECIFICATION ScenarioSpec
CONSTANTS
  NumDrones = 2
  MaxTargets = 2
  MaxRoutes = 4
  MaxCommands = 3
  MaxEvents = 2
INVARIANTS WaitsForSomeone NoTargetLost TargetInOnePlace EmergenciesFirst OneRouteAtATime
PROPERTIES ExcludedGetNoWork DetachedDronesAreTold DispatchEnds
CHECK_DEADLOCK FALSE
