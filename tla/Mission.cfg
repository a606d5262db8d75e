SPECIFICATION ScenarioSpec
CONSTANTS
  NumDrones = 2
  MaxTargets = 1
  MaxRoutes = 3
  MaxCommands = 2
  MaxEvents = 1
  MaxReports = 1
  ReadersInOrder = TRUE
INVARIANTS NoForgottenRoute HomeAgreed RouteAgreed AcknowledgesItsBroadcast
VIEW Unpublished
CHECK_DEADLOCK FALSE
