SPECIFICATION ScenarioSpec
CONSTANTS
  Timeout = 1
  MaxAge = 9
  Distances = {1, 60, 70, 290, 300}
  MinRange = 70
INVARIANTS SilenceStops SupervisorPrevails ObstaclesAreAvoided ModeIsApplied
CHECK_DEADLOCK FALSE
