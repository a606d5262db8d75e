SPECIFICATION ScenarioSpec
CONSTANTS
  Drones = {d1, d2}
  Watched = d1
  Limit = 1
PROPERTIES StopAllStops JoystickRegains
