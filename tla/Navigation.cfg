SPECIFICATION ScenarioSpec
CONSTANTS
  Goals = {0, 1, 2, 3}
  MaxGoals = 3
  MaxTakeoffs = 1
INVARIANTS OneAutonomousIntent
PROPERTIES ServesOneGoalAtATime ChainEndsInHold GoalsInOrder EveryGoalSettles
