SPECIFICATION FairSpec
CONSTANTS
  NumDrones = 1
  MaxCommands = 1
  MaxRestarts = 1
PROPERTIES BatterySafetyIsLocal
CHECK_DEADLOCK FALSE
