SPECIFICATION FairSpec
CONSTANTS
  NumDrones = 1
  MaxGenerations = 3
  Commands <- MCCommands
INVARIANTS NoOrphanGoal WaitsForRealGoals
PROPERTIES CanceledNeverSucceeds CancelEnds
