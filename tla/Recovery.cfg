SPECIFICATION FairSpec
CONSTANTS
  NumDrones = 1
  MaxCommands = 1
  MaxRestarts = 1
PROPERTIES CriticalIsAnswered MembersRejoin
CHECK_DEADLOCK FALSE
