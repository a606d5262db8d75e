SPECIFICATION DroneFairSpec
CONSTANTS
  Goals = {}
  NavGoals = {g1}
  MaxRequests = 2
INVARIANTS LandingStaysMulticopter
PROPERTIES LandIsCarriedOut GoalGetsItsMode
