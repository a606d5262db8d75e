SPECIFICATION FairSpec
CONSTANTS
  Goals = {g1, g2}
INVARIANTS GoalsAreHeld
PROPERTIES ServesOneGoalAtATime LandingIsPX4s NoRearmAfterLanding CancelsEnd TransitionIsCommanded
