\* Three travels and an enemy that goes anywhere.
SPECIFICATION FairSpec
CONSTANTS
  Places = {"a", "b", "c"}
  Routes <- MCRoutes
  Ahead = 1
  Frame = 1
  Stops = 3
INVARIANTS IndexInTrajectory ReadyToMove NeverBlind
PROPERTIES StopEndsTravel EnemyStops
