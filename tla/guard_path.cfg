\* The assertion of getPath().
SPECIFICATION Spec
CONSTANTS
  Places = {"a", "b", "c"}
  Routes <- MCRoutes
  Ahead = 1
  Frame = 1
  Stops = 3
INVARIANT MovingWhenFetched
