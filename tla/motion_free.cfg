\* Any client at any time, every order, trajectory control and manual control.
SPECIFICATION Spec
CONSTANTS
  Capacity = 2
  Frames <- SmallFrames
  Levels = {2, 4}
  HighLevel = FALSE
INVARIANTS
  IdleIndex
PROPERTIES
  OkMeansEnded
\* An edit that races with the interrupt hangs the main loop (EditOutOfRange).
CHECK_DEADLOCK FALSE
