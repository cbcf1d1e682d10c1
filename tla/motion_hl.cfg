\* The high level program as the only client, trajectories of up to three points.
SPECIFICATION FairSpec
CONSTANTS
  Capacity = 3
  Frames <- MCFrames
  Levels = {4}
  HighLevel = TRUE
INVARIANTS
  TypeOK
  AtRest
  LostMeansBraking
  Aimed
  CompleteHasEnd
PROPERTIES
  OkMeansArrived
  ErrorsKept
  TravelEnds
  LongOrdersAnswered
