\* All the plan, and the middle cube under the robot at any time.
SPECIFICATION Spec
CONSTANTS
  Croix = {1}
  Pattern <- OnePattern
  disableCubes = FALSE
  Touchable <- TheMiddle
  NbEssaiMax = 1
  NbEssaiPose = 3
  NbEssaiBouton = 2
INVARIANTS NothingInTheWay StillMeasures
PROPERTIES CubesAccounted ScriptEnds
\* exec() ends, or dies of a full pile.
CHECK_DEADLOCK FALSE
