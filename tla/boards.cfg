\* Sensors that fail, addresses that get lost, and a line that may overflow.
SPECIFICATION Spec
CONSTANTS
  NB_SENSORS = 2
  MAX_POWERON_ATTEMPTS = 1
  Contexts <- MCContexts
  SerialSize = 2
INVARIANTS
  LightsFollow
  OwnMeasure
PROPERTIES
  DeathReported
  BoardsStart
\* The arm may give up, and then nothing starts.
CHECK_DEADLOCK FALSE
