SPECIFICATION Spec
CONSTANTS
  Commands <- MCCommands
  Disturbances = {"loss", "buttons"}
  UpMax = 1
  DownMax = 2
INVARIANTS TypeOK NeverIgnored
PROPERTIES OkMeansDone OrderAnswered
