SPECIFICATION Spec
CONSTANTS
  MAX_SOCK_NUM = 2
  COMMAND_BUFFER_SIZE = 3
  COMMAND_MAX_DATA_SIZE = 254
  CHANNEL_MAX_NB = 32
  HEADER_BYTE = 255
  DEFAULT_SUSCRIPTION <- InfoAndError
  Commands <- SomeCommands
  MaxCuts = 1
  MaxEvents = 3
INVARIANTS TypeOK TracesKept FramesRead RefusesLast
PROPERTY ServesCommands
