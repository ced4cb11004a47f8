CONSTANTS
  Devices = {d1}
  MaxSessions = 1
SPECIFICATION Spec
PROPERTY DisconnectStopsWriter
CHECK_DEADLOCK FALSE
