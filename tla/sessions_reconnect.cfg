CONSTANTS
  Devices = {d1}
  MaxSessions = 2
SPECIFICATION Spec
PROPERTY ReconnectRegisters
CHECK_DEADLOCK FALSE
