CONSTANTS
  Devices = {d1, d2}
  MaxSessions = 2
SPECIFICATION Spec
INVARIANTS TypeOK RegistrarOutlivesSessions
PROPERTIES RegistrationServed
CHECK_DEADLOCK FALSE
