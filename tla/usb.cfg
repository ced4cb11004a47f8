CONSTANTS
  Transports = {"usb", "network"}
  MaxClients = 2
  MaxServers = 2
  MaxQueue = 3
SPECIFICATION Spec
INVARIANTS TypeOK ShownIsCurrent OneConnectionPerClient
PROPERTIES LostLinkIsShown ServesOrEnds ListenerIsServed
CHECK_DEADLOCK FALSE
