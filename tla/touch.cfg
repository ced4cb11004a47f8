CONSTANTS
  Fingers = {f1, f2}
  Points = {p, q}
  IdMod = 3
  MaxTaps = 4
  MaxQueue = 2
SPECIFICATION Spec
INVARIANTS TypeOK LegalTransitions ContactsAreFingers
CHECK_DEADLOCK FALSE
