CONSTANTS
  Base = 9
  MaxMessage = 60
  Keyframes <- MCKeyframes
  Pframes <- MCLongSlices
  Forms = {"avc"}
  Touches <- MCTouches
  MaxMessages = 3
SPECIFICATION Spec
INVARIANT BothFormsNormalized
CHECK_DEADLOCK FALSE
