CONSTANTS
  Mod = 16
  First = 12
  MaxFrame = 17
  Chunks <- MCChunks
SPECIFICATION Spec
INVARIANTS TypeOK ScreenIntact PartsIntact LossDiscardsOneFrame
PROPERTIES ImplementsChannel
CHECK_DEADLOCK FALSE
