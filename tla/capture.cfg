CONSTANTS
  Modes <- MCModes
  Buffers = 2
  MaxChanges = 4
SPECIFICATION Spec
INVARIANTS TypeOK PictureHasEncoderShape PlanesFilled
PROPERTIES FramesGetNewer RenderedIsEncoded PoolRecovers
CHECK_DEADLOCK FALSE
