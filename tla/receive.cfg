CONSTANTS
  Base = 9
  MaxMessage = 34
  Keyframes <- MCKeyframes
  Pframes <- MCPframes
  Forms = {"annexb3", "avc"}
  Touches <- MCTouches
  MaxMessages = 4
SPECIFICATION Spec
INVARIANTS TypeOK TakesWhatWasWritten OnlyOversizeStops PicturesIntact SessionFitsPicture
PROPERTIES LastMessageTaken
CHECK_DEADLOCK FALSE
