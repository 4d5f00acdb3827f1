SPECIFICATION Spec
CONSTANTS
  Files <- OneBlock
  SlotPages = 120
  WdtPages = 57
  FeedPages = 11
  Troubles = {{}}
  MaxFrames = 3
PROPERTIES StartAnswered
