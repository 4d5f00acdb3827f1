SPECIFICATION FairSpec
CONSTANTS
  Files <- FitOrNot
  SlotPages = 2
  WdtPages = 3
  FeedPages = 1
  Troubles <- Together
  MaxFrames = 3
INVARIANTS TypeOK OnlyWhole DoneIsTaken ProgramsErased
PROPERTIES RetriesSucceed
