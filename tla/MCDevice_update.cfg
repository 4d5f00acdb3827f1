SPECIFICATION FairSpec
CONSTANTS
  a = a
  b = b
  c = c
  x = x
  ff = ff
  jj = jj
  NPages = 2
  PageWords = 2
  Word <- MCWord
  Erased = ff
  Junk = jj
  MaxSwapPages = 3
  Signed <- ThreeImages
  Header <- MCHeader
  TargetDev = FALSE
  ResetKinds <- HardResets
  TornData = TRUE
  TornState = {"erase"}
  NoImage = NoImage
  AppCmds <- AppNone
INVARIANTS TypeOK NeverBricked AcceptedIsFinal AppConfined
PROPERTIES OneTrial RspTruthful Settles
