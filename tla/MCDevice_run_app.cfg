SPECIFICATION FairSpec
CONSTANTS
  a = a
  b = b
  c = c
  x = x
  ff = ff
  jj = jj
  NPages = 2
  PageWords = 2
  Word <- MCWord
  Erased = ff
  Junk = jj
  MaxSwapPages = 3
  Signed <- TwoImages
  Header <- MCHeader
  TargetDev = FALSE
  ResetKinds = {}
  TornData = FALSE
  TornState = {}
  NoImage = NoImage
  AppCmds <- AppRunApp

PROPERTIES RejectByRunApp
