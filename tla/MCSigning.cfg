SPECIFICATION Spec
CONSTANTS
  Poly <- MCPoly
  ByteBits = 3
  CharBits = 2
  Keys <- MCKeys
  NoKey = NoKey
  RootKey <- MCRoot
  MaxLen = 2
  Words <- MCWords
  Erased = 1
  WhatAt <- MCWhatAt
  NoWhat = NoWhat
  MaxDate = 1
  L1Key <- MCL1
  L2Key <- MCL2
  Quorums = {2, 3}
  Shares = 4
  Random <- MCRandom
  Salt <- MCSalt
  Codes <- MCCodes
CHECK_DEADLOCK FALSE
INVARIANTS Quorum AcceptedIffOrderly DamageRefused ToolAgrees
