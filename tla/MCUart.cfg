SPECIFICATION FairSpec
CONSTANTS
  Size = 5
  MaxBytes = 12
  MaxMessage = 4
  Room = "sent"
  FaultAt <- Outside
INVARIANTS TypeOK TransmitterOwned BufferTold
PROPERTIES InOrder StartsWhenStopped FlushDrains EverythingSent PanicEnds
