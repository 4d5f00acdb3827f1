SPECIFICATION Spec
CONSTANTS
  Size = 5
  MaxBytes = 12
  MaxMessage = 4
  Room = "indices"
  FaultAt <- Outside
PROPERTIES InOrder
