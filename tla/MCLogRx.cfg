SPECIFICATION Spec
CONSTANTS
  MaxCode = 7
  RxSize = 4
  MaxPacket = 8
  MaxPorts = 2
  Handlers = {0}
  Payloads <- MCPayloads
  Responses <- MCResponses
  Noise <- MCNoise
  MaxFrames = 2
  MaxTrouble = 1
  HostChunk = 2
  HostMax = 20
CHECK_DEADLOCK FALSE
INVARIANTS TypeOK RingTold CallsMatchStream AnswersTrue
PROPERTIES PeekStays FramesServed
