CONSTANTS
  None = None
  A = A
  B = B
  Proxy = Proxy
  Window = 5
  MaxStep = 50
  DefaultRate <- TheRate
  Second = 4
  Millis = 10
  Fixed = 64
  SeqSpace = 16
  TsSpace = 256
  MaxFill = 2
  Sender <- TheSender
  Codec <- TheCodec
  Parties = {"a", "b"}
  Cdrs <- TheCdrs
  Length = 6
  Ptime = 2
  Delay = 3
  MaxFaults = 2
SPECIFICATION MediaSpec
INVARIANTS
  SteadyIsCalm
  KeepsTime
  PlayerPlays
CHECK_DEADLOCK FALSE
