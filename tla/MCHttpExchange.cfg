SPECIFICATION FairSpec
CONSTANTS
  FrameCap = 2
  Buffer = 1
  MaxBody = 3
  MaxFlushes = 2
  NoFrame = NoFrame
INVARIANTS
  HandledOnce
  CompleteIsWhole
  DeliveredIsKept
PROPERTIES
  ImplementsStream
  BlockedCallReturns
  LeavingIsSeen
