SPECIFICATION FairSpec
CONSTANTS
  Calls = {c1, c2}
  Budget = 2
  Slots = 1
  MaxBody = 2
  MaxFields = 1
  NoCall = NoCall
  NoReply = NoReply
INVARIANTS
  CallAccounted
  ReplyIsWhole
PROPERTIES
  ImplementsRpc
  CallEnds
