SPECIFICATION ReplySpec
CONSTANTS
  MaxOut = 3
  Cap = 2
  Codes = {204, 404, 999}
  NoHead = NoHead
INVARIANTS
  EndTells
  AnswersForItself
PROPERTIES
  ImplementsStreams
