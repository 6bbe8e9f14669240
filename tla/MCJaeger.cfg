CONSTANTS
  p1 = p1 p2 = p2
  Half = 2
  Process <- MCProcess
  Prefix <- MCPrefix
  Traces <- MCTraces
  Foreign <- MCForeign
  Sizes = {1, 4}
  Bytes <- MCBytes
  MaxPacket = 5
  MaxSpan = 5
SPECIFICATION FairSpec
INVARIANTS TypeOK SentUnlessTooLarge PacketsInOrder TreeConnects IdsUnique
PROPERTIES ReportReturns
CHECK_DEADLOCK FALSE
