CONSTANTS
  StackCapacity = 2
  QueueCapacity = 2
  Tokens <- MCTokens
  NoToken = NoToken
  Orders = {TRUE, FALSE}
  MaxOpen = 3
  MaxId = 3
SPECIFICATION Spec
INVARIANTS TypeOK AssertionsHold TokenNamesInnermost ScopesWhole NeverMisattributed ParentsPrecede PropertiesOnTheirSpan
CHECK_DEADLOCK FALSE
