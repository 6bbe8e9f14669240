CONSTANTS
  StackCapacity = 2
  QueueCapacity = 2
  Tokens <- MCTokens
  NoToken = NoToken
  Orders = {TRUE}
  MaxOpen = 2
  MaxId = 2
SPECIFICATION Spec
INVARIANT EnterIsNoop
CHECK_DEADLOCK FALSE
