SPECIFICATION Spec
CONSTANTS
  Messages <- ChatCast
  Requests = {"show", "key", "ask", "cmd", "close"}
  MaxAsk <- TwoDoors
  MaxKeys = 1
  MaxFaults = 1
  Checker = TRUE
INVARIANTS Nesting Paired OlmsInOrder
PROPERTIES Answered
CHECK_DEADLOCK FALSE
