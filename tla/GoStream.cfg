\* One stream and one unrelated connection; a channel of one event fills at once.
CONSTANTS
  opener = opener
  closer = closer
  reader = reader
  other = other
  Callers <- MCCallers
  Closers <- MCClosers
  App = opener
  Reader = reader
  Other = other
  MaxHandles = 2
  HandleBound = 2
  Buffer = 1
  NoConn = NoConn
SPECIFICATION GoSpec
INVARIANT GoTypeOK
INVARIANT ReleasedUnlessRaced
PROPERTY CloseReturns
CHECK_DEADLOCK FALSE
