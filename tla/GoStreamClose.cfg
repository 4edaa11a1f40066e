\* A Close that meets the poll of the read loop.
CONSTANTS
  opener = opener
  closer = closer
  reader = reader
  other = other
  Callers <- MCCallers
  Closers <- MCClosers
  App = opener
  Reader = reader
  Other = other
  MaxHandles = 2
  HandleBound = 2
  Buffer = 1
  NoConn = NoConn
SPECIFICATION GoSafetySpec
INVARIANT CloseTerminates
