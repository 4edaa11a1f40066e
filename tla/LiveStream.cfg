\* A channel of one, three arrivals per connection, two connections.
CONSTANTS
  e1 = e1
  e2 = e2
  later = later
  damaged = damaged
  k1 = k1
  k2 = k2
  Events = {e1, e2, later, damaged}
  Signers = {k1, k2}
  SignedBy <- MCSignedBy
  Channel <- MCChannel
  Torn = {damaged}
  Capacity = 1
  MaxSent = 3
  MaxConnections = 2
  Rejected = Rejected
  Broken = Broken
  Nothing = Nothing
SPECIFICATION FairStreamSpec
INVARIANT TypeOK
INVARIANT ReleasedIsPrefix
INVARIANT ReleasedOnce
INVARIANT SilentEndGivesAllRead
PROPERTY CloseReturns
CHECK_DEADLOCK FALSE
