\* One key, two jobs and a disconnect, two connections, two reconnect attempts.
CONSTANTS
  job = job
  bye = bye
  later = later
  k1 = k1
  Events = {job, bye, later}
  Signers = {k1}
  SignedBy <- MCSignedBy
  Channel <- MCChannel
  Torn = {}
  Job = {job, later}
  Disconnect = {bye}
  Capacity = 1
  MaxSent = 3
  MaxConnections = 2
  MaxReconnects = 2
  Rejected = Rejected
  Broken = Broken
  Nothing = Nothing
SPECIFICATION FairSpec
INVARIANT LoopTypeOK
INVARIANT JobsInOrder
PROPERTY GivesUpOrListens
PROPERTY ConsumedIsHandled
CHECK_DEADLOCK FALSE
