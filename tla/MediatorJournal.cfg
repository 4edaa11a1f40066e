\* Two workers on one journal, two jobs of which the server refuses one, and a job
\* identity used for two requests.
CONSTANTS
  Workers = {w1, w2}
  Jobs = {j1, j2}
  Digests = {d1, d2}
  Refused = {j1}
  NoAnswer = NoAnswer
  NoReply = NoReply
  NoRow = NoRow
SPECIFICATION FairSpec
INVARIANT TypeOK
INVARIANT MarkedWasAnswered
INVARIANT AnswersItsOwnRequest
PROPERTY ImplementsLedger
PROPERTY UnknownIsNotRetried
PROPERTY RepliesAreSent
