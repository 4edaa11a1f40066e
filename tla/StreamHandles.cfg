\* Two concurrent calls, a limit of two, five connections in all: one more than
\* the largest number the races let be open at once.
CONSTANTS
  Callers = {c1, c2}
  MaxHandles = 2
  HandleBound = 5
  NoConn = NoConn
SPECIFICATION Spec
SYMMETRY CallerSymmetry
INVARIANT ExclusiveOwnership
INVARIANT HandleNamesOneConnection
INVARIANT OvershootBounded
