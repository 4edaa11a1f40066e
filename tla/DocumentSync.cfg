SPECIFICATION Spec
CONSTANTS
    m1 = m1
    h1 = h1
    c1 = c1
    c2 = c2
    Machines = {m1}
    Savers = {h1}
    Commands = {c1, c2}
    Skews <- MCSkews
    MaxVersions = 3
SYMMETRY Symmetry
INVARIANT NoUnreadOverwrite
INVARIANT SingletonUnlessRaced
INVARIANT RefusedOnlyIfBehind
