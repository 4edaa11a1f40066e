SPECIFICATION Spec
CONSTANTS
    MaxRecords = 5
    PageMax = 2
    Cap = 2
    Named <- MCNamed
    InSummary <- MCInSummary
    InBytes <- MCInBytes
    Limits <- MCLimits
    Offsets <- MCOffsets
INVARIANTS
    WalkIsWindow
    FindMisses
    FindsNewest
