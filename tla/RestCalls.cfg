SPECIFICATION Spec
CONSTANTS
    Calls = {c1, c2}
    Keys = {k1}
    MaxRetries = 3
    MaxPolls = 2
    None = None
INVARIANTS
    EffectOnce
    OkMeansDone
PROPERTY CallsReturn
CHECK_DEADLOCK FALSE
