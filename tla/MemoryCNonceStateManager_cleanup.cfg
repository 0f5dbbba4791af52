CONSTANTS
    Undefined = Undefined
    Rejected = Rejected
    Keys = {k1, k2}
    Callers = {c1}
    MaxTime = 2
    MaxTimers = 2
SPECIFICATION NSpec
INVARIANTS NTypeOK StopReachesEveryTimer
PROPERTIES ImplementsContract CleanupCollects
